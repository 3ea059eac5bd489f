----------------------------- MODULE ChatProofs -----------------------------
(***************************************************************************)
(* What Chat promises, for any number of people, devices, messages and     *)
(* requests: what Chat's run checks on one instance.                       *)
(*                                                                         *)
(* PINs.  fails counts wrong PINs since the backup was last opened and     *)
(* never goes back when a wait ends, tries counts them since the last      *)
(* wait.  They differ by whole rounds, so fails reaches a multiple of      *)
(* ATTEMPTS_PER_ROUND when tries reaches a round.                          *)
(*                                                                         *)
(* Keys.  A backup is only ever made of a key that is published, so what a *)
(* request that is under way may still write or forget is known at each of *)
(* its steps.                                                              *)
(*                                                                         *)
(* Connections.  As long as the handlers follow each other, at most one is *)
(* at work, and what it has still to tell is what its own socket changed.  *)
(*                                                                         *)
(* Messages.  A message is between the two its id is used for, and each    *)
(* request knows who they are from its first step to its last.  Whoever    *)
(* removes a file has removed the message, each message that was stored    *)
(* and is still to be announced is owed a push, and what a device shows is *)
(* right, will be put right by a request that is under way, or its last    *)
(* word was overtaken.                                                     *)
(***************************************************************************)
EXTENDS Chat, FiniteSetTheorems, WellFoundedInduction, TLAPS

-----------------------------------------------------------------------------
(* Arithmetic: adding one to a number adds one to its remainder, or makes  *)
(* it zero.                                                                *)

LEMMA Division ==
    ASSUME NEW a \in Nat \ {0}, NEW x \in Nat
    PROVE  x = a * (x \div a) + (x % a) /\ x \div a \in Nat /\ x % a \in 0..(a - 1)
  BY SMTT(20)

LEMMA AtLeastOneTime ==
    ASSUME NEW a \in Nat \ {0}, NEW d \in Int, d >= 1
    PROVE  a * d >= a
  BY SMTT(20)

LEMMA RemainderIsUnique ==
    ASSUME NEW a \in Nat \ {0}, NEW q \in Nat, NEW r \in 0..(a - 1),
           NEW p \in Nat, NEW s \in 0..(a - 1), a * q + r = a * p + s
    PROVE  r = s
<1>1. a * (q - p) = s - r
  BY SMT
<1>2. CASE q - p >= 1
  <2>1. a * (q - p) >= a
    BY <1>2, AtLeastOneTime
  <2> QED
    BY <1>1, <2>1
<1>3. CASE p - q >= 1
  <2>1. a * (p - q) >= a
    BY <1>3, AtLeastOneTime
  <2>2. a * (p - q) = r - s
    BY SMT
  <2> QED
    BY <2>1, <2>2
<1>4. CASE p = q
  BY <1>4
<1> QED
  BY <1>2, <1>3, <1>4

LEMMA NextRemainder ==
    ASSUME NEW a \in Nat \ {0}, NEW f \in Nat
    PROVE  (f + 1) % a = IF (f % a) + 1 = a THEN 0 ELSE (f % a) + 1
<1> DEFINE q == f \div a
           r == f % a
           p == (f + 1) \div a
           s == (f + 1) % a
<1>1. f = a * q + r /\ q \in Nat /\ r \in 0..(a - 1)
  BY Division
<1>2. f + 1 = a * p + s /\ p \in Nat /\ s \in 0..(a - 1)
  <2>1. f + 1 \in Nat
    OBVIOUS
  <2> QED
    BY <2>1, Division
<1> HIDE DEF q, r, p, s
<1>3. CASE r + 1 = a
  <2>1. a * (q + 1) = a * q + a
    BY <1>1
  <2>2. a * (q + 1) + 0 = a * p + s
    BY <1>1, <1>2, <1>3, <2>1
  <2>3. 0 = s
    BY <2>2, <1>1, <1>2, RemainderIsUnique
  <2> QED
    BY <2>3, <1>3 DEF r, s
<1>4. CASE r + 1 # a
  <2>1. a * q + (r + 1) = a * p + s
    BY <1>1, <1>2
  <2>2. r + 1 \in 0..(a - 1)
    BY <1>1, <1>4
  <2>3. r + 1 = s
    BY <2>1, <2>2, <1>1, <1>2, RemainderIsUnique
  <2> QED
    BY <2>3, <1>4 DEF r, s
<1> QED
  BY <1>3, <1>4

LEMMA SmallRemainder ==
    ASSUME NEW a \in Nat \ {0}, NEW t \in 0..(a - 1)
    PROVE  t % a = t
<1>1. t = a * (t \div a) + (t % a) /\ t \div a \in Nat /\ t % a \in 0..(a - 1)
  <2>1. t \in Nat
    OBVIOUS
  <2> QED
    BY <2>1, Division
<1>2. a * (t \div a) + (t % a) = a * 0 + t
  BY <1>1
<1> QED
  BY <1>1, <1>2, RemainderIsUnique

-----------------------------------------------------------------------------
(* What the keys are, as far as the guesses depend on it: a request that   *)
(* may yet store a backup has a PIN and a key for it.                      *)
KeysTyped ==
    /\ publicKey \in [Users -> PublicKeys \cup {None}]
    /\ backup \in [Users -> Backup \cup {None}]
    /\ tries \in [Users -> Nat]
    /\ ask \in [Asks -> Ask \cup {None}]

ReadyToStore ==
    \A r \in Asks :
        ask[r] # None =>
            /\ ask[r].step \in {"exists", "attempt", "save"} =>
                 ask[r].newPin \in Pins /\ ask[r].key \in PublicKeys
            /\ ask[r].step = "store" => ask[r].key \in PublicKeys

(* A round of wrong PINs is a part of them all.                            *)
RoundOf(u) ==
    /\ backup[u] = None => tries[u] = 0
    /\ backup[u] # None =>
         \/ /\ ~backup[u].locked
            /\ tries[u] < AttemptsPerRound
            /\ backup[u].fails % AttemptsPerRound = tries[u]
         \/ /\ backup[u].locked
            /\ tries[u] = AttemptsPerRound
            /\ backup[u].fails % AttemptsPerRound = 0

GuessInv ==
    /\ KeysTyped
    /\ ReadyToStore
    /\ \A u \in Users : RoundOf(u)

-----------------------------------------------------------------------------
LEMMA FirstBackupTyped ==
    ASSUME NEW kind
    PROVE  FirstBackup(kind) = None \/ (/\ FirstBackup(kind) \in Backup
                                        /\ FirstBackup(kind).fails = 0
                                        /\ ~FirstBackup(kind).locked)
<1>1. (CHOOSE p \in Pins : TRUE) \in Pins /\ (CHOOSE k \in PublicKeys : TRUE) \in PublicKeys
  BY KeyBackupAssumption
<1> QED
  BY <1>1 DEF FirstBackup, Backup

LEMMA InitGuesses == ASSUME BackupInit PROVE GuessInv
<1>1. PICK kind \in FirstBackups :
        /\ backup = [u \in Users |-> FirstBackup(kind)]
        /\ publicKey = [u \in Users |-> IF kind = "none" THEN None ELSE CHOOSE k \in PublicKeys : TRUE]
        /\ ask = [r \in Asks |-> None]
        /\ tries = [u \in Users |-> 0]
  BY DEF BackupInit
<1>2. (CHOOSE k \in PublicKeys : TRUE) \in PublicKeys
  BY KeyBackupAssumption
<1>3. FirstBackup(kind) = None \/ (/\ FirstBackup(kind) \in Backup
                                   /\ FirstBackup(kind).fails = 0
                                   /\ ~FirstBackup(kind).locked)
  BY FirstBackupTyped
<1>4. KeysTyped
  BY <1>1, <1>2, <1>3 DEF KeysTyped
<1>5. ReadyToStore
  BY <1>1 DEF ReadyToStore
<1>6. ASSUME NEW u \in Users PROVE RoundOf(u)
  <2>1. 0 % AttemptsPerRound = 0 /\ 0 < AttemptsPerRound
    BY KeyBackupAssumption, SmallRemainder
  <2> QED
    BY <1>1, <1>3, <2>1 DEF RoundOf
<1> QED
  BY <1>4, <1>5, <1>6 DEF GuessInv

-----------------------------------------------------------------------------
(* Requests.                                                               *)

LEMMA AskedTyped ==
    ASSUME NEW op \in {"publish", "save", "reset", "unlock", "readKey", "visibilityChanged"},
           NEW step \in {"store", "forget", "load", "cache", "exists", "attempt", "save", "done"},
           NEW u \in Users
    PROVE  Asked(op, step, u) \in Ask
  BY DEF Asked, Ask

LEMMA GoingOn ==
    ASSUME GuessInv, NEW r \in Asks, ask[r] # None,
           NEW step \in {"forget", "save", "attempt", "done"},
           step \in {"save", "attempt"} => ask[r].step \in {"exists", "attempt"},
           Proceed(r, step)
    PROVE  /\ ask' \in [Asks -> Ask \cup {None}]
           /\ ReadyToStore'
<1>1. ask[r] \in Ask
  BY DEF GuessInv, KeysTyped
<1>2. CASE step = "done"
  <2>1. ask' = [ask EXCEPT ![r] = Asked(ask[r].op, "done", ask[r].who)]
    BY <1>2 DEF Proceed, Over
  <2>2. Asked(ask[r].op, "done", ask[r].who) \in Ask
    BY <1>1 DEF Asked, Ask
  <2>3. Asked(ask[r].op, "done", ask[r].who).step = "done"
    BY DEF Asked
  <2> QED
    BY <2>1, <2>2, <2>3 DEF GuessInv, KeysTyped, ReadyToStore
<1>3. CASE step # "done"
  <2>1. ask' = [ask EXCEPT ![r] = [ask[r] EXCEPT !.step = step]]
    BY <1>3 DEF Proceed, GuessInv, KeysTyped
  <2>2. /\ [ask[r] EXCEPT !.step = step] \in Ask
        /\ [ask[r] EXCEPT !.step = step].step = step
        /\ [ask[r] EXCEPT !.step = step].newPin = ask[r].newPin
        /\ [ask[r] EXCEPT !.step = step].key = ask[r].key
    BY <1>1 DEF Ask
  <2>3. step \in {"save", "attempt"} => ask[r].newPin \in Pins /\ ask[r].key \in PublicKeys
    BY DEF GuessInv, ReadyToStore
  <2> QED
    BY <2>1, <2>2, <2>3 DEF GuessInv, KeysTyped, ReadyToStore
<1> QED
  BY <1>2, <1>3

(* A request begins, or its record is replaced.                            *)
LEMMA Beginning ==
    ASSUME GuessInv, NEW r \in Asks, NEW new \in Ask, ask' = [ask EXCEPT ![r] = new],
           new.step \in {"exists", "attempt", "save"} => new.newPin \in Pins /\ new.key \in PublicKeys,
           new.step = "store" => new.key \in PublicKeys
    PROVE  /\ ask' \in [Asks -> Ask \cup {None}]
           /\ ReadyToStore'
  BY DEF GuessInv, KeysTyped, ReadyToStore

(* Steps of requests that leave the backups alone.                         *)
LEMMA SameBackups ==
    ASSUME GuessInv, UNCHANGED <<backup, tries>>,
           publicKey' \in [Users -> PublicKeys \cup {None}],
           ask' \in [Asks -> Ask \cup {None}], ReadyToStore'
    PROVE  GuessInv'
  BY DEF GuessInv, KeysTyped, RoundOf

-----------------------------------------------------------------------------
LEMMA AttemptKeepsRound ==
    ASSUME GuessInv, NEW u \in Users, NEW pin, Attempt(u, pin)
    PROVE  /\ backup' \in [Users -> Backup \cup {None}]
           /\ tries' \in [Users -> Nat]
           /\ \A v \in Users : RoundOf(v)'
<1> DEFINE a == AttemptsPerRound
           b == backup[u]
<1>1. a \in Nat \ {0}
  BY KeyBackupAssumption
<1>2. CASE b = None \/ b.locked
  BY <1>2 DEF Attempt, GuessInv, KeysTyped, RoundOf
<1>3. CASE b # None /\ ~b.locked /\ b.pin = pin
  <2> DEFINE new == [b EXCEPT !.fails = 0, !.locked = FALSE]
  <2>1. b \in Backup
    BY <1>3 DEF GuessInv, KeysTyped
  <2>2. new \in Backup /\ new.fails = 0 /\ new.locked = FALSE
    BY <2>1 DEF Backup
  <2>3. backup' = [backup EXCEPT ![u] = new] /\ tries' = [tries EXCEPT ![u] = 0]
    BY <1>3, <2>1 DEF Attempt, GuessInv, KeysTyped
  <2>4. 0 % a = 0 /\ 0 < a
    BY <1>1, SmallRemainder
  <2> HIDE DEF new
  <2> QED
    BY <2>2, <2>3, <2>4 DEF GuessInv, KeysTyped, RoundOf
<1>4. CASE b # None /\ ~b.locked /\ b.pin # pin
  <2> DEFINE more == b.fails + 1
             locks == Locks(more)
             new == [b EXCEPT !.fails = more, !.locked = locks]
  <2>1. b \in Backup /\ b.fails \in Nat /\ more \in Nat
    BY <1>4 DEF GuessInv, KeysTyped, Backup
  <2>2. locks \in BOOLEAN
    BY DEF Locks
  <2>3. new \in Backup /\ new.fails = b.fails + 1 /\ new.locked = Locks(b.fails + 1)
    <3> HIDE DEF locks, more
    <3>1. new \in Backup /\ new.fails = more /\ new.locked = locks
      BY <2>1, <2>2 DEF Backup
    <3> QED
      BY <3>1 DEF locks, more
  <2>4. backup' = [backup EXCEPT ![u] = new] /\ tries' = [tries EXCEPT ![u] = @ + 1]
    BY <1>4, <2>1 DEF Attempt, GuessInv, KeysTyped
  <2>5. tries[u] \in Nat /\ tries[u] < a /\ b.fails % a = tries[u]
    BY <1>4, <2>1 DEF GuessInv, KeysTyped, RoundOf
  <2>6. (b.fails + 1) % a = IF tries[u] + 1 = a THEN 0 ELSE tries[u] + 1
    BY <1>1, <2>1, <2>5, NextRemainder
  <2>7. Locks(b.fails + 1) = (tries[u] + 1 = a)
    BY <1>1, <2>1, <2>5, <2>6 DEF Locks
  <2>8. new # None
    BY <2>3, KeyBackupAssumption
  <2> HIDE DEF new, a, b
  <2>9. RoundOf(u)'
    <3>1. backup'[u] = new /\ tries'[u] = tries[u] + 1
      BY <2>4 DEF GuessInv, KeysTyped
    <3>2. CASE tries[u] + 1 = a
      BY <3>1, <3>2, <2>3, <2>6, <2>7, <2>8 DEF RoundOf, a
    <3>3. CASE tries[u] + 1 # a
      <4>1. tries[u] + 1 < a
        BY <1>1, <2>5, <3>3
      <4> QED
        BY <3>1, <3>3, <4>1, <2>3, <2>6, <2>7, <2>8 DEF RoundOf, a
    <3> QED
      BY <3>2, <3>3
  <2>10. ASSUME NEW v \in Users, v # u PROVE RoundOf(v)'
    BY <2>4, <2>10 DEF GuessInv, KeysTyped, RoundOf
  <2>11. backup' \in [Users -> Backup \cup {None}] /\ tries' \in [Users -> Nat]
    BY <2>3, <2>4, <2>5 DEF GuessInv, KeysTyped
  <2> QED
    BY <2>9, <2>10, <2>11
<1> QED
  BY <1>2, <1>3, <1>4

-----------------------------------------------------------------------------
LEMMA KeyRequestsKeepGuesses ==
    ASSUME GuessInv, NEW r \in Asks, KeyRequests(r)
    PROVE  GuessInv'
<1>1. ASSUME NEW u \in Owners, NEW k \in PublicKeys, PublishKey(r, u, k) PROVE GuessInv'
  <2> DEFINE new == IF MayPublish(u, k)
                    THEN [Asked("publish", "store", u) EXCEPT !.key = k, !.late = backup[u] = None \/ publicKey[u] = None]
                    ELSE Asked("publish", "done", u)
  <2>1. u \in Users
    BY KeyBackupAssumption
  <2>2. new \in Ask /\ new.step \in {"store", "done"} /\ (new.step = "store" => new.key \in PublicKeys)
    BY <2>1 DEF Asked, Ask
  <2>3. ask' = [ask EXCEPT ![r] = new] /\ UNCHANGED <<publicKey, backup, tries>>
    BY <1>1 DEF PublishKey
  <2> HIDE DEF new
  <2>4. ask' \in [Asks -> Ask \cup {None}] /\ ReadyToStore'
    BY <2>2, <2>3, Beginning
  <2> QED
    BY <2>3, <2>4, SameBackups DEF GuessInv, KeysTyped
<1>2. ASSUME NEW u \in Owners, GetPublicKey(r, u) PROVE GuessInv'
  <2> DEFINE new == Asked("readKey", IF keyCache[u] = None THEN "load" ELSE "done", u)
  <2>1. u \in Users
    BY KeyBackupAssumption
  <2>2. new \in Ask /\ new.step \in {"load", "done"}
    BY <2>1 DEF Asked, Ask
  <2>3. ask' = [ask EXCEPT ![r] = new] /\ UNCHANGED <<publicKey, backup, tries>>
    BY <1>2 DEF GetPublicKey
  <2> HIDE DEF new
  <2>4. ask' \in [Asks -> Ask \cup {None}] /\ ReadyToStore'
    BY <2>2, <2>3, Beginning
  <2> QED
    BY <2>3, <2>4, SameBackups DEF GuessInv, KeysTyped
<1>3. ASSUME NEW u \in Owners, HideOrShow(r, u) PROVE GuessInv'
  <2> DEFINE new == Asked("visibilityChanged", "forget", u)
  <2>1. u \in Users
    BY KeyBackupAssumption
  <2>2. new \in Ask /\ new.step = "forget"
    BY <2>1 DEF Asked, Ask
  <2>3. ask' = [ask EXCEPT ![r] = new] /\ UNCHANGED <<publicKey, backup, tries>>
    BY <1>3 DEF HideOrShow
  <2> HIDE DEF new
  <2>4. ask' \in [Asks -> Ask \cup {None}] /\ ReadyToStore'
    BY <2>2, <2>3, Beginning
  <2> QED
    BY <2>3, <2>4, SameBackups DEF GuessInv, KeysTyped
<1>4. CASE StoreKey(r)
  <2>1. ask[r] \in Ask /\ ask[r].key \in PublicKeys /\ ask[r] # None
    BY <1>4 DEF StoreKey, Asking, GuessInv, KeysTyped, ReadyToStore
  <2>2. publicKey' \in [Users -> PublicKeys \cup {None}] /\ UNCHANGED <<backup, tries>>
    BY <1>4, <2>1 DEF StoreKey, GuessInv, KeysTyped
  <2>3. ask' \in [Asks -> Ask \cup {None}] /\ ReadyToStore'
    BY <1>4, <2>1, GoingOn DEF StoreKey
  <2> QED
    BY <2>2, <2>3, SameBackups
<1>5. CASE ForgetPublicKey(r) \/ CachePublicKey(r)
  <2>1. ask[r] # None /\ Proceed(r, "done") /\ UNCHANGED <<publicKey, backup, tries>>
    BY <1>5 DEF ForgetPublicKey, CachePublicKey, Asking
  <2>2. ask' \in [Asks -> Ask \cup {None}] /\ ReadyToStore'
    BY <2>1, GoingOn
  <2> QED
    BY <2>1, <2>2, SameBackups DEF GuessInv, KeysTyped
<1>6. CASE LoadPublicKey(r)
  <2>1. ask[r] \in Ask /\ ask[r] # None /\ UNCHANGED <<publicKey, backup, tries>>
    BY <1>6 DEF LoadPublicKey, Asking, GuessInv, KeysTyped
  <2>2. ask' \in [Asks -> Ask \cup {None}] /\ ReadyToStore'
    <3>1. CASE Proceed(r, "done")
      BY <2>1, <3>1, GoingOn
    <3>2. CASE ask' = [ask EXCEPT ![r].step = "cache", ![r].key = publicKey[ask[r].who]]
      <4> DEFINE new == [ask[r] EXCEPT !.step = "cache", !.key = publicKey[ask[r].who]]
      <4>1. ask' = [ask EXCEPT ![r] = new]
        BY <3>2, <2>1 DEF GuessInv, KeysTyped
      <4>2. publicKey[ask[r].who] \in PublicKeys \cup {None}
        BY <2>1 DEF Ask, GuessInv, KeysTyped
      <4>3. new \in Ask /\ new.step = "cache"
        BY <2>1, <4>2 DEF Ask
      <4> HIDE DEF new
      <4> QED
        BY <4>1, <4>3, Beginning
    <3> QED
      BY <1>6, <3>1, <3>2 DEF LoadPublicKey
  <2> QED
    BY <2>1, <2>2, SameBackups DEF GuessInv, KeysTyped
<1> QED
  BY <1>1, <1>2, <1>3, <1>4, <1>5, <1>6 DEF KeyRequests

LEMMA BackupRequestsKeepGuesses ==
    ASSUME GuessInv, NEW r \in Asks, BackupRequests(r)
    PROVE  GuessInv'
<1>1. ASSUME NEW u \in Owners, NEW pin \in Pins, Unlock(r, u, pin) PROVE GuessInv'
  <2>1. u \in Users
    BY KeyBackupAssumption
  <2>2. /\ ask' = [ask EXCEPT ![r] = Asked("unlock", "done", u)]
        /\ UNCHANGED publicKey
        /\ Attempt(u, pin)
    BY <1>1 DEF Unlock
  <2>3. Asked("unlock", "done", u) \in Ask /\ Asked("unlock", "done", u).step = "done"
    BY <2>1 DEF Asked, Ask
  <2>4. ask' \in [Asks -> Ask \cup {None}] /\ ReadyToStore'
    BY <2>2, <2>3, Beginning
  <2> QED
    BY <2>1, <2>2, <2>4, AttemptKeepsRound DEF GuessInv, KeysTyped
<1>2. ASSUME NEW u \in Owners, NEW pin \in Pins, NEW k \in PublicKeys, NEW typed \in Pins \cup {None},
             NEW byPassword \in BOOLEAN, NEW op \in {"save", "reset"}, Save(r, op, u, k, pin, typed, byPassword)
      PROVE  GuessInv'
  <2> DEFINE first == Asked(op, IF byPassword THEN "save" ELSE "exists", u)
             new == [first EXCEPT !.key = k, !.newPin = pin, !.pin = typed]
  <2>1. u \in Users
    BY KeyBackupAssumption
  <2>2. new \in Ask /\ new.newPin \in Pins /\ new.key \in PublicKeys
    BY <2>1 DEF Asked, Ask
  <2>3. ask' = [ask EXCEPT ![r] = new] /\ UNCHANGED <<publicKey, backup, tries>>
    BY <1>2 DEF Save
  <2> HIDE DEF new
  <2>4. ask' \in [Asks -> Ask \cup {None}] /\ ReadyToStore'
    BY <2>2, <2>3, Beginning
  <2> QED
    BY <2>3, <2>4, SameBackups DEF GuessInv, KeysTyped
<1>3. CASE RequireCurrentPin(r)
  <2> DEFINE step == IF backup[ask[r].who] = None THEN "save"
                     ELSE IF ask[r].pin = None THEN "done" ELSE "attempt"
  <2>1. /\ ask[r] # None /\ ask[r].step = "exists"
        /\ Proceed(r, step)
        /\ UNCHANGED <<publicKey, backup, tries>>
    BY <1>3 DEF RequireCurrentPin, Asking
  <2>2. step \in {"forget", "save", "attempt", "done"}
    OBVIOUS
  <2> HIDE DEF step
  <2>3. ask' \in [Asks -> Ask \cup {None}] /\ ReadyToStore'
    BY <2>1, <2>2, GoingOn
  <2> QED
    BY <2>1, <2>3, SameBackups DEF GuessInv, KeysTyped
<1>4. CASE TryCurrentPin(r)
  <2> DEFINE step == IF Opens(ask[r].who, ask[r].pin) THEN "save" ELSE "done"
  <2>1. /\ ask[r] # None /\ ask[r].step = "attempt"
        /\ Proceed(r, step)
        /\ UNCHANGED publicKey
        /\ Attempt(ask[r].who, ask[r].pin)
    BY <1>4 DEF TryCurrentPin, Asking
  <2>2. step \in {"forget", "save", "attempt", "done"}
    OBVIOUS
  <2> HIDE DEF step
  <2>3. ask' \in [Asks -> Ask \cup {None}] /\ ReadyToStore'
    BY <2>1, <2>2, GoingOn
  <2>4. ask[r].who \in Users
    BY <2>1 DEF GuessInv, KeysTyped, Ask
  <2> QED
    BY <2>1, <2>3, <2>4, AttemptKeepsRound DEF GuessInv, KeysTyped
<1>5. CASE StoreBackup(r)
  <2> DEFINE u == ask[r].who
             new == [pin |-> ask[r].newPin, protectedBy |-> "pin", key |-> ask[r].key,
                     fails |-> 0, locked |-> FALSE]
  <2>1. ask[r] # None /\ ask[r] \in Ask /\ ask[r].step = "save"
    BY <1>5 DEF StoreBackup, Asking, GuessInv, KeysTyped
  <2>2. u \in Users /\ ask[r].newPin \in Pins /\ ask[r].key \in PublicKeys
    BY <2>1 DEF GuessInv, ReadyToStore, Ask
  <2>3. new \in Backup /\ new.fails = 0 /\ new.locked = FALSE
    BY <2>2 DEF Backup
  <2>4. /\ backup' = [backup EXCEPT ![u] = new]
        /\ tries' = [tries EXCEPT ![u] = 0]
        /\ publicKey' = NewKey(r)
        /\ Proceed(r, AfterSave(ask[r].op))
    BY <1>5 DEF StoreBackup
  <2>5. publicKey' \in [Users -> PublicKeys \cup {None}]
    BY <2>2, <2>4 DEF NewKey, GuessInv, KeysTyped
  <2>6. AfterSave(ask[r].op) \in {"forget", "done"}
    BY DEF AfterSave
  <2>7. ask' \in [Asks -> Ask \cup {None}] /\ ReadyToStore'
    BY <2>1, <2>4, <2>6, GoingOn
  <2>8. 0 % AttemptsPerRound = 0 /\ 0 < AttemptsPerRound
    BY KeyBackupAssumption, SmallRemainder
  <2> HIDE DEF new, u
  <2> QED
    BY <2>2, <2>3, <2>4, <2>5, <2>7, <2>8 DEF GuessInv, KeysTyped, RoundOf
<1> QED
  BY <1>1, <1>2, <1>3, <1>4, <1>5 DEF BackupRequests

LEMMA LockEndsKeepsGuesses ==
    ASSUME GuessInv, NEW u \in Owners, LockEnds(u)
    PROVE  GuessInv'
<1> DEFINE new == [backup[u] EXCEPT !.locked = FALSE]
<1>1. u \in Users
  BY KeyBackupAssumption
<1>2. backup[u] \in Backup /\ backup[u] # None /\ backup[u].locked
  BY <1>1 DEF LockEnds, GuessInv, KeysTyped
<1>3. new \in Backup /\ new.locked = FALSE /\ new.fails = backup[u].fails
  BY <1>2 DEF Backup
<1>4. /\ backup' = [backup EXCEPT ![u] = new]
      /\ tries' = [tries EXCEPT ![u] = 0]
      /\ UNCHANGED <<publicKey, ask>>
  BY <1>1 DEF LockEnds, GuessInv, KeysTyped
<1>5. backup[u].fails % AttemptsPerRound = 0
  BY <1>1, <1>2 DEF GuessInv, RoundOf
<1>6. AttemptsPerRound > 0
  BY KeyBackupAssumption
<1> HIDE DEF new
<1>7. KeysTyped'
  BY <1>1, <1>3, <1>4 DEF GuessInv, KeysTyped
<1>8. ReadyToStore'
  BY <1>4 DEF GuessInv, ReadyToStore
<1>9. ASSUME NEW v \in Users PROVE RoundOf(v)'
  BY <1>1, <1>3, <1>4, <1>5, <1>6 DEF GuessInv, KeysTyped, RoundOf
<1> QED
  BY <1>7, <1>8, <1>9 DEF GuessInv

LEMMA NextKeepsGuesses ==
    ASSUME GuessInv, [Next]_vars
    PROVE  GuessInv'
<1>1. CASE UNCHANGED <<publicKey, backup, ask, tries>>
  BY <1>1 DEF GuessInv, KeysTyped, ReadyToStore, RoundOf
<1>2. CASE BackupNext
  <2>1. ASSUME NEW u \in Owners, ExpireKey(u) PROVE GuessInv'
    <3>1. UNCHANGED <<publicKey, backup, ask, tries>>
      BY <2>1 DEF ExpireKey
    <3> QED
      BY <3>1, <1>1
  <2> QED
    BY <1>2, <2>1, KeyRequestsKeepGuesses, BackupRequestsKeepGuesses, LockEndsKeepsGuesses
       DEF BackupNext
<1> QED
  BY <1>1, <1>2 DEF Next, vars, backupVars

-----------------------------------------------------------------------------
(* Between two waits a backup is tried with at most ATTEMPTS_PER_ROUND     *)
(* wrong PINs, whatever number of devices tries, and after the last of     *)
(* them it is locked (chat-backup.service.ts).                             *)
THEOREM GuessesAreFew == Spec => []FewTriesPerRound
<1>1. Init => GuessInv
  BY InitGuesses DEF Init
<1>2. GuessInv /\ [Next]_vars => GuessInv'
  BY NextKeepsGuesses
<1>3. GuessInv => FewTriesPerRound
  <2>1. AttemptsPerRound \in Nat \ {0}
    BY KeyBackupAssumption
  <2>2. ASSUME GuessInv, NEW u \in Users
        PROVE  /\ tries[u] <= AttemptsPerRound
               /\ tries[u] = AttemptsPerRound => backup[u] # None /\ backup[u].locked
    BY <2>1, <2>2 DEF GuessInv, KeysTyped, RoundOf
  <2> QED
    BY <2>2 DEF FewTriesPerRound
<1> QED
  BY <1>1, <1>2, <1>3, PTL DEF Spec

-----------------------------------------------------------------------------
(* The keys and their copies.  Nobody publishes a key over a key that has  *)
(* a backup, so one published beside it was asked for before it.           *)

CopiesTyped ==
    /\ oldBackup \in [Users -> BOOLEAN]
    /\ hidden \in [Users -> BOOLEAN]
    /\ keyCache \in [Users -> [key : PublicKeys, late : BOOLEAN] \cup {None}]
    /\ pinCache \in [Users -> BOOLEAN]
    /\ apart \in [Users -> BOOLEAN]

AskInv(a) ==
    a # None =>
        /\ a.step = "cache" => a.key \in PublicKeys
        /\ a.step = "store" => a.late
        /\ a.step \in {"exists", "attempt", "save"} =>
             a.op \in {"save", "reset"}

KeyInv ==
    /\ GuessInv
    /\ CopiesTyped
    /\ \A r \in Asks : AskInv(ask[r])
    /\ KeysBelongTogether

LEMMA InitKeys == ASSUME BackupInit PROVE KeyInv
<1>1. PICK kind \in FirstBackups :
        /\ backup = [u \in Users |-> FirstBackup(kind)]
        /\ oldBackup = [u \in Users |-> kind = "old"]
        /\ publicKey = [u \in Users |-> IF kind = "none" THEN None ELSE CHOOSE k \in PublicKeys : TRUE]
        /\ hidden = [u \in Users |-> FALSE]
        /\ keyCache = [u \in Users |-> None]
        /\ pinCache = [u \in Users |-> FALSE]
        /\ ask = [r \in Asks |-> None]
        /\ apart = [u \in Users |-> FALSE]
  BY DEF BackupInit
<1>2. (CHOOSE k \in PublicKeys : TRUE) \in PublicKeys
  BY KeyBackupAssumption
<1>3. FirstBackup(kind) # None => /\ kind # "none"
                                  /\ FirstBackup(kind).key = CHOOSE k \in PublicKeys : TRUE
  BY DEF FirstBackup
<1>4. GuessInv
  BY InitGuesses
<1>5. CopiesTyped /\ \A r \in Asks : AskInv(ask[r])
  BY <1>1 DEF CopiesTyped, AskInv
<1>6. KeyIsBackedUp
  BY <1>1, <1>2, <1>3, KeyBackupAssumption DEF KeyIsBackedUp
<1>7. CachedKeyIsCurrent /\ CachedPinIsThere
  BY <1>1 DEF CachedKeyIsCurrent, CachedPinIsThere
<1> QED
  BY <1>4, <1>5, <1>6, <1>7 DEF KeyInv, KeysBelongTogether

-----------------------------------------------------------------------------
(* A request's next record.                                                *)
LEMMA ProceedsTo ==
    ASSUME KeyInv, NEW r \in Asks, ask[r] # None, NEW step, Proceed(r, step),
           step \in {"forget", "save", "attempt", "done"}
    PROVE  \E new \in Ask :
             /\ ask' = [ask EXCEPT ![r] = new]
             /\ new.step = step /\ new.who = ask[r].who
             /\ step # "done" => new.op = ask[r].op
<1>1. ask[r] \in Ask
  BY DEF KeyInv, GuessInv, KeysTyped
<1>2. CASE step = "done"
  <2> DEFINE new == Asked(ask[r].op, "done", ask[r].who)
  <2>1. ask' = [ask EXCEPT ![r] = new]
    BY <1>2 DEF Proceed, Over
  <2>2. new \in Ask /\ new.step = "done" /\ new.who = ask[r].who
    BY <1>1 DEF Asked, Ask
  <2> QED
    BY <1>2, <2>1, <2>2
<1>3. CASE step # "done"
  <2> DEFINE new == [ask[r] EXCEPT !.step = step]
  <2>1. ask' = [ask EXCEPT ![r] = new]
    BY <1>3 DEF Proceed, KeyInv, GuessInv, KeysTyped
  <2>2. new \in Ask /\ new.step = step /\ new.who = ask[r].who /\ new.op = ask[r].op
    BY <1>1 DEF Ask
  <2> QED
    BY <2>1, <2>2
<1> QED
  BY <1>2, <1>3

(* The other requests stay as they are.                                    *)
LEMMA RequestsStaySound ==
    ASSUME KeyInv, NEW r \in Asks, NEW new \in Ask, ask' = [ask EXCEPT ![r] = new],
           AskInv(new)'
    PROVE  \A x \in Asks : AskInv(ask[x])'
<1>1. ASSUME NEW x \in Asks, x # r PROVE AskInv(ask[x])'
  <2>1. ask'[x] = ask[x]
    BY <1>1 DEF KeyInv, GuessInv, KeysTyped
  <2>2. ask[x] # None => ask[x].who \in Users
    BY DEF KeyInv, GuessInv, KeysTyped, Ask
  <2> QED
    BY <2>1, <2>2 DEF KeyInv, AskInv
<1>2. ask'[r] = new
  BY DEF KeyInv, GuessInv, KeysTyped
<1> QED
  BY <1>1, <1>2

(* A step that changes neither keys nor backups and answers nobody who     *)
(* waits for a key to be forgotten.                                        *)
LEMMA OnlyAsked ==
    ASSUME KeyInv, GuessInv', NEW r \in Asks, NEW new \in Ask, ask' = [ask EXCEPT ![r] = new],
           UNCHANGED <<publicKey, oldBackup, hidden, keyCache, pinCache, apart>>,
           \A u \in Users : /\ (backup'[u] = None) = (backup[u] = None)
                            /\ backup[u] # None =>
                                 backup'[u].key = backup[u].key /\ backup'[u].protectedBy = backup[u].protectedBy,
           ~Asking(r, "forget"), AskInv(new)
    PROVE  KeyInv'
<1>1. CopiesTyped'
  BY DEF KeyInv, CopiesTyped
<1>2. \A x \in Asks : AskInv(ask[x])'
  <2>1. AskInv(new)'
    BY DEF AskInv
  <2> QED
    BY <2>1, RequestsStaySound
<1>3. KeyIsBackedUp' /\ CachedPinIsThere'
  BY DEF KeyInv, KeysBelongTogether, KeyIsBackedUp, CachedPinIsThere, HasPin
<1>4. CachedKeyIsCurrent'
  <2>1. ASSUME NEW x \in Asks, Asking(x, "forget") PROVE Asking(x, "forget")' /\ ask'[x].who = ask[x].who
    <3>1. x # r
      BY <2>1
    <3>2. ask'[x] = ask[x]
      BY <3>1 DEF KeyInv, GuessInv, KeysTyped
    <3> QED
      BY <2>1, <3>2 DEF Asking
  <2> QED
    BY <2>1 DEF KeyInv, KeysBelongTogether, CachedKeyIsCurrent
<1> QED
  BY <1>1, <1>2, <1>3, <1>4 DEF KeyInv, KeysBelongTogether

LEMMA AttemptKeepsKey ==
    ASSUME KeyInv, NEW u, NEW pin, Attempt(u, pin)
    PROVE  \A v \in Users : /\ (backup'[v] = None) = (backup[v] = None)
                            /\ backup[v] # None =>
                                 backup'[v].key = backup[v].key /\ backup'[v].protectedBy = backup[v].protectedBy
<1>1. ASSUME NEW v \in Users, v # u
      PROVE  /\ (backup'[v] = None) = (backup[v] = None)
             /\ backup[v] # None =>
                  backup'[v].key = backup[v].key /\ backup'[v].protectedBy = backup[v].protectedBy
  BY <1>1 DEF Attempt, KeyInv, GuessInv, KeysTyped
<1>2. ASSUME u \in Users
      PROVE  /\ (backup'[u] = None) = (backup[u] = None)
             /\ backup[u] # None =>
                  backup'[u].key = backup[u].key /\ backup'[u].protectedBy = backup[u].protectedBy
  <2> DEFINE b == backup[u]
  <2>1. CASE b = None \/ b.locked
    BY <2>1 DEF Attempt
  <2>2. CASE b # None /\ ~b.locked /\ b.pin = pin
    <3> DEFINE new == [b EXCEPT !.fails = 0, !.locked = FALSE]
    <3>1. b \in Backup
      BY <1>2, <2>2 DEF KeyInv, GuessInv, KeysTyped
    <3>2. backup'[u] = new
      BY <1>2, <2>2, <3>1 DEF Attempt, KeyInv, GuessInv, KeysTyped
    <3>3. new \in Backup /\ new.key = b.key /\ new.protectedBy = b.protectedBy
      BY <3>1 DEF Backup
    <3> QED
      BY <2>2, <3>2, <3>3, KeyBackupAssumption
  <2>3. CASE b # None /\ ~b.locked /\ b.pin # pin
    <3> DEFINE more == b.fails + 1
               locks == Locks(more)
               new == [b EXCEPT !.fails = more, !.locked = locks]
    <3>1. b \in Backup /\ more \in Nat
      BY <1>2, <2>3 DEF KeyInv, GuessInv, KeysTyped, Backup
    <3>2. locks \in BOOLEAN
      BY DEF Locks
    <3>3. backup'[u] = new
      BY <1>2, <2>3, <3>1 DEF Attempt, KeyInv, GuessInv, KeysTyped
    <3> HIDE DEF locks, more
    <3>4. new \in Backup /\ new.key = b.key /\ new.protectedBy = b.protectedBy
      BY <3>1, <3>2 DEF Backup
    <3> QED
      BY <2>3, <3>3, <3>4, KeyBackupAssumption
  <2> QED
    BY <2>1, <2>2, <2>3
<1> QED
  BY <1>1, <1>2

-----------------------------------------------------------------------------
LEMMA KeyRequestsKeepKeys ==
    ASSUME KeyInv, NEW r \in Asks, KeyRequests(r)
    PROVE  KeyInv'
<1>0. GuessInv'
  BY KeyRequestsKeepGuesses DEF KeyInv
<1>1. ASSUME NEW u \in Owners, NEW k \in PublicKeys, PublishKey(r, u, k) PROVE KeyInv'
  <2> DEFINE new == IF MayPublish(u, k)
                    THEN [Asked("publish", "store", u) EXCEPT !.key = k, !.late = backup[u] = None \/ publicKey[u] = None]
                    ELSE Asked("publish", "done", u)
  <2>1. u \in Users
    BY KeyBackupAssumption
  <2>2. MayPublish(u, k) => backup[u] = None \/ publicKey[u] = None
    BY DEF MayPublish
  <2>3. new \in Ask /\ AskInv(new)
    BY <2>1, <2>2 DEF Asked, Ask, AskInv
  <2>4. /\ ask' = [ask EXCEPT ![r] = new]
        /\ UNCHANGED <<publicKey, backup, oldBackup, hidden, keyCache, pinCache, apart>>
        /\ ~Asking(r, "forget")
    BY <1>1 DEF PublishKey, Asking
  <2> HIDE DEF new
  <2> QED
    BY <1>0, <2>3, <2>4, OnlyAsked
<1>2. ASSUME NEW u \in Owners, GetPublicKey(r, u) PROVE KeyInv'
  <2> DEFINE new == Asked("readKey", IF keyCache[u] = None THEN "load" ELSE "done", u)
  <2>1. u \in Users
    BY KeyBackupAssumption
  <2>2. new \in Ask /\ AskInv(new)
    BY <2>1 DEF Asked, Ask, AskInv
  <2>3. /\ ask' = [ask EXCEPT ![r] = new]
        /\ UNCHANGED <<publicKey, backup, oldBackup, hidden, keyCache, pinCache, apart>>
        /\ ~Asking(r, "forget")
    BY <1>2 DEF GetPublicKey, Asking
  <2> HIDE DEF new
  <2> QED
    BY <1>0, <2>2, <2>3, OnlyAsked
<1>3. ASSUME NEW u \in Owners, HideOrShow(r, u) PROVE KeyInv'
  <2> DEFINE new == Asked("visibilityChanged", "forget", u)
  <2>1. u \in Users
    BY KeyBackupAssumption
  <2>2. new \in Ask /\ new.step = "forget" /\ new.who = u
    BY <2>1 DEF Asked, Ask
  <2>3. /\ ask' = [ask EXCEPT ![r] = new] /\ ask[r] = None
        /\ hidden' = [hidden EXCEPT ![u] = ~@]
        /\ UNCHANGED <<publicKey, backup, oldBackup, keyCache, pinCache, apart>>
    BY <1>3 DEF HideOrShow
  <2> HIDE DEF new
  <2>4. \A x \in Asks : AskInv(ask[x])'
    <3>1. AskInv(new)'
      BY <2>2 DEF AskInv
    <3> QED
      BY <2>2, <2>3, <3>1, RequestsStaySound
  <2>5. CopiesTyped' /\ KeyIsBackedUp' /\ CachedPinIsThere'
    BY <2>1, <2>3 DEF KeyInv, CopiesTyped, KeysBelongTogether, KeyIsBackedUp,
                      CachedPinIsThere, HasPin
  <2>6. CachedKeyIsCurrent'
    <3>1. ASSUME NEW x \in Asks, Asking(x, "forget") PROVE Asking(x, "forget")' /\ ask'[x].who = ask[x].who
      BY <2>3, <3>1 DEF Asking, KeyInv, GuessInv, KeysTyped
    <3>2. Asking(r, "forget")' /\ ask'[r].who = u
      BY <2>2, <2>3, KeyBackupAssumption DEF Asking, KeyInv, GuessInv, KeysTyped
    <3>3. \A v \in Users : v # u => hidden'[v] = hidden[v]
      BY <2>3 DEF KeyInv, CopiesTyped
    <3> QED
      BY <2>3, <3>1, <3>2, <3>3 DEF KeyInv, KeysBelongTogether, CachedKeyIsCurrent
  <2> QED
    BY <1>0, <2>4, <2>5, <2>6 DEF KeyInv, KeysBelongTogether
<1>4. CASE StoreKey(r)
  <2> DEFINE u == ask[r].who
  <2>1. ask[r] \in Ask /\ ask[r] # None /\ ask[r].step = "store" /\ ask[r].key \in PublicKeys /\ ask[r].late
    BY <1>4 DEF StoreKey, Asking, KeyInv, GuessInv, KeysTyped, ReadyToStore, AskInv
  <2>2. u \in Users
    BY <2>1 DEF Ask
  <2>3. /\ publicKey' = [publicKey EXCEPT ![u] = ask[r].key]
        /\ apart' = [apart EXCEPT ![u] = @ \/ backup[u] # None]
        /\ Proceed(r, "forget")
        /\ UNCHANGED <<backup, oldBackup, hidden, keyCache, pinCache>>
    BY <1>4, <2>1 DEF StoreKey
  <2>4. PICK new \in Ask : /\ ask' = [ask EXCEPT ![r] = new]
                           /\ new.step = "forget" /\ new.who = u
    BY <2>1, <2>3, ProceedsTo
  <2> HIDE DEF u
  <2>6. \A x \in Asks : AskInv(ask[x])'
    <3>1. AskInv(new)'
      BY <2>4 DEF AskInv
    <3> QED
      BY <2>4, <3>1, RequestsStaySound
  <2>7. CopiesTyped' /\ CachedPinIsThere'
    BY <2>2, <2>3 DEF KeyInv, CopiesTyped, KeysBelongTogether, CachedPinIsThere, HasPin
  <2>8. KeyIsBackedUp'
    BY <2>2, <2>3 DEF KeyInv, CopiesTyped, GuessInv, KeysTyped, KeysBelongTogether, KeyIsBackedUp
  <2>9. CachedKeyIsCurrent'
    <3>1. ASSUME NEW x \in Asks, Asking(x, "forget") PROVE Asking(x, "forget")' /\ ask'[x].who = ask[x].who
      <4>1. x # r
        BY <2>1, <3>1 DEF Asking
      <4> QED
        BY <2>4, <3>1, <4>1 DEF Asking, KeyInv, GuessInv, KeysTyped
    <3>2. Asking(r, "forget")' /\ ask'[r].who = u
      BY <2>4, KeyBackupAssumption DEF Asking, KeyInv, GuessInv, KeysTyped
    <3>3. \A v \in Users : v # u => publicKey'[v] = publicKey[v]
      BY <2>3 DEF KeyInv, GuessInv, KeysTyped
    <3> QED
      BY <2>3, <3>1, <3>2, <3>3 DEF KeyInv, KeysBelongTogether, CachedKeyIsCurrent
  <2> QED
    BY <1>0, <2>6, <2>7, <2>8, <2>9 DEF KeyInv, KeysBelongTogether
<1>5. CASE ForgetPublicKey(r)
  <2> DEFINE u == ask[r].who
  <2>1. ask[r] \in Ask /\ ask[r] # None
    BY <1>5 DEF ForgetPublicKey, Asking, KeyInv, GuessInv, KeysTyped
  <2>2. u \in Users
    BY <2>1 DEF Ask
  <2>3. /\ Proceed(r, "done")
        /\ UNCHANGED <<publicKey, backup, oldBackup, hidden, pinCache, apart>>
    BY <1>5 DEF ForgetPublicKey
  <2>4. PICK new \in Ask : ask' = [ask EXCEPT ![r] = new] /\ new.step = "done"
    BY <2>1, <2>3, ProceedsTo
  <2>5. /\ keyCache' \in [Users -> [key : PublicKeys, late : BOOLEAN] \cup {None}]
        /\ keyCache'[u] = None \/ keyCache'[u].late
        /\ \A v \in Users : v # u => keyCache'[v] = keyCache[v]
    <3>1. CASE keyCache' = [keyCache EXCEPT ![u] = None]
      BY <2>2, <3>1 DEF KeyInv, CopiesTyped
    <3>2. CASE keyCache[u] # None /\ keyCache' = [keyCache EXCEPT ![u].late = TRUE]
      <4> DEFINE c == [keyCache[u] EXCEPT !.late = TRUE]
      <4>1. c \in [key : PublicKeys, late : BOOLEAN] /\ c.late
        BY <2>2, <3>2 DEF KeyInv, CopiesTyped
      <4>2. keyCache' = [keyCache EXCEPT ![u] = c]
        BY <3>2, <2>2 DEF KeyInv, CopiesTyped
      <4> HIDE DEF c
      <4> QED
        BY <2>2, <4>1, <4>2 DEF KeyInv, CopiesTyped
    <3> QED
      BY <1>5, <3>1, <3>2 DEF ForgetPublicKey
  <2> HIDE DEF u
  <2>6. \A x \in Asks : AskInv(ask[x])'
    <3>1. AskInv(new)'
      BY <2>4 DEF AskInv
    <3> QED
      BY <2>3, <2>4, <3>1, RequestsStaySound
  <2>7. CopiesTyped' /\ CachedPinIsThere' /\ KeyIsBackedUp'
    BY <2>3, <2>5 DEF KeyInv, CopiesTyped, KeysBelongTogether, KeyIsBackedUp,
                      CachedPinIsThere, HasPin
  <2>8. CachedKeyIsCurrent'
    <3>1. ASSUME NEW x \in Asks, Asking(x, "forget"), ask[x].who # u
          PROVE  Asking(x, "forget")' /\ ask'[x].who = ask[x].who
      BY <2>4, <3>1 DEF Asking, KeyInv, GuessInv, KeysTyped, u
    <3> QED
      BY <2>3, <2>5, <3>1 DEF KeyInv, KeysBelongTogether, CachedKeyIsCurrent
  <2> QED
    BY <1>0, <2>6, <2>7, <2>8 DEF KeyInv, KeysBelongTogether
<1>6. CASE LoadPublicKey(r)
  <2> DEFINE u == ask[r].who
  <2>1. ask[r] \in Ask /\ ask[r] # None /\ ask[r].step = "load" /\ u \in Users
    BY <1>6 DEF LoadPublicKey, Asking, KeyInv, GuessInv, KeysTyped, Ask
  <2>2. /\ UNCHANGED <<publicKey, backup, oldBackup, hidden, keyCache, pinCache, apart>>
        /\ ~Asking(r, "forget")
    BY <1>6, <2>1 DEF LoadPublicKey, Asking
  <2>3. CASE Proceed(r, "done")
    <3>1. PICK new \in Ask : ask' = [ask EXCEPT ![r] = new] /\ new.step = "done"
      BY <2>1, <2>3, ProceedsTo
    <3>2. AskInv(new)
      BY <3>1 DEF AskInv
    <3> QED
      BY <1>0, <2>2, <3>1, <3>2, OnlyAsked
  <2>4. CASE publicKey[u] # None /\ ask' = [ask EXCEPT ![r].step = "cache", ![r].key = publicKey[u]]
    <3> DEFINE new == [ask[r] EXCEPT !.step = "cache", !.key = publicKey[u]]
    <3>1. ask' = [ask EXCEPT ![r] = new]
      BY <2>1, <2>4 DEF KeyInv, GuessInv, KeysTyped
    <3>2. publicKey[u] \in PublicKeys
      BY <2>1, <2>4 DEF KeyInv, GuessInv, KeysTyped
    <3>3. new \in Ask /\ new.step = "cache" /\ new.key \in PublicKeys
      BY <2>1, <3>2 DEF Ask
    <3> HIDE DEF new, u
    <3>4. AskInv(new)
      BY <3>3 DEF AskInv
    <3> QED
      BY <1>0, <2>2, <3>1, <3>3, <3>4, OnlyAsked
  <2> QED
    BY <1>6, <2>3, <2>4 DEF LoadPublicKey
<1>7. CASE CachePublicKey(r)
  <2> DEFINE u == ask[r].who
             k == ask[r].key
             c == [key |-> k, late |-> k # publicKey[u] \/ hidden[u]]
  <2>1. ask[r] \in Ask /\ ask[r] # None /\ ask[r].step = "cache" /\ u \in Users /\ k \in PublicKeys
    BY <1>7 DEF CachePublicKey, Asking, KeyInv, GuessInv, KeysTyped, Ask, AskInv
  <2>2. /\ Proceed(r, "done") /\ keyCache' = [keyCache EXCEPT ![u] = c]
        /\ UNCHANGED <<publicKey, backup, oldBackup, hidden, pinCache, apart>>
    BY <1>7 DEF CachePublicKey
  <2>3. PICK new \in Ask : ask' = [ask EXCEPT ![r] = new] /\ new.step = "done"
    BY <2>1, <2>2, ProceedsTo
  <2>4. c \in [key : PublicKeys, late : BOOLEAN] /\ (~c.late => c.key = publicKey[u] /\ ~hidden[u])
    BY <2>1 DEF KeyInv, CopiesTyped
  <2> HIDE DEF u, k, c
  <2>5. \A x \in Asks : AskInv(ask[x])'
    <3>1. AskInv(new)'
      BY <2>3 DEF AskInv
    <3> QED
      BY <2>2, <2>3, <3>1, RequestsStaySound
  <2>6. CopiesTyped' /\ CachedPinIsThere' /\ KeyIsBackedUp'
    BY <2>1, <2>2, <2>4 DEF KeyInv, CopiesTyped, KeysBelongTogether, KeyIsBackedUp,
                            CachedPinIsThere, HasPin
  <2>7. CachedKeyIsCurrent'
    <3>1. ASSUME NEW x \in Asks, Asking(x, "forget")
          PROVE  Asking(x, "forget")' /\ ask'[x].who = ask[x].who
      <4>1. x # r
        BY <2>1, <3>1 DEF Asking
      <4> QED
        BY <2>3, <3>1, <4>1 DEF Asking, KeyInv, GuessInv, KeysTyped
    <3>2. keyCache'[u] = c /\ \A v \in Users : v # u => keyCache'[v] = keyCache[v]
      BY <2>1, <2>2 DEF KeyInv, CopiesTyped
    <3> QED
      BY <2>2, <2>4, <3>1, <3>2 DEF KeyInv, KeysBelongTogether, CachedKeyIsCurrent
  <2> QED
    BY <1>0, <2>5, <2>6, <2>7 DEF KeyInv, KeysBelongTogether
<1> QED
  BY <1>1, <1>2, <1>3, <1>4, <1>5, <1>6, <1>7 DEF KeyRequests

LEMMA BackupRequestsKeepKeys ==
    ASSUME KeyInv, NEW r \in Asks, BackupRequests(r)
    PROVE  KeyInv'
<1>0. GuessInv'
  BY BackupRequestsKeepGuesses DEF KeyInv
<1>1. ASSUME NEW u \in Owners, NEW pin \in Pins, Unlock(r, u, pin) PROVE KeyInv'
  <2>1. u \in Users
    BY KeyBackupAssumption
  <2> DEFINE new == Asked("unlock", "done", u)
  <2>2. new \in Ask /\ AskInv(new)
    BY <2>1 DEF Asked, Ask, AskInv
  <2>3. /\ ask' = [ask EXCEPT ![r] = new] /\ Attempt(u, pin)
        /\ UNCHANGED <<publicKey, oldBackup, hidden, keyCache, pinCache, apart>>
        /\ ~Asking(r, "forget")
    BY <1>1 DEF Unlock, Asking
  <2> HIDE DEF new
  <2> QED
    BY <1>0, <2>2, <2>3, AttemptKeepsKey, OnlyAsked
<1>2. ASSUME NEW u \in Owners, NEW pin \in Pins, NEW k \in PublicKeys, NEW typed \in Pins \cup {None},
             NEW byPassword \in BOOLEAN, NEW op \in {"save", "reset"}, Save(r, op, u, k, pin, typed, byPassword)
      PROVE  KeyInv'
  <2> DEFINE step == IF byPassword THEN "save" ELSE "exists"
             new == [Asked(op, step, u) EXCEPT !.key = k, !.newPin = pin, !.pin = typed]
  <2>1. u \in Users
    BY KeyBackupAssumption
  <2>2. step \in {"save", "exists"}
    OBVIOUS
  <2>3. ask' = [ask EXCEPT ![r] = new]
        /\ UNCHANGED <<publicKey, backup, oldBackup, hidden, keyCache, pinCache, apart>>
        /\ ~Asking(r, "forget")
    BY <1>2 DEF Save, Asking
  <2> HIDE DEF step
  <2>4. new \in Ask /\ new.op = op /\ new.who = u /\ new.step = step
    BY <2>1, <2>2 DEF Asked, Ask
  <2> HIDE DEF new
  <2>5. AskInv(new)
    BY <2>2, <2>4 DEF AskInv
  <2> QED
    BY <1>0, <2>3, <2>4, <2>5, OnlyAsked
<1>3. CASE RequireCurrentPin(r)
  <2> DEFINE step == IF backup[ask[r].who] = None THEN "save"
                     ELSE IF ask[r].pin = None THEN "done" ELSE "attempt"
  <2>1. /\ ask[r] # None /\ ask[r].step = "exists" /\ Proceed(r, step)
        /\ UNCHANGED <<publicKey, backup, oldBackup, hidden, keyCache, pinCache, apart>>
    BY <1>3 DEF RequireCurrentPin, Asking
  <2>2. step \in {"save", "attempt", "done"}
    OBVIOUS
  <2> HIDE DEF step
  <2>3. PICK new \in Ask : /\ ask' = [ask EXCEPT ![r] = new]
                           /\ new.step = step /\ new.who = ask[r].who
                           /\ step # "done" => new.op = ask[r].op
    BY <2>1, <2>2, ProceedsTo
  <2>4. AskInv(new) /\ ~Asking(r, "forget")
    BY <2>1, <2>2, <2>3 DEF KeyInv, AskInv, Asking
  <2> QED
    BY <1>0, <2>1, <2>3, <2>4, OnlyAsked
<1>4. CASE TryCurrentPin(r)
  <2> DEFINE step == IF Opens(ask[r].who, ask[r].pin) THEN "save" ELSE "done"
  <2>1. /\ ask[r] # None /\ ask[r].step = "attempt" /\ Proceed(r, step)
        /\ Attempt(ask[r].who, ask[r].pin)
        /\ UNCHANGED <<publicKey, oldBackup, hidden, keyCache, pinCache, apart>>
    BY <1>4 DEF TryCurrentPin, Asking
  <2>2. step \in {"save", "attempt", "done"}
    OBVIOUS
  <2> HIDE DEF step
  <2>3. PICK new \in Ask : /\ ask' = [ask EXCEPT ![r] = new]
                           /\ new.step = step /\ new.who = ask[r].who
                           /\ step # "done" => new.op = ask[r].op
    BY <2>1, <2>2, ProceedsTo
  <2>4. AskInv(new) /\ ~Asking(r, "forget")
    BY <2>1, <2>2, <2>3 DEF KeyInv, AskInv, Asking
  <2> QED
    BY <1>0, <2>1, <2>3, <2>4, AttemptKeepsKey, OnlyAsked
<1>5. CASE StoreBackup(r)
  <2> DEFINE u == ask[r].who
             b == [pin |-> ask[r].newPin, protectedBy |-> "pin", key |-> ask[r].key,
                   fails |-> 0, locked |-> FALSE]
             step == AfterSave(ask[r].op)
  <2>1. /\ ask[r] # None /\ ask[r] \in Ask /\ ask[r].step = "save"
        /\ u \in Users /\ ask[r].key \in PublicKeys /\ ask[r].newPin \in Pins
        /\ ask[r].op \in {"save", "reset"}
    BY <1>5 DEF StoreBackup, Asking, KeyInv, GuessInv, KeysTyped, ReadyToStore, Ask, AskInv
  <2>2. /\ backup' = [backup EXCEPT ![u] = b]
        /\ oldBackup' = [oldBackup EXCEPT ![u] = FALSE]
        /\ publicKey' = NewKey(r)
        /\ apart' = [apart EXCEPT ![u] = IF ask[r].op = "reset" THEN FALSE ELSE publicKey[u] # ask[r].key]
        /\ Proceed(r, step)
        /\ UNCHANGED <<hidden, keyCache, pinCache>>
    BY <1>5 DEF StoreBackup
  <2>3. b \in Backup /\ b.key = ask[r].key /\ b.protectedBy = "pin" /\ b # None
    <3>1. b \in Backup
      BY <2>1 DEF Backup
    <3> QED
      BY <3>1, KeyBackupAssumption
  <2>4. step = IF ask[r].op = "reset" THEN "forget" ELSE "done"
    BY DEF AfterSave
  <2> HIDE DEF b, step
  <2>5. PICK new \in Ask : ask' = [ask EXCEPT ![r] = new] /\ new.step = step /\ new.who = u
    BY <2>1, <2>2, <2>4, ProceedsTo
  <2> HIDE DEF u
  <2>6. /\ publicKey'[u] = IF ask[r].op = "reset" THEN ask[r].key ELSE publicKey[u]
        /\ \A v \in Users : v # u => publicKey'[v] = publicKey[v]
    BY <2>1, <2>2 DEF NewKey, KeyInv, GuessInv, KeysTyped, u
  <2>7. /\ backup'[u] = b /\ oldBackup'[u] = FALSE
        /\ apart'[u] = IF ask[r].op = "reset" THEN FALSE ELSE publicKey[u] # ask[r].key
        /\ \A v \in Users : v # u => /\ backup'[v] = backup[v] /\ oldBackup'[v] = oldBackup[v]
                                     /\ apart'[v] = apart[v]
    BY <2>1, <2>2 DEF KeyInv, CopiesTyped, GuessInv, KeysTyped
  <2>8. \A x \in Asks : AskInv(ask[x])'
    <3>1. AskInv(new)'
      BY <2>4, <2>5 DEF AskInv
    <3> QED
      BY <2>5, <3>1, RequestsStaySound
  <2>9. CopiesTyped'
    BY <2>1, <2>2 DEF KeyInv, CopiesTyped
  <2>10. KeyIsBackedUp'
    BY <2>1, <2>3, <2>6, <2>7 DEF KeyInv, KeysBelongTogether, KeyIsBackedUp
  <2>11. CachedPinIsThere'
    BY <2>2, <2>3, <2>7 DEF KeyInv, KeysBelongTogether, CachedPinIsThere, HasPin
  <2>12. CachedKeyIsCurrent'
    <3>1. ASSUME NEW x \in Asks, Asking(x, "forget")
          PROVE  Asking(x, "forget")' /\ ask'[x].who = ask[x].who
      <4>1. x # r
        BY <2>1, <3>1 DEF Asking
      <4> QED
        BY <2>5, <3>1, <4>1 DEF Asking, KeyInv, GuessInv, KeysTyped
    <3>2. ask[r].op = "reset" => Asking(r, "forget")' /\ ask'[r].who = u
      BY <2>4, <2>5, KeyBackupAssumption DEF Asking, KeyInv, GuessInv, KeysTyped
    <3> QED
      BY <2>2, <2>6, <3>1, <3>2 DEF KeyInv, KeysBelongTogether, CachedKeyIsCurrent
  <2> QED
    BY <1>0, <2>8, <2>9, <2>10, <2>11, <2>12 DEF KeyInv, KeysBelongTogether
<1> QED
  BY <1>1, <1>2, <1>3, <1>4, <1>5 DEF BackupRequests

LEMMA TimersKeepKeys ==
    ASSUME KeyInv, NEW u \in Owners, ExpireKey(u) \/ LockEnds(u)
    PROVE  KeyInv'
<1>0. u \in Users
  BY KeyBackupAssumption
<1>1. CASE ExpireKey(u)
  <2>1. /\ keyCache' = [keyCache EXCEPT ![u] = None]
        /\ UNCHANGED <<publicKey, backup, oldBackup, hidden, pinCache, ask, tries, apart>>
    BY <1>1 DEF ExpireKey
  <2>2. GuessInv' /\ CopiesTyped'
    BY <1>0, <2>1 DEF KeyInv, GuessInv, KeysTyped, ReadyToStore, RoundOf, CopiesTyped
  <2>3. KeyIsBackedUp' /\ CachedPinIsThere' /\ \A r \in Asks : AskInv(ask[r])'
    BY <2>1 DEF KeyInv, KeysBelongTogether, KeyIsBackedUp, CachedPinIsThere, HasPin, AskInv
  <2>4. CachedKeyIsCurrent'
    BY <1>0, <2>1 DEF KeyInv, CopiesTyped, KeysBelongTogether, CachedKeyIsCurrent, Asking
  <2> QED
    BY <2>2, <2>3, <2>4 DEF KeyInv, KeysBelongTogether
<1>2. CASE LockEnds(u)
  <2> DEFINE new == [backup[u] EXCEPT !.locked = FALSE]
  <2>1. GuessInv'
    BY <1>2, LockEndsKeepsGuesses DEF KeyInv
  <2>2. backup[u] \in Backup /\ backup[u] # None
    BY <1>0, <1>2 DEF LockEnds, KeyInv, GuessInv, KeysTyped
  <2>3. new \in Backup /\ new.key = backup[u].key /\ new.protectedBy = backup[u].protectedBy /\ new # None
    <3>1. new \in Backup /\ new.key = backup[u].key /\ new.protectedBy = backup[u].protectedBy
      BY <2>2 DEF Backup
    <3> QED
      BY <3>1, KeyBackupAssumption
  <2>4. /\ backup' = [backup EXCEPT ![u] = new]
        /\ UNCHANGED <<publicKey, oldBackup, hidden, keyCache, pinCache, ask, apart>>
    BY <1>0, <1>2 DEF LockEnds, KeyInv, GuessInv, KeysTyped
  <2> HIDE DEF new
  <2>5. backup'[u] = new /\ \A v \in Users : v # u => backup'[v] = backup[v]
    BY <1>0, <2>4 DEF KeyInv, GuessInv, KeysTyped
  <2>6. CopiesTyped' /\ CachedKeyIsCurrent' /\ \A r \in Asks : AskInv(ask[r])'
    BY <2>4 DEF KeyInv, CopiesTyped, KeysBelongTogether, CachedKeyIsCurrent, Asking, AskInv
  <2>7. KeyIsBackedUp' /\ CachedPinIsThere'
    BY <2>2, <2>3, <2>4, <2>5 DEF KeyInv, KeysBelongTogether, KeyIsBackedUp, CachedPinIsThere,
                                  HasPin
  <2> QED
    BY <2>1, <2>6, <2>7 DEF KeyInv, KeysBelongTogether
<1> QED
  BY <1>1, <1>2

(* Requests about messages only learn that there is a PIN.                 *)
LEMMA MessagesOnlyAskForPins ==
    ASSUME MessagesNext
    PROVE  UNCHANGED pinCache \/ \E u : RequireChatPin(u)
<1>1. ASSUME NEW r \in Requests, Sending(r) PROVE UNCHANGED pinCache \/ \E u : RequireChatPin(u)
  BY <1>1 DEF Sending, Send, Check, CreateMessage, FindMessage, AnnounceMessage
<1>2. ASSUME NEW r \in Requests, MessageActions(r) PROVE UNCHANGED pinCache
  BY <1>2 DEF MessageActions, Edit, DeleteMessage, UpdateText, RereadMessage, NotifyMessageEdited, Hide,
              RemoveMessage, RemoveFile, NotifyMessageDeleted
<1>3. ASSUME NEW r \in Requests, Conversations(r) PROVE UNCHANGED pinCache
  BY <1>3 DEF Conversations, ChangeConversation, WriteState, DeleteConversation, RemoveFolder,
              NotifyConversationChanged
<1> QED
  BY <1>1, <1>2, <1>3 DEF MessagesNext, MarkAsRead, CreateUpload, EraseFiles, BlockOrUnblock, ForgetBlocks, HourPasses,
                          Tick

LEMMA NextKeepsKeys ==
    ASSUME KeyInv, [Next]_vars
    PROVE  KeyInv'
<1>1. CASE UNCHANGED backupVars
  BY <1>1 DEF backupVars, KeyInv, GuessInv, KeysTyped, ReadyToStore, RoundOf, CopiesTyped, AskInv,
              KeysBelongTogether, KeyIsBackedUp, CachedKeyIsCurrent, CachedPinIsThere, HasPin, Asking
<1>2. CASE BackupNext
  BY <1>2, KeyRequestsKeepKeys, BackupRequestsKeepKeys, TimersKeepKeys DEF BackupNext
<1>3. CASE MessagesNext /\ UNCHANGED <<publicKey, backup, oldBackup, hidden, keyCache, ask, tries, apart>>
  <2>1. CASE UNCHANGED pinCache
    BY <1>1, <1>3, <2>1 DEF backupVars
  <2>2. ASSUME NEW u, RequireChatPin(u) PROVE KeyInv'
    <3>1. (pinCache[u] \/ HasPin(u)) /\ pinCache' = [pinCache EXCEPT ![u] = TRUE]
      BY <2>2 DEF RequireChatPin
    <3>2. CachedPinIsThere' /\ CopiesTyped'
      BY <1>3, <3>1 DEF KeyInv, CopiesTyped, KeysBelongTogether, CachedPinIsThere, HasPin
    <3>3. GuessInv' /\ \A r \in Asks : AskInv(ask[r])'
      BY <1>3 DEF KeyInv, GuessInv, KeysTyped, ReadyToStore, RoundOf, AskInv
    <3>4. KeyIsBackedUp' /\ CachedKeyIsCurrent'
      BY <1>3 DEF KeyInv, KeysBelongTogether, KeyIsBackedUp, CachedKeyIsCurrent, Asking
    <3> QED
      BY <3>2, <3>3, <3>4 DEF KeyInv, KeysBelongTogether
  <2> QED
    BY <1>3, <2>1, <2>2, MessagesOnlyAskForPins
<1> QED
  BY <1>1, <1>2, <1>3 DEF Next, vars

(* The published key, the backup of the private one and what Redis keeps   *)
(* of both belong together, for any number of devices that publish, save,  *)
(* reset, read and hide at once (chat-backup.service.ts).                  *)
THEOREM KeysStayTogether == Spec => []KeysBelongTogether
<1>1. Init => KeyInv
  BY InitKeys DEF Init
<1>2. KeyInv /\ [Next]_vars => KeyInv'
  BY NextKeepsKeys
<1>3. KeyInv => KeysBelongTogether
  BY DEF KeyInv
<1> QED
  BY <1>1, <1>2, <1>3, PTL DEF Spec

-----------------------------------------------------------------------------
(* Who is online.  As long as the handlers follow each other one at most   *)
(* is at work, and it has still to tell what its own socket changed.       *)

(* A session that was signed out before its socket passed the check got    *)
(* through because Redis missed it; one after the check has slipped.       *)
PassedInv ==
    \A s \in Sockets : socket[s] = "passed" /\ s \in revoked => s \in missed \cup slipped

AnyoneOnline == IF Open = {} THEN "offline" ELSE "online"

OneAtATime ==
    /\ \A s, t \in Sockets : opening[s] # "idle" /\ opening[t] # "idle" => s = t
    /\ \A s, t \in Sockets : closing[s] # "idle" /\ closing[t] # "idle" => s = t
    /\ \A v, w \in Watchers : watching[v] # "idle" /\ watching[w] # "idle" => v = w
    /\ \A s, t \in Sockets : opening[s] = "idle" \/ closing[t] = "idle"
    /\ \A s \in Sockets, w \in Watchers :
         watching[w] = "idle" \/ (opening[s] = "idle" /\ closing[s] = "idle")

(* What the watchers were told last, by what the handler has yet to do.    *)
OpeningInv ==
    \A s \in Sockets :
        /\ opening[s] # "idle" => socket[s] = "open"
        /\ opening[s] = "count" =>
             \A w \in room : told[w] = IF Open \ {s} = {} THEN "offline" ELSE "online"

ClosingInv ==
    \A s \in Sockets :
        /\ closing[s] = "count" => \A w \in room : told[w] = "online"
        /\ closing[s] \in {"mark", "tell"} => Open = {}

WatchingInv ==
    \A v \in Watchers :
        /\ watching[v] # "idle" => \A w \in room \ {v} : told[w] = AnyoneOnline
        /\ watching[v] = "online" => Open # {}
        /\ watching[v] = "offline" => Open = {}

RestInv == AtRest => \A w \in room : told[w] = AnyoneOnline

InOrder == OneAtATime /\ OpeningInv /\ ClosingInv /\ WatchingInv /\ RestInv

ConnectionInv ==
    /\ PresenceTypeOK
    /\ PassedInv
    /\ CutOff
    /\ ~crossed => InOrder

LEMMA CountIsZero ==
    ASSUME PresenceTypeOK
    PROVE  /\ IsFiniteSet(Open)
           /\ Cardinality(Open) \in Nat
           /\ (Cardinality(Open) = 0) = (Open = {})
  BY PresenceAssumption, FS_Subset, FS_CardinalityType, FS_EmptySet DEF Open

LEMMA CountIsOne ==
    ASSUME PresenceTypeOK, NEW s \in Open
    PROVE  Cardinality(Open) <= 1 <=> Open \ {s} = {}
<1>1. IsFiniteSet(Open) /\ Cardinality(Open) \in Nat
  BY CountIsZero
<1>2. /\ IsFiniteSet(Open \ {s})
      /\ Cardinality(Open \ {s}) = Cardinality(Open) - 1
  BY <1>1, FS_RemoveElement
<1>3. Cardinality(Open \ {s}) \in Nat /\ (Cardinality(Open \ {s}) = 0) = (Open \ {s} = {})
  BY <1>2, FS_CardinalityType, FS_EmptySet
<1> QED
  BY <1>1, <1>2, <1>3

LEMMA InitConnections == ASSUME PresenceInit PROVE ConnectionInv
<1>1. PresenceTypeOK /\ PassedInv /\ CutOff
  BY DEF PresenceInit, PresenceTypeOK, PassedInv, CutOff
<1>2. InOrder
  BY DEF PresenceInit, InOrder, OneAtATime, OpeningInv, ClosingInv, WatchingInv, RestInv
<1> QED
  BY <1>1, <1>2 DEF ConnectionInv

-----------------------------------------------------------------------------
(* Types, and who is cut off.                                              *)
LEMMA SocketStepsKeepTypes ==
    ASSUME PresenceTypeOK, NEW s \in Sockets,
           \/ Authenticate(s) \/ Connect(s) \/ CountOpen(s) \/ TellOnline(s)
           \/ Disconnect(s) \/ CountClosed(s) \/ MarkLastSeen(s) \/ TellOffline(s)
           \/ (s \in Dismissed /\ (SignOut(s) \/ HearSignOut(s)))
    PROVE  PresenceTypeOK'
<1>1. CASE Authenticate(s)
  <2>1. s \in revoked => s \in Dismissed
    BY DEF PresenceTypeOK
  <2> QED
    BY <1>1, <2>1 DEF Authenticate, PresenceTypeOK
<1>2. CASE Connect(s)
  BY <1>2 DEF Connect, PresenceTypeOK, signOutVars
<1>3. CASE CountOpen(s)
  BY <1>3 DEF CountOpen, PresenceTypeOK, signOutVars, Miscounted
<1>4. CASE TellOnline(s) \/ TellOffline(s)
  BY <1>4 DEF TellOnline, TellOffline, Emit, PresenceTypeOK, signOutVars
<1>5. CASE Disconnect(s)
  BY <1>5 DEF Disconnect, Close, PresenceTypeOK, signOutVars
<1>6. CASE CountClosed(s)
  BY <1>6 DEF CountClosed, PresenceTypeOK, signOutVars, Miscounted
<1>7. CASE MarkLastSeen(s)
  BY <1>7 DEF MarkLastSeen, PresenceTypeOK, signOutVars
<1>8. CASE s \in Dismissed /\ SignOut(s)
  BY <1>8 DEF SignOut, PresenceTypeOK
<1>9. CASE s \in Dismissed /\ HearSignOut(s)
  BY <1>9 DEF HearSignOut, Close, PresenceTypeOK
<1> QED
  BY <1>1, <1>2, <1>3, <1>4, <1>5, <1>6, <1>7, <1>8, <1>9

LEMMA WatcherStepsKeepTypes ==
    ASSUME PresenceTypeOK, NEW w \in Watchers,
           WatchPresence(w) \/ CountForWatcher(w) \/ AnswerWatcher(w) \/ UnwatchPresence(w)
    PROVE  PresenceTypeOK'
<1>1. CASE WatchPresence(w)
  BY <1>1 DEF WatchPresence, PresenceTypeOK, signOutVars
<1>2. CASE CountForWatcher(w)
  BY <1>2 DEF CountForWatcher, PresenceTypeOK, signOutVars, Miscounted
<1>3. CASE AnswerWatcher(w)
  BY <1>3 DEF AnswerWatcher, PresenceTypeOK, signOutVars
<1>4. CASE UnwatchPresence(w)
  BY <1>4 DEF UnwatchPresence, PresenceTypeOK, signOutVars
<1> QED
  BY <1>1, <1>2, <1>3, <1>4

LEMMA SocketStepsCutOff ==
    ASSUME PresenceTypeOK, PassedInv, CutOff, NEW s \in Sockets,
           \/ Authenticate(s) \/ Connect(s) \/ CountOpen(s) \/ TellOnline(s)
           \/ Disconnect(s) \/ CountClosed(s) \/ MarkLastSeen(s) \/ TellOffline(s)
           \/ (s \in Dismissed /\ (SignOut(s) \/ HearSignOut(s)))
    PROVE  PassedInv' /\ CutOff'
<1> USE PresenceAssumption DEF PassedInv, CutOff, PresenceTypeOK
<1>1. CASE Authenticate(s)
  BY <1>1 DEF Authenticate, Authentic
<1>2. CASE Connect(s) \/ Disconnect(s)
  BY <1>2 DEF Connect, Disconnect, Close, signOutVars
<1>3. CASE CountOpen(s) \/ TellOnline(s) \/ TellOffline(s) \/ CountClosed(s) \/ MarkLastSeen(s)
  BY <1>3 DEF CountOpen, TellOnline, TellOffline, CountClosed, MarkLastSeen, signOutVars
<1>4. CASE s \in Dismissed /\ SignOut(s)
  BY <1>4 DEF SignOut
<1>5. CASE s \in Dismissed /\ HearSignOut(s)
  BY <1>5 DEF HearSignOut, Close
<1> QED
  BY <1>1, <1>2, <1>3, <1>4, <1>5

-----------------------------------------------------------------------------
(* What the watchers are told.                                             *)
LEMMA SocketStepsTellRight ==
    ASSUME PresenceTypeOK, InOrder, ~crossed', NEW s \in Sockets,
           \/ Authenticate(s) \/ Connect(s) \/ CountOpen(s) \/ TellOnline(s)
           \/ Disconnect(s) \/ CountClosed(s) \/ MarkLastSeen(s) \/ TellOffline(s)
           \/ (s \in Dismissed /\ (SignOut(s) \/ HearSignOut(s)))
    PROVE  InOrder'
<1> USE DEF InOrder
<1>a. CASE Authenticate(s) \/ (s \in Dismissed /\ SignOut(s))
  <2>1. UNCHANGED <<opening, closing, watching, room, told>>
    BY <1>a DEF Authenticate, SignOut
  <2>2. Open' = Open /\ \A t \in Sockets : socket[t] = "open" => socket'[t] = "open"
    BY <1>a DEF Authenticate, SignOut, Open, PresenceTypeOK
  <2> QED
    BY <2>1, <2>2 DEF OneAtATime, OpeningInv, ClosingInv, WatchingInv, RestInv, AtRest, AnyoneOnline
<1>b. CASE Connect(s)
  <2>1. AtRest /\ socket[s] = "passed"
    BY <1>b DEF Connect
  <2>2. /\ opening' = [opening EXCEPT ![s] = "count"]
        /\ socket' = [socket EXCEPT ![s] = "open"]
        /\ UNCHANGED <<closing, watching, room, told>>
    BY <1>b DEF Connect
  <2>3. Open' \ {s} = Open /\ socket'[s] = "open"
    BY <2>1, <2>2 DEF Open, PresenceTypeOK
  <2>4. /\ opening'[s] = "count" /\ \A t \in Sockets \ {s} : opening'[t] = "idle"
        /\ \A t \in Sockets : closing'[t] = "idle"
        /\ \A w \in Watchers : watching'[w] = "idle"
        /\ \A w \in room' : told'[w] = AnyoneOnline
    BY <2>1, <2>2 DEF AtRest, RestInv, PresenceTypeOK
  <2> QED
    BY <2>3, <2>4 DEF OneAtATime, OpeningInv, ClosingInv, WatchingInv, RestInv, AtRest, AnyoneOnline
<1>c. CASE CountOpen(s)
  <2>1. opening[s] = "count" /\ socket[s] = "open" /\ s \in Open
    BY <1>c DEF CountOpen, OpeningInv, Open
  <2>2. /\ opening' = [opening EXCEPT ![s] = IF CameOnline(Cardinality(Open)) THEN "tell" ELSE "idle"]
        /\ UNCHANGED <<socket, closing, watching, room, told>>
    BY <1>c DEF CountOpen, Miscounted
  <2>3. CameOnline(Cardinality(Open)) = (Open \ {s} = {})
    BY <2>1, CountIsOne DEF CameOnline
  <2>4. /\ \A t \in Sockets \ {s} : opening'[t] = "idle"
        /\ opening'[s] = IF Open \ {s} = {} THEN "tell" ELSE "idle"
        /\ \A t \in Sockets : closing'[t] = "idle"
        /\ \A w \in Watchers : watching'[w] = "idle"
    BY <2>1, <2>2, <2>3 DEF OneAtATime, PresenceTypeOK
  <2>5. Open' = Open
    BY <2>2 DEF Open
  <2>6. \A w \in room' : told'[w] = IF Open \ {s} = {} THEN "offline" ELSE "online"
    BY <2>1, <2>2 DEF OpeningInv
  <2> QED
    BY <2>1, <2>2, <2>4, <2>5, <2>6 DEF OneAtATime, OpeningInv, ClosingInv, WatchingInv, RestInv, AtRest, AnyoneOnline
<1>d. CASE TellOnline(s)
  <2>1. opening[s] = "tell" /\ socket[s] = "open" /\ Open # {}
    BY <1>d DEF TellOnline, OpeningInv, Open
  <2>2. /\ opening' = [opening EXCEPT ![s] = "idle"]
        /\ UNCHANGED <<socket, closing, watching, room>>
        /\ \A w \in room' : told'[w] = "online"
    BY <1>d DEF TellOnline, Emit, PresenceTypeOK
  <2>3. /\ \A t \in Sockets : opening'[t] = "idle" /\ closing'[t] = "idle"
        /\ \A w \in Watchers : watching'[w] = "idle"
    BY <2>1, <2>2 DEF OneAtATime, PresenceTypeOK
  <2>4. Open' = Open
    BY <2>2 DEF Open
  <2> QED
    BY <2>1, <2>2, <2>3, <2>4 DEF OneAtATime, OpeningInv, ClosingInv, WatchingInv, RestInv, AtRest, AnyoneOnline
<1>e. CASE socket[s] = "open" /\ Close(s) /\ UNCHANGED <<opening, watching, room, told>>
  <2>1. AtRest /\ Open # {}
    BY <1>e DEF Close, Open
  <2>2. closing' = [closing EXCEPT ![s] = "count"]
    BY <1>e DEF Close
  <2>3. /\ \A t \in Sockets : opening'[t] = "idle"
        /\ closing'[s] = "count" /\ \A t \in Sockets \ {s} : closing'[t] = "idle"
        /\ \A w \in Watchers : watching'[w] = "idle"
        /\ \A w \in room' : told'[w] = "online"
    BY <1>e, <2>1, <2>2 DEF AtRest, RestInv, AnyoneOnline, PresenceTypeOK
  <2> QED
    BY <2>3 DEF OneAtATime, OpeningInv, ClosingInv, WatchingInv, RestInv, AtRest
<1>f. CASE CountClosed(s)
  <2>1. closing[s] = "count"
    BY <1>f DEF CountClosed
  <2>2. /\ closing' = [closing EXCEPT ![s] = IF Cardinality(Open) > 0 THEN "idle" ELSE "mark"]
        /\ UNCHANGED <<socket, opening, watching, room, told>>
    BY <1>f DEF CountClosed, Miscounted
  <2>3. Cardinality(Open) > 0 <=> Open # {}
    BY CountIsZero
  <2>4. /\ \A t \in Sockets : opening'[t] = "idle"
        /\ \A t \in Sockets \ {s} : closing'[t] = "idle"
        /\ closing'[s] = IF Open = {} THEN "mark" ELSE "idle"
        /\ \A w \in Watchers : watching'[w] = "idle"
    BY <2>1, <2>2, <2>3 DEF OneAtATime, PresenceTypeOK
  <2>5. Open' = Open /\ \A w \in room' : told'[w] = "online"
    BY <2>1, <2>2 DEF Open, ClosingInv
  <2> QED
    BY <2>4, <2>5 DEF OneAtATime, OpeningInv, ClosingInv, WatchingInv, RestInv, AtRest, AnyoneOnline
<1>g. CASE MarkLastSeen(s)
  <2>1. /\ closing[s] = "mark" /\ closing' = [closing EXCEPT ![s] = "tell"]
        /\ UNCHANGED <<socket, opening, watching, room, told>>
    BY <1>g DEF MarkLastSeen
  <2>2. Open' = {}
    BY <2>1 DEF Open, ClosingInv
  <2>3. /\ \A t \in Sockets : opening'[t] = "idle"
        /\ \A t \in Sockets \ {s} : closing'[t] = "idle"
        /\ closing'[s] = "tell"
        /\ \A w \in Watchers : watching'[w] = "idle"
    BY <2>1 DEF OneAtATime, PresenceTypeOK
  <2> QED
    BY <2>2, <2>3 DEF OneAtATime, OpeningInv, ClosingInv, WatchingInv, RestInv, AtRest
<1>h. CASE TellOffline(s)
  <2>1. /\ closing[s] = "tell" /\ closing' = [closing EXCEPT ![s] = "idle"]
        /\ UNCHANGED <<socket, opening, watching, room>>
        /\ \A w \in room' : told'[w] = "offline"
    BY <1>h DEF TellOffline, Emit, PresenceTypeOK
  <2>2. Open' = {}
    BY <2>1 DEF Open, ClosingInv
  <2>3. /\ \A t \in Sockets : opening'[t] = "idle" /\ closing'[t] = "idle"
        /\ \A w \in Watchers : watching'[w] = "idle"
    BY <2>1 DEF OneAtATime, PresenceTypeOK
  <2> QED
    BY <2>1, <2>2, <2>3 DEF OneAtATime, OpeningInv, ClosingInv, WatchingInv, RestInv, AtRest, AnyoneOnline
<1>i. CASE s \in Dismissed /\ HearSignOut(s)
  <2>1. CASE socket[s] = "open" /\ Close(s)
    BY <1>e, <1>i, <2>1 DEF HearSignOut
  <2>2. CASE UNCHANGED <<socket, closing, crossed>>
    <3>1. UNCHANGED <<socket, opening, closing, watching, room, told>>
      BY <1>i, <2>2 DEF HearSignOut
    <3> QED
      BY <3>1 DEF OneAtATime, OpeningInv, ClosingInv, WatchingInv, RestInv, AtRest, AnyoneOnline, Open
  <2> QED
    BY <1>i, <2>1, <2>2 DEF HearSignOut
<1>j. CASE Disconnect(s)
  BY <1>e, <1>j DEF Disconnect
<1> QED
  BY <1>a, <1>b, <1>c, <1>d, <1>f, <1>g, <1>h, <1>i, <1>j

LEMMA WatcherStepsTellRight ==
    ASSUME PresenceTypeOK, InOrder, ~crossed', NEW w \in Watchers,
           WatchPresence(w) \/ CountForWatcher(w) \/ AnswerWatcher(w) \/ UnwatchPresence(w)
    PROVE  InOrder'
<1> USE DEF InOrder
<1>0. UNCHANGED <<socket, opening, closing>> /\ Open' = Open
  BY DEF WatchPresence, CountForWatcher, AnswerWatcher, UnwatchPresence, Open
<1>1. CASE WatchPresence(w)
  <2>1. AtRest /\ room' = room \cup {w} /\ watching' = [watching EXCEPT ![w] = "count"] /\ told' = told
    BY <1>1 DEF WatchPresence
  <2>2. /\ \A s \in Sockets : opening'[s] = "idle" /\ closing'[s] = "idle"
        /\ watching'[w] = "count" /\ \A v \in Watchers \ {w} : watching'[v] = "idle"
        /\ \A v \in room' \ {w} : told'[v] = AnyoneOnline
    BY <1>0, <2>1 DEF AtRest, RestInv, PresenceTypeOK
  <2> QED
    BY <1>0, <2>2 DEF OneAtATime, OpeningInv, ClosingInv, WatchingInv, RestInv, AtRest, AnyoneOnline
<1>2. CASE CountForWatcher(w)
  <2>1. /\ watching[w] = "count"
        /\ watching' = [watching EXCEPT ![w] = IF Cardinality(Open) > 0 THEN "online" ELSE "offline"]
        /\ UNCHANGED <<room, told>>
    BY <1>2 DEF CountForWatcher, Miscounted
  <2>2. Cardinality(Open) > 0 <=> Open # {}
    BY CountIsZero
  <2>3. /\ \A s \in Sockets : opening'[s] = "idle" /\ closing'[s] = "idle"
        /\ watching'[w] = AnyoneOnline /\ \A v \in Watchers \ {w} : watching'[v] = "idle"
        /\ \A v \in room' \ {w} : told'[v] = AnyoneOnline
    BY <1>0, <2>1, <2>2 DEF OneAtATime, WatchingInv, PresenceTypeOK, AnyoneOnline
  <2> QED
    BY <1>0, <2>3 DEF OneAtATime, OpeningInv, ClosingInv, WatchingInv, RestInv, AtRest, AnyoneOnline
<1>3. CASE AnswerWatcher(w)
  <2>1. /\ watching[w] \in {"online", "offline"}
        /\ watching' = [watching EXCEPT ![w] = "idle"]
        /\ told' = [told EXCEPT ![w] = watching[w]] /\ room' = room
    BY <1>3 DEF AnswerWatcher
  <2>2. watching[w] = AnyoneOnline
    BY <2>1 DEF WatchingInv, AnyoneOnline
  <2>3. /\ \A s \in Sockets : opening'[s] = "idle" /\ closing'[s] = "idle"
        /\ \A v \in Watchers : watching'[v] = "idle"
        /\ \A v \in room' : told'[v] = AnyoneOnline
    BY <1>0, <2>1, <2>2 DEF OneAtATime, WatchingInv, PresenceTypeOK
  <2> QED
    BY <1>0, <2>3 DEF OneAtATime, OpeningInv, ClosingInv, WatchingInv, RestInv, AtRest, AnyoneOnline
<1>4. CASE UnwatchPresence(w)
  <2>1. room' = room \ {w} /\ UNCHANGED <<watching, told>>
    BY <1>4 DEF UnwatchPresence
  <2> QED
    BY <1>0, <2>1 DEF OneAtATime, OpeningInv, ClosingInv, WatchingInv, RestInv, AtRest, AnyoneOnline
<1> QED
  BY <1>1, <1>2, <1>3, <1>4

(* No step puts the handlers in order again.                               *)
LEMMA CrossedStays ==
    ASSUME PresenceTypeOK, PresenceNext, crossed
    PROVE  crossed'
  BY DEF PresenceTypeOK, PresenceNext, Authenticate, Connect, CountOpen, TellOnline, Disconnect, Close, CountClosed,
         MarkLastSeen, TellOffline, SignOut, HearSignOut, WatchPresence, CountForWatcher, AnswerWatcher,
         UnwatchPresence

LEMMA NextKeepsConnections ==
    ASSUME ConnectionInv, [Next]_vars
    PROVE  ConnectionInv'
<1>1. CASE UNCHANGED presenceVars
  BY <1>1 DEF presenceVars, signOutVars, ConnectionInv, PresenceTypeOK, PassedInv, CutOff, InOrder, OneAtATime,
              OpeningInv, ClosingInv, WatchingInv, RestInv, AtRest, AnyoneOnline, Open
<1>2. CASE PresenceNext
  <2>1. CASE \E s \in Sockets :
                \/ Authenticate(s) \/ Connect(s) \/ CountOpen(s) \/ TellOnline(s)
                \/ Disconnect(s) \/ CountClosed(s) \/ MarkLastSeen(s) \/ TellOffline(s)
                \/ (s \in Dismissed /\ (SignOut(s) \/ HearSignOut(s)))
    <3>1. PresenceTypeOK' /\ PassedInv' /\ CutOff'
      BY <2>1, SocketStepsKeepTypes, SocketStepsCutOff DEF ConnectionInv
    <3>2. ~crossed' => InOrder'
      BY <1>2, <2>1, CrossedStays, SocketStepsTellRight DEF ConnectionInv
    <3> QED
      BY <3>1, <3>2 DEF ConnectionInv
  <2>2. CASE \E w \in Watchers :
                WatchPresence(w) \/ CountForWatcher(w) \/ AnswerWatcher(w) \/ UnwatchPresence(w)
    <3>1. PresenceTypeOK'
      BY <2>2, WatcherStepsKeepTypes DEF ConnectionInv
    <3>2. UNCHANGED <<socket, signOutVars>>
      BY <2>2 DEF WatchPresence, CountForWatcher, AnswerWatcher, UnwatchPresence
    <3>3. PassedInv' /\ CutOff'
      BY <3>2 DEF ConnectionInv, PassedInv, CutOff, signOutVars
    <3>4. ~crossed' => InOrder'
      BY <1>2, <2>2, CrossedStays, WatcherStepsTellRight DEF ConnectionInv
    <3> QED
      BY <3>1, <3>3, <3>4 DEF ConnectionInv
  <2> QED
    BY <1>2, <2>1, <2>2, PresenceAssumption DEF PresenceNext
<1> QED
  BY <1>1, <1>2 DEF Next, vars

(* A session that is signed out loses its connection, and when the         *)
(* handlers of connections and watchers follow each other whoever watches  *)
(* was told last what is the case (chat.gateway.ts).                       *)
THEOREM ConnectionsStayKnown == Spec => []ConnectionsAreKnown
<1>1. Init => ConnectionInv
  BY InitConnections DEF Init
<1>2. ConnectionInv /\ [Next]_vars => ConnectionInv'
  BY NextKeepsConnections
<1>3. ConnectionInv => ConnectionsAreKnown
  BY DEF ConnectionInv, ConnectionsAreKnown, PresenceIsRight, OfflineOnceLastHasGone, InOrder, RestInv, AnyoneOnline
<1> QED
  BY <1>1, <1>2, <1>3, PTL DEF Spec

-----------------------------------------------------------------------------
(* Messages: types, and what a request knows at each of its steps.         *)

TablesTyped ==
    /\ messages \in [Messages -> Message \cup {None}]
    /\ hiddenFrom \subseteq Users \X Messages
    /\ archived \in [Pairs -> -1..MaxTime] /\ cleared \in [Pairs -> -1..MaxTime]

AroundTyped ==
    /\ fileOf \in [Messages -> Pairs \cup {None}] /\ files \subseteq Messages
    /\ blocked \subseteq Pairs /\ outOfDate \subseteq Users /\ aged \subseteq Messages /\ clock \in 0..MaxTime

ScreensTyped ==
    /\ shown \in [Users -> [Messages -> 0..MaxText \cup {None}]]
    /\ behind \subseteq Messages /\ returned \subseteq Users \X Messages

CountsTyped ==
    /\ stored \in [Messages -> Nat] /\ pushed \in [Messages -> Nat]
    /\ lost \subseteq Messages /\ unaware \subseteq Messages

RequestsTyped == req \in [Requests -> Request \cup {None}]

(* A message is between the two its id is used for, and so is what it      *)
(* quotes; it carries the file that was uploaded from its sender.          *)
MessageInv ==
    \A m \in Messages :
        Exists(m) =>
            /\ {messages[m].from, messages[m].to} = PairOf[m]
            /\ messages[m].file = (fileOf[m] = <<messages[m].from, messages[m].to>>)
            /\ messages[m].reply # None =>
                 Exists(messages[m].reply) /\ PairOf[messages[m].reply] = PairOf[m]
            /\ stored[m] >= 1

AboutMessage == {"check", "create", "find", "announce", "update", "reread", "announceEdit", "hide",
                 "remove", "removeFile", "announceDelete"}

RequestInv(q) ==
    q # None =>
        /\ q.step \in AboutMessage => q.msg \in Messages /\ PairOf[q.msg] = {q.who, q.other}
        /\ q.step = "create" => q.clear
        /\ q.step = "create" /\ q.reply # None => PairOf[q.reply] = PairOf[q.msg]
        /\ q.step \in {"check", "create", "find", "hide"} => ~q.flag
        /\ q.step \in {"remove", "removeFile"} => q.flag
        /\ q.step = "removeFile" => q.file # None
        /\ q.step \in {"sentFolder", "receivedFolder"} => q.op = "deleteAll"

ChatInv ==
    /\ TablesTyped /\ AroundTyped /\ ScreensTyped /\ CountsTyped /\ RequestsTyped
    /\ MessageInv
    /\ \A r \in Requests : RequestInv(req[r])

LEMMA InitChat == ASSUME Init PROVE ChatInv
<1>1. TablesTyped
  BY ChatAssumption DEF Init, TablesTyped, Never
<1>2. AroundTyped
  BY ChatAssumption DEF Init, AroundTyped
<1>3. ScreensTyped /\ CountsTyped /\ RequestsTyped
  BY DEF Init, ScreensTyped, CountsTyped, RequestsTyped
<1>4. MessageInv /\ \A r \in Requests : RequestInv(req[r])
  BY DEF Init, MessageInv, RequestInv, Exists
<1> QED
  BY <1>1, <1>2, <1>3, <1>4 DEF ChatInv

-----------------------------------------------------------------------------
(* Requests.                                                               *)

LEMMA SentTyped ==
    ASSUME NEW op \in Operations, NEW step \in Steps, NEW u \in Users, NEW v \in Users,
           NEW m \in Messages \cup {None}
    PROVE  Sent(op, step, u, v, m) \in Request
<1>1. 0 \in 0..MaxText /\ 0 \in 0..MaxTime
  BY ChatAssumption
<1> QED
  BY <1>1 DEF Sent, Request

(* r becomes q, and the other requests stay as they are.                   *)
Becomes(r, q) == req' = [req EXCEPT ![r] = q]

(* r goes on to step with what it knew.                                    *)
Continues(r, q, step) ==
    /\ q \in Request
    /\ q.step = step
    /\ step # "done" =>
         /\ q.op = req[r].op /\ q.who = req[r].who /\ q.other = req[r].other /\ q.msg = req[r].msg
         /\ q.text = req[r].text /\ q.reply = req[r].reply /\ q.file = req[r].file
         /\ q.flag = req[r].flag /\ q.clear = req[r].clear

LEMMA GotoContinues ==
    ASSUME ChatInv, NEW r \in Requests, req[r] # None, NEW step \in Steps, Goto(r, step)
    PROVE  \E q : Becomes(r, q) /\ Continues(r, q, step)
<1>1. req[r] \in Request
  BY DEF ChatInv, RequestsTyped
<1>2. CASE step = "done"
  <2>1. Becomes(r, Done(r))
    BY <1>2 DEF Goto, Becomes
  <2>2. Done(r) \in Request /\ Done(r).step = "done"
    <3>1. req[r].op \in Operations /\ req[r].who \in Users /\ req[r].other \in Users
      BY <1>1 DEF Request
    <3>2. Done(r) \in Request
      BY <3>1, SentTyped DEF Done, Steps
    <3> QED
      BY <3>2 DEF Done, Sent
  <2> QED
    BY <1>2, <2>1, <2>2 DEF Continues
<1>3. CASE step # "done"
  <2> DEFINE q == [req[r] EXCEPT !.step = step]
  <2>1. Becomes(r, q)
    BY <1>3 DEF Goto, Becomes, ChatInv, RequestsTyped
  <2>2. Continues(r, q, step)
    BY <1>1 DEF Request, Continues
  <2> QED
    BY <2>1, <2>2
<1> QED
  BY <1>2, <1>3

LEMMA BecomesTyped ==
    ASSUME ChatInv, NEW r \in Requests, NEW q \in Request, Becomes(r, q)
    PROVE  /\ RequestsTyped'
           /\ req'[r] = q
           /\ q # None
           /\ \A x \in Requests : x # r => req'[x] = req[x]
           /\ RequestInv(q) => (\A x \in Requests : RequestInv(req[x]))'
<1>1. /\ RequestsTyped'
      /\ req'[r] = q
      /\ \A x \in Requests : x # r => req'[x] = req[x]
  BY DEF Becomes, ChatInv, RequestsTyped
<1>2. q # None
  BY ChatAssumption
<1>3. RequestInv(q) => \A x \in Requests : RequestInv(req'[x])
  BY <1>1 DEF ChatInv
<1> QED
  BY <1>1, <1>2, <1>3

(* What holds of every step that goes on, for the steps that need nothing  *)
(* new.                                                                    *)
LEMMA ContinuesSound ==
    ASSUME ChatInv, NEW r \in Requests, req[r] # None, NEW step \in Steps, NEW q, Continues(r, q, step),
           Becomes(r, q),
           step # "create",
           step \in AboutMessage => req[r].step \in AboutMessage,
           step \in {"check", "find", "hide"} => ~req[r].flag,
           step \in {"remove", "removeFile"} => req[r].flag,
           step = "removeFile" => req[r].file # None,
           step \in {"sentFolder", "receivedFolder"} => req[r].op = "deleteAll"
    PROVE  q \in Request /\ RequestInv(q) /\ RequestsTyped' /\ (\A x \in Requests : RequestInv(req[x]))'
<1>1. RequestInv(req[r])
  BY DEF ChatInv
<1>2. RequestInv(q)
  <2>1. CASE step = "done"
    BY <2>1 DEF Continues, RequestInv, AboutMessage
  <2>2. CASE step # "done"
    BY <1>1, <2>2 DEF Continues, RequestInv
  <2> QED
    BY <2>1, <2>2
<1> QED
  BY <1>2, BecomesTyped DEF Continues

-----------------------------------------------------------------------------
(* Rows.                                                                   *)
SameBut(old, new) ==
    /\ new # None
    /\ new.from = old.from /\ new.to = old.to /\ new.file = old.file /\ new.at = old.at

(* What deleting rows leaves.                                              *)
LEMMA DeletingRows ==
    ASSUME ChatInv, NEW gone \in SUBSET Messages, DeleteRows(gone)
    PROVE  /\ messages' \in [Messages -> Message \cup {None}]
           /\ hiddenFrom' \subseteq hiddenFrom
           /\ \A m \in gone : messages'[m] = None /\ \A u : <<u, m>> \notin hiddenFrom'
           /\ \A m \in Messages \ gone :
                /\ ~Exists(m) => messages'[m] = None
                /\ Exists(m) => /\ SameBut(messages[m], messages'[m])
                                /\ messages'[m].text = messages[m].text
                                /\ messages'[m].reply # None =>
                                     messages'[m].reply = messages[m].reply /\ messages[m].reply \notin gone
<1>1. ASSUME NEW m \in Messages \ gone, Exists(m), messages[m].reply \in gone
      PROVE  /\ [messages[m] EXCEPT !.reply = None] \in Message
             /\ SameBut(messages[m], [messages[m] EXCEPT !.reply = None])
             /\ [messages[m] EXCEPT !.reply = None].text = messages[m].text
             /\ [messages[m] EXCEPT !.reply = None].reply = None
  <2>1. messages[m] \in Message
    BY <1>1 DEF ChatInv, TablesTyped, Exists
  <2>2. /\ [messages[m] EXCEPT !.reply = None] \in Message
        /\ [messages[m] EXCEPT !.reply = None].from = messages[m].from
        /\ [messages[m] EXCEPT !.reply = None].to = messages[m].to
        /\ [messages[m] EXCEPT !.reply = None].text = messages[m].text
        /\ [messages[m] EXCEPT !.reply = None].file = messages[m].file
        /\ [messages[m] EXCEPT !.reply = None].at = messages[m].at
        /\ [messages[m] EXCEPT !.reply = None].reply = None
    BY <2>1 DEF Message
  <2> QED
    BY <2>2, ChatAssumption DEF SameBut
<1>2. \A m \in Messages :
        messages'[m] = IF m \in gone THEN None
                       ELSE IF Exists(m) /\ messages[m].reply \in gone THEN [messages[m] EXCEPT !.reply = None]
                       ELSE messages[m]
  BY DEF DeleteRows
<1>3. messages' = [m \in Messages |-> messages'[m]]
  BY DEF DeleteRows
<1>4. ASSUME NEW m \in Messages PROVE messages'[m] \in Message \cup {None}
  <2>1. CASE m \in gone
    BY <1>2, <2>1
  <2>2. CASE m \notin gone /\ Exists(m) /\ messages[m].reply \in gone
    BY <1>1, <1>2, <2>2
  <2>3. CASE m \notin gone /\ ~(Exists(m) /\ messages[m].reply \in gone)
    BY <1>2, <2>3 DEF ChatInv, TablesTyped
  <2> QED
    BY <2>1, <2>2, <2>3
<1>5. messages' \in [Messages -> Message \cup {None}]
  BY <1>3, <1>4
<1>6. hiddenFrom' \subseteq hiddenFrom /\ \A m \in gone : \A u : <<u, m>> \notin hiddenFrom'
  BY DEF DeleteRows
<1>7. ASSUME NEW m \in Messages \ gone
      PROVE  /\ ~Exists(m) => messages'[m] = None
             /\ Exists(m) => /\ SameBut(messages[m], messages'[m])
                             /\ messages'[m].text = messages[m].text
                             /\ messages'[m].reply # None =>
                                  messages'[m].reply = messages[m].reply /\ messages[m].reply \notin gone
  <2>1. CASE ~Exists(m)
    BY <1>2, <2>1 DEF Exists
  <2>2. CASE Exists(m) /\ messages[m].reply \in gone
    BY <1>1, <1>2, <2>2
  <2>3. CASE Exists(m) /\ messages[m].reply \notin gone
    BY <1>2, <2>3 DEF SameBut, Exists
  <2> QED
    BY <2>1, <2>2, <2>3
<1> QED
  BY <1>2, <1>5, <1>6, <1>7

LEMMA DeletingKeepsMessages ==
    ASSUME ChatInv, NEW gone \in SUBSET Messages, DeleteRows(gone), UNCHANGED <<fileOf, stored>>
    PROVE  MessageInv'
<1> SUFFICES ASSUME NEW m \in Messages, Exists(m)'
             PROVE  /\ {messages'[m].from, messages'[m].to} = PairOf[m]
                    /\ messages'[m].file = (fileOf'[m] = <<messages'[m].from, messages'[m].to>>)
                    /\ messages'[m].reply # None =>
                         messages'[messages'[m].reply] # None /\ PairOf[messages'[m].reply] = PairOf[m]
                    /\ stored'[m] >= 1
  BY DEF MessageInv, Exists
<1>1. m \notin gone /\ Exists(m)
  BY DeletingRows DEF Exists
<1>2. /\ SameBut(messages[m], messages'[m])
      /\ messages'[m].reply # None => messages'[m].reply = messages[m].reply /\ messages[m].reply \notin gone
  BY <1>1, DeletingRows
<1>3. /\ {messages[m].from, messages[m].to} = PairOf[m]
      /\ messages[m].file = (fileOf[m] = <<messages[m].from, messages[m].to>>)
      /\ messages[m].reply # None => Exists(messages[m].reply) /\ PairOf[messages[m].reply] = PairOf[m]
      /\ stored[m] >= 1
  BY <1>1 DEF ChatInv, MessageInv
<1>4. messages'[m].reply # None => messages'[messages'[m].reply] # None
  <2>1. messages[m].reply \in Messages \cup {None}
    BY <1>1 DEF ChatInv, TablesTyped, Exists, Message
  <2> QED
    BY <1>2, <1>3, <2>1, DeletingRows DEF Exists, SameBut
<1> QED
  BY <1>2, <1>3, <1>4 DEF SameBut

-----------------------------------------------------------------------------
(* The file a deletion names was sent by the one to the other.             *)
NamedFile(q) ==
    q # None /\ q.step \in {"remove", "removeFile"} /\ q.file # None => fileOf[q.file] = <<q.who, q.other>>

(* The steps that only ask or look: nothing changes but what the request   *)
(* knows.                                                                  *)
LooksTo(old, q) ==
    /\ old = None \/ old.step \in {"check", "create", "find", "reread"}
    /\ q.step \in {"check", "create", "find", "announce", "update", "announceEdit", "remove", "hide", "write", "done"}
    /\ q.step = "announce" => ~q.flag
    /\ NamedFile(q)
    /\ old # None /\ old.step = "reread" /\ Exists(old.msg) => q.step = "announceEdit" /\ q.msg = old.msg

Looked(r) ==
    /\ \E q \in Request : Becomes(r, q) /\ RequestInv(q) /\ LooksTo(req[r], q)
    /\ UNCHANGED <<tables, others, shown, history>>

LEMMA LookedIsSound ==
    ASSUME ChatInv, NEW r \in Requests, Looked(r)
    PROVE  ChatInv'
<1>1. PICK q \in Request : Becomes(r, q) /\ RequestInv(q)
  BY DEF Looked
<1>2. RequestsTyped' /\ (\A x \in Requests : RequestInv(req[x]))'
  BY <1>1, BecomesTyped
<1> QED
  BY <1>2 DEF Looked, ChatInv, tables, others, history, TablesTyped, AroundTyped, ScreensTyped, CountsTyped, MessageInv,
              Exists

LEMMA SendLooks ==
    ASSUME ChatInv, NEW r \in Requests, NEW u \in Users, NEW v \in Users, NEW m \in Messages,
           NEW q \in Messages \cup {None}, Send(r, u, v, m, q)
    PROVE  Looked(r)
<1> DEFINE new == [Sent("send", "check", u, v, m) EXCEPT !.reply = q]
<1>1. Becomes(r, new) /\ PairOf[m] = {u, v} /\ UNCHANGED <<tables, others, shown, history>>
  BY DEF Send, Becomes
<1>2. Sent("send", "check", u, v, m) \in Request
  BY SentTyped DEF Operations, Steps
<1>3. new \in Request /\ new.step = "check" /\ new.msg = m /\ new.who = u /\ new.other = v /\ ~new.flag
  BY <1>2 DEF Sent, Request
<1> HIDE DEF new
<1>4. RequestInv(new)
  BY <1>1, <1>3 DEF RequestInv
<1>5. LooksTo(req[r], new)
  <2>1. req[r] = None
    BY DEF Send, Free
  <2> QED
    BY <1>3, <2>1 DEF LooksTo, NamedFile
<1> QED
  BY <1>1, <1>3, <1>4, <1>5 DEF Looked

LEMMA CheckLooks ==
    ASSUME ChatInv, NEW r \in Requests, Check(r)
    PROVE  Looked(r)
<1> DEFINE u == req[r].who
           v == req[r].other
<1>1. req[r] # None /\ req[r] \in Request /\ req[r].step = "check" /\ RequestInv(req[r])
  BY DEF Check, At, ChatInv, RequestsTyped
<1>2. UNCHANGED <<tables, others, shown, history>>
  BY DEF Check
<1>3. CASE Goto(r, "done")
  <2>1. PICK q : Becomes(r, q) /\ Continues(r, q, "done")
    BY <1>1, <1>3, GotoContinues DEF Steps
  <2>2. q \in Request /\ RequestInv(q)
    BY <1>1, <2>1, ContinuesSound DEF AboutMessage, Steps
  <2>3. LooksTo(req[r], q)
    BY <1>1, <2>1 DEF LooksTo, NamedFile, Continues
  <2> QED
    BY <1>2, <2>1, <2>2, <2>3 DEF Looked
<1>4. ASSUME NEW answered \in BOOLEAN,
             answered => SaysNotBlocked(u, v),
             req' = [req EXCEPT ![r].step = "create", ![r].reply = Quotable(@, u, v),
                       ![r].clear = \/ ~answered \/ u \in outOfDate
                                    \/ blocked \cap {<<u, v>>, <<v, u>>} = {}]
      PROVE  Looked(r)
  <2> DEFINE clear == ~answered \/ u \in outOfDate \/ blocked \cap {<<u, v>>, <<v, u>>} = {}
             reply == Quotable(req[r].reply, u, v)
             new == [req[r] EXCEPT !.step = "create", !.reply = reply, !.clear = clear]
  <2>1. Becomes(r, new)
    BY <1>1, <1>4 DEF Becomes, ChatInv, RequestsTyped
  <2>2. clear = TRUE
    BY <1>4 DEF SaysNotBlocked, NotBlocked
  <2>3. reply \in Messages \cup {None} /\ (reply # None => PairOf[reply] = {u, v})
    <3>1. req[r].reply \in Messages \cup {None}
      BY <1>1 DEF Request
    <3> QED
      BY <3>1 DEF Quotable, Conversation, ChatInv, MessageInv
  <2> HIDE DEF clear, reply
  <2>4. /\ new \in Request /\ new.step = "create" /\ new.reply = reply /\ new.clear = clear
        /\ new.msg = req[r].msg /\ new.who = u /\ new.other = v /\ new.flag = req[r].flag
    BY <1>1, <2>2, <2>3 DEF Request, Steps
  <2> HIDE DEF new
  <2>5. RequestInv(new)
    BY <1>1, <2>2, <2>3, <2>4 DEF RequestInv, AboutMessage
  <2>6. LooksTo(req[r], new)
    BY <1>1, <2>4 DEF LooksTo, NamedFile
  <2> QED
    BY <1>2, <2>1, <2>4, <2>5, <2>6 DEF Looked
<1> QED
  BY <1>3, <1>4 DEF Check

LEMMA CreateLooks ==
    ASSUME ChatInv, NEW r \in Requests, CreateMessage(r),
           Exists(req[r].msg) \/ (req[r].reply # None /\ ~Exists(req[r].reply))
    PROVE  Looked(r)
<1>1. req[r] # None /\ req[r] \in Request /\ req[r].step = "create" /\ RequestInv(req[r])
  BY DEF CreateMessage, At, ChatInv, RequestsTyped
<1>2. PICK step \in {"find", "done"} : Goto(r, step)
  BY DEF CreateMessage
<1>3. UNCHANGED <<tables, others, shown, history>>
  BY DEF CreateMessage, tables, others, history
<1>4. PICK q : Becomes(r, q) /\ Continues(r, q, step)
  BY <1>1, <1>2, GotoContinues DEF Steps
<1>5. q \in Request /\ RequestInv(q)
  BY <1>1, <1>4, ContinuesSound DEF AboutMessage, Steps, RequestInv
<1>6. LooksTo(req[r], q)
  BY <1>1, <1>4 DEF LooksTo, NamedFile, Continues
<1> QED
  BY <1>3, <1>4, <1>5, <1>6 DEF Looked

LEMMA FindLooks ==
    ASSUME ChatInv, NEW r \in Requests, FindMessage(r)
    PROVE  Looked(r)
<1> DEFINE m == req[r].msg
           u == req[r].who
<1>1. req[r] # None /\ req[r] \in Request /\ req[r].step = "find" /\ RequestInv(req[r])
  BY DEF FindMessage, At, ChatInv, RequestsTyped
<1>2. m \in Messages /\ u \in Users
  BY <1>1 DEF RequestInv, AboutMessage, Request
<1>3. UNCHANGED <<tables, others, shown, history>>
  BY DEF FindMessage
<1>4. CASE Sender(u, m)
  <2> DEFINE reply == IF <<u, messages[m].reply>> \in hiddenFrom THEN None ELSE messages[m].reply
             new == [req[r] EXCEPT !.step = "announce", !.text = messages[m].text,
                                   !.other = messages[m].to, !.reply = reply]
  <2>1. Becomes(r, new)
    BY <1>1, <1>4 DEF FindMessage, Becomes, ChatInv, RequestsTyped
  <2>2. messages[m] \in Message /\ messages[m].from = u /\ PairOf[m] = {u, messages[m].to}
    BY <1>2, <1>4 DEF Sender, Exists, ChatInv, TablesTyped, MessageInv
  <2>3. messages[m].text \in 0..MaxText /\ messages[m].to \in Users /\ reply \in Messages \cup {None}
    BY <2>2 DEF Message
  <2> HIDE DEF reply
  <2>4. /\ new \in Request /\ new.step = "announce" /\ new.msg = m /\ new.who = u /\ new.other = messages[m].to
        /\ new.flag = req[r].flag
    BY <1>1, <2>3 DEF Request, Steps
  <2> HIDE DEF new
  <2>5. RequestInv(new)
    BY <1>2, <2>2, <2>4 DEF RequestInv
  <2>6. LooksTo(req[r], new)
    BY <1>1, <2>4 DEF LooksTo, NamedFile, RequestInv
  <2> QED
    BY <1>3, <2>1, <2>4, <2>5, <2>6 DEF Looked
<1>5. CASE Goto(r, "done")
  <2>1. PICK q : Becomes(r, q) /\ Continues(r, q, "done")
    BY <1>1, <1>5, GotoContinues DEF Steps
  <2>2. q \in Request /\ RequestInv(q)
    BY <1>1, <2>1, ContinuesSound DEF AboutMessage, Steps
  <2>3. LooksTo(req[r], q)
    BY <1>1, <2>1 DEF LooksTo, NamedFile, Continues
  <2> QED
    BY <1>3, <2>1, <2>2, <2>3 DEF Looked
<1> QED
  BY <1>4, <1>5 DEF FindMessage

LEMMA RereadLooks ==
    ASSUME ChatInv, NEW r \in Requests, RereadMessage(r)
    PROVE  Looked(r)
<1> DEFINE m == req[r].msg
<1>1. req[r] # None /\ req[r] \in Request /\ req[r].step = "reread" /\ RequestInv(req[r])
  BY DEF RereadMessage, At, ChatInv, RequestsTyped
<1>2. m \in Messages /\ PairOf[m] = {req[r].who, req[r].other}
  BY <1>1 DEF RequestInv, AboutMessage
<1>3. UNCHANGED <<tables, others, shown, history>>
  BY DEF RereadMessage
<1>4. CASE Exists(m)
  <2> DEFINE new == [req[r] EXCEPT !.step = "announceEdit", !.text = messages[m].text]
  <2>1. Becomes(r, new)
    BY <1>1, <1>4 DEF RereadMessage, Becomes, ChatInv, RequestsTyped
  <2>2. messages[m].text \in 0..MaxText
    BY <1>2, <1>4 DEF Exists, ChatInv, TablesTyped, Message
  <2>3. new \in Request /\ new.step = "announceEdit" /\ new.msg = m /\ new.who = req[r].who /\ new.other = req[r].other
    BY <1>1, <2>2 DEF Request, Steps
  <2> HIDE DEF new
  <2>4. RequestInv(new)
    BY <1>2, <2>3 DEF RequestInv
  <2>5. LooksTo(req[r], new)
    BY <1>1, <2>3 DEF LooksTo, NamedFile
  <2> QED
    BY <1>3, <2>1, <2>3, <2>4, <2>5 DEF Looked
<1>5. CASE ~Exists(m) /\ Goto(r, "done")
  <2>1. PICK q : Becomes(r, q) /\ Continues(r, q, "done")
    BY <1>1, <1>5, GotoContinues DEF Steps
  <2>2. q \in Request /\ RequestInv(q)
    BY <1>1, <2>1, ContinuesSound DEF AboutMessage, Steps
  <2>3. LooksTo(req[r], q)
    BY <1>1, <1>5, <2>1 DEF LooksTo, NamedFile, Continues
  <2> QED
    BY <1>3, <2>1, <2>2, <2>3 DEF Looked
<1> QED
  BY <1>4, <1>5 DEF RereadMessage

LEMMA EditLooks ==
    ASSUME ChatInv, NEW r \in Requests, NEW u \in Users, NEW m \in Messages, NEW t \in 1..MaxText, Edit(r, u, m, t)
    PROVE  Looked(r)
<1>1. UNCHANGED <<tables, others, shown, history>> /\ req[r] = None
  BY DEF Edit, Free
<1>2. CASE Sender(u, m)
  <2> DEFINE inTime == m \notin aged
             new == [Sent("edit", "update", u, messages[m].to, m) EXCEPT !.text = t, !.flag = inTime]
  <2>1. Becomes(r, new)
    BY <1>2 DEF Edit, Becomes
  <2>2. messages[m].to \in Users /\ PairOf[m] = {u, messages[m].to}
    BY <1>2 DEF Sender, Exists, ChatInv, TablesTyped, MessageInv, Message
  <2>3. Sent("edit", "update", u, messages[m].to, m) \in Request
    BY <2>2, SentTyped DEF Operations, Steps
  <2>4. t \in 0..MaxText /\ inTime \in BOOLEAN
    BY ChatAssumption
  <2> HIDE DEF inTime
  <2>5. new \in Request /\ new.step = "update" /\ new.msg = m /\ new.who = u /\ new.other = messages[m].to
    BY <2>3, <2>4 DEF Sent, Request
  <2> HIDE DEF new
  <2>6. RequestInv(new)
    BY <2>2, <2>5 DEF RequestInv
  <2> QED
    BY <1>1, <2>1, <2>5, <2>6 DEF Looked, LooksTo, NamedFile
<1>3. CASE ~Sender(u, m)
  <2> DEFINE new == Sent("edit", "done", u, u, None)
  <2>1. Becomes(r, new)
    BY <1>3 DEF Edit, Becomes
  <2>2. new \in Request
    BY SentTyped DEF Operations, Steps
  <2>3. RequestInv(new) /\ new.step = "done"
    BY DEF RequestInv, Sent, AboutMessage
  <2> HIDE DEF new
  <2> QED
    BY <1>1, <2>1, <2>2, <2>3 DEF Looked, LooksTo, NamedFile
<1> QED
  BY <1>2, <1>3

(* Who the other person of a message is.                                   *)
OtherOf(u, m) == CHOOSE v \in Users : {u, v} = {messages[m].from, messages[m].to}

LEMMA DeleteLooks ==
    ASSUME ChatInv, NEW r \in Requests, NEW u \in Users, NEW m \in Messages, NEW forEveryone \in BOOLEAN,
           NEW file \in Messages \cup {None}, DeleteMessage(r, u, m, forEveryone, file)
    PROVE  Looked(r)
<1>1. UNCHANGED <<tables, others, shown, history>> /\ req[r] = None
  BY DEF DeleteMessage, Free
<1>2. CASE Party(u, m) /\ (forEveryone => Sender(u, m) /\ IsSentFile(m, file))
  <2> DEFINE v == OtherOf(u, m)
             step == IF forEveryone THEN "remove" ELSE "hide"
             named == IF forEveryone THEN file ELSE None
             new == [Sent("delete", step, u, v, m) EXCEPT !.flag = forEveryone, !.file = named]
  <2>1. Becomes(r, new)
    BY <1>2 DEF DeleteMessage, Becomes, OtherOf
  <2>2. messages[m] \in Message /\ u \in {messages[m].from, messages[m].to}
    BY <1>2 DEF Party, Exists, ChatInv, TablesTyped
  <2>3. \E w \in Users : {u, w} = {messages[m].from, messages[m].to}
    BY <2>2 DEF Message
  <2>4. v \in Users /\ {u, v} = {messages[m].from, messages[m].to}
    BY <2>3 DEF OtherOf
  <2>5. PairOf[m] = {u, v}
    BY <1>2, <2>4 DEF Party, ChatInv, MessageInv
  <2>6. step \in Steps /\ step = IF forEveryone THEN "remove" ELSE "hide"
    BY DEF Steps
  <2>10. named \in Messages \cup {None}
    OBVIOUS
  <2> HIDE DEF v, step, named
  <2>7. Sent("delete", step, u, v, m) \in Request
    BY <2>4, <2>6, SentTyped DEF Operations
  <2>8. /\ new \in Request /\ new.step = step /\ new.msg = m /\ new.who = u /\ new.other = v
        /\ new.flag = forEveryone /\ new.file = named
    BY <2>7, <2>10 DEF Sent, Request
  <2> HIDE DEF new
  <2>9. RequestInv(new)
    BY <2>5, <2>6, <2>8 DEF RequestInv
  <2>11. NamedFile(new)
    <3>1. new.file = IF forEveryone THEN file ELSE None
      BY <2>8 DEF named
    <3>2. ASSUME forEveryone, file # None PROVE fileOf[file] = <<u, v>>
      <4>1. messages[m].from = u /\ fileOf[file] = <<messages[m].from, messages[m].to>>
        BY <1>2, <3>2 DEF Sender, IsSentFile
      <4>2. v = messages[m].to
        BY <2>4, <4>1
      <4> QED
        BY <4>1, <4>2
    <3> QED
      BY <2>6, <2>8, <3>1, <3>2 DEF NamedFile
  <2> QED
    BY <1>1, <2>1, <2>6, <2>8, <2>9, <2>11 DEF Looked, LooksTo
<1>3. CASE ~(Party(u, m) /\ (forEveryone => Sender(u, m) /\ IsSentFile(m, file)))
  <2> DEFINE new == Sent("delete", "done", u, u, None)
  <2>1. Becomes(r, new)
    BY <1>3 DEF DeleteMessage, Becomes
  <2>2. new \in Request
    BY SentTyped DEF Operations, Steps
  <2>3. RequestInv(new) /\ new.step = "done"
    BY DEF RequestInv, Sent, AboutMessage
  <2> HIDE DEF new
  <2> QED
    BY <1>1, <2>1, <2>2, <2>3 DEF Looked, LooksTo, NamedFile
<1> QED
  BY <1>2, <1>3

LEMMA ChangeLooks ==
    ASSUME ChatInv, NEW r \in Requests, NEW op \in {"archive", "unarchive", "clear", "deleteAll"},
           NEW u \in Users, NEW v \in Users, ChangeConversation(r, op, u, v)
    PROVE  Looked(r)
<1> DEFINE new == [Sent(op, "write", u, v, None) EXCEPT !.at = clock]
<1>1. UNCHANGED <<tables, others, shown, history>> /\ Becomes(r, new) /\ req[r] = None
  BY DEF ChangeConversation, Becomes, Free
<1>2. Sent(op, "write", u, v, None) \in Request
  BY SentTyped DEF Operations, Steps
<1>3. clock \in 0..MaxTime
  BY DEF ChatInv, AroundTyped
<1>4. new \in Request /\ new.step = "write"
  BY <1>2, <1>3 DEF Sent, Request
<1> HIDE DEF new
<1>5. RequestInv(new)
  BY <1>4 DEF RequestInv, AboutMessage
<1> QED
  BY <1>1, <1>4, <1>5 DEF Looked, LooksTo, NamedFile

(* A message that is stored.                                               *)
LEMMA CreateStores ==
    ASSUME ChatInv, NEW r \in Requests, CreateMessage(r), ~Exists(req[r].msg),
           req[r].reply # None => Exists(req[r].reply)
    PROVE  LET m == req[r].msg
               u == req[r].who
               v == req[r].other
           IN  /\ m \in Messages /\ u \in Users /\ v \in Users /\ PairOf[m] = {u, v} /\ req[r].clear
               /\ \E row \in Message :
                    /\ messages' = [messages EXCEPT ![m] = row]
                    /\ row # None /\ row.from = u /\ row.to = v /\ row.reply = req[r].reply
                    /\ row.file = (fileOf[m] = <<u, v>>) /\ row.at = clock /\ row.text = 0
               /\ \E q \in Request :
                    /\ Becomes(r, q) /\ RequestInv(q)
                    /\ q.step = "announce" /\ q.flag /\ q.msg = m /\ q.op = req[r].op
               /\ stored' = [stored EXCEPT ![m] = @ + 1]
               /\ unaware' = IF ~NotBlocked(u, v) THEN unaware \cup {m} ELSE unaware \ {m}
               /\ lost' = IF m \in files /\ ~BeingRemoved(m) THEN lost ELSE lost \cup {m}
               /\ aged' = aged \ {m}
               /\ UNCHANGED <<hiddenFrom, archived, cleared, fileOf, files, blocked, outOfDate, clock, shown, pushed, behind,
                               returned>>
<1> DEFINE m == req[r].msg
           u == req[r].who
           v == req[r].other
<1>1. req[r] # None /\ req[r] \in Request /\ req[r].step = "create" /\ RequestInv(req[r])
  BY DEF CreateMessage, At, ChatInv, RequestsTyped
<1>2. m \in Messages /\ u \in Users /\ v \in Users /\ PairOf[m] = {u, v} /\ req[r].clear
  BY <1>1 DEF Request, RequestInv, AboutMessage
<1> DEFINE row == [from |-> u, to |-> v, text |-> 0, reply |-> req[r].reply,
                   file |-> fileOf[m] = <<u, v>>, read |-> FALSE, at |-> clock]
           reply == IF <<u, req[r].reply>> \in hiddenFrom THEN None ELSE req[r].reply
           q == [req[r] EXCEPT !.step = "announce", !.flag = TRUE, !.text = 0, !.reply = reply]
<1>3. /\ messages' = [messages EXCEPT ![m] = row]
      /\ stored' = [stored EXCEPT ![m] = @ + 1]
      /\ unaware' = IF ~NotBlocked(u, v) THEN unaware \cup {m} ELSE unaware \ {m}
      /\ lost' = IF m \in files /\ ~BeingRemoved(m) THEN lost ELSE lost \cup {m}
      /\ aged' = aged \ {m}
      /\ req' = [req EXCEPT ![r].step = "announce", ![r].flag = TRUE, ![r].text = 0, ![r].reply = reply]
      /\ UNCHANGED <<hiddenFrom, archived, cleared, fileOf, files, blocked, outOfDate, clock, shown, pushed, behind,
                               returned>>
  BY <1>2 DEF CreateMessage, Exists
<1>4. row \in Message /\ row # None
  <2>1. 0 \in 0..MaxText /\ clock \in 0..MaxTime /\ req[r].reply \in Messages \cup {None}
    BY <1>1, ChatAssumption DEF ChatInv, AroundTyped, Request
  <2>2. row \in Message
    BY <1>2, <2>1 DEF Message
  <2> QED
    BY <2>2, ChatAssumption
<1>5. Becomes(r, q)
  BY <1>1, <1>3 DEF Becomes, ChatInv, RequestsTyped
<1>6. 0 \in 0..MaxText /\ reply \in Messages \cup {None}
  BY <1>1, ChatAssumption DEF Request
<1> HIDE DEF reply
<1>7. /\ q \in Request /\ q.step = "announce" /\ q.flag /\ q.msg = m /\ q.who = u /\ q.other = v
      /\ q.op = req[r].op
  BY <1>1, <1>6 DEF Request, Steps
<1>8. RequestInv(q)
  <2> HIDE DEF q
  <2> QED
    BY <1>2, <1>7 DEF RequestInv
<1>9. /\ row.from = u /\ row.to = v /\ row.reply = req[r].reply
      /\ row.file = (fileOf[m] = <<u, v>>) /\ row.at = clock /\ row.text = 0
  OBVIOUS
<1> HIDE DEF row, q
<1>10. \E w \in Message :
         /\ messages' = [messages EXCEPT ![m] = w]
         /\ w # None /\ w.from = u /\ w.to = v /\ w.reply = req[r].reply
         /\ w.file = (fileOf[m] = <<u, v>>) /\ w.at = clock /\ w.text = 0
  BY <1>3, <1>4, <1>9
<1>11. \E w \in Request :
         /\ Becomes(r, w) /\ RequestInv(w)
         /\ w.step = "announce" /\ w.flag /\ w.msg = m /\ w.op = req[r].op
  BY <1>5, <1>7, <1>8
<1> QED
  BY <1>2, <1>3, <1>10, <1>11
LEMMA CreateIsSound ==
    ASSUME ChatInv, NEW r \in Requests, CreateMessage(r)
    PROVE  ChatInv'
<1> DEFINE m == req[r].msg
           u == req[r].who
           v == req[r].other
<1>1. req[r] # None /\ req[r] \in Request /\ req[r].step = "create" /\ RequestInv(req[r])
  BY DEF CreateMessage, At, ChatInv, RequestsTyped
<1>2. m \in Messages
  BY <1>1 DEF RequestInv, AboutMessage
<1>3. CASE Exists(m) \/ (req[r].reply # None /\ ~Exists(req[r].reply))
  BY <1>3, CreateLooks, LookedIsSound
<1>4. CASE ~Exists(m) /\ (req[r].reply # None => Exists(req[r].reply))
  <2>1. PICK row \in Message :
          /\ messages' = [messages EXCEPT ![m] = row]
          /\ row # None /\ row.from = u /\ row.to = v /\ row.reply = req[r].reply
          /\ row.file = (fileOf[m] = <<u, v>>) /\ row.at = clock /\ row.text = 0
    BY <1>4, CreateStores
  <2>2. PICK q \in Request :
          /\ Becomes(r, q) /\ RequestInv(q)
          /\ q.step = "announce" /\ q.flag /\ q.msg = m /\ q.op = req[r].op
    BY <1>4, CreateStores
  <2>3. /\ u \in Users /\ v \in Users /\ PairOf[m] = {u, v}
        /\ stored' = [stored EXCEPT ![m] = @ + 1]
        /\ unaware' = IF ~NotBlocked(u, v) THEN unaware \cup {m} ELSE unaware \ {m}
        /\ lost' = IF m \in files /\ ~BeingRemoved(m) THEN lost ELSE lost \cup {m}
        /\ aged' = aged \ {m}
        /\ UNCHANGED <<hiddenFrom, archived, cleared, fileOf, files, blocked, outOfDate, clock, shown, pushed, behind,
                               returned>>
    BY <1>4, CreateStores
  <2>4. RequestsTyped' /\ (\A x \in Requests : RequestInv(req[x]))'
    BY <2>2, BecomesTyped
  <2>5. TablesTyped' /\ AroundTyped' /\ ScreensTyped' /\ CountsTyped'
    BY <1>2, <2>1, <2>3 DEF ChatInv, TablesTyped, AroundTyped, ScreensTyped, CountsTyped
  <2>6. /\ messages'[m] = row /\ stored'[m] >= 1
        /\ \A n \in Messages : n # m => messages'[n] = messages[n] /\ stored'[n] = stored[n]
    BY <1>2, <2>1, <2>3 DEF ChatInv, TablesTyped, CountsTyped
  <2>7. MessageInv'
    <3> SUFFICES ASSUME NEW n \in Messages, Exists(n)'
                 PROVE  /\ {messages'[n].from, messages'[n].to} = PairOf[n]
                        /\ messages'[n].file = (fileOf'[n] = <<messages'[n].from, messages'[n].to>>)
                        /\ messages'[n].reply # None =>
                             messages'[messages'[n].reply] # None /\ PairOf[messages'[n].reply] = PairOf[n]
                        /\ stored'[n] >= 1
      BY DEF MessageInv, Exists
    <3>1. \A k \in Messages : Exists(k) => messages'[k] # None
      BY <1>4, <2>1, <2>6 DEF Exists
    <3>2. CASE n = m
      <4>1. req[r].reply \in Messages \cup {None} /\ (req[r].reply # None => PairOf[req[r].reply] = PairOf[m])
        BY <1>1 DEF Request, RequestInv
      <4> QED
        BY <1>4, <2>1, <2>3, <2>6, <3>1, <3>2, <4>1
    <3>3. CASE n # m
      <4>1. messages'[n] = messages[n] /\ Exists(n) /\ messages[n].reply \in Messages \cup {None}
        BY <2>6, <3>3 DEF Exists, ChatInv, TablesTyped, Message
      <4> QED
        BY <2>3, <2>6, <3>1, <3>3, <4>1 DEF ChatInv, MessageInv
    <3> QED
      BY <3>2, <3>3
  <2> QED
    BY <2>4, <2>5, <2>7 DEF ChatInv
<1> QED
  BY <1>3, <1>4

(* A step that goes on without changing anything else.                     *)
LEMMA MovingIsSound ==
    ASSUME ChatInv, RequestsTyped', (\A x \in Requests : RequestInv(req[x]))',
           UNCHANGED <<tables, others, shown, history>>
    PROVE  ChatInv'
  BY DEF ChatInv, tables, others, history, TablesTyped, AroundTyped, ScreensTyped, CountsTyped, MessageInv, Exists

-----------------------------------------------------------------------------
LEMMA ShowTyped ==
    ASSUME ChatInv, NEW us, NEW m, NEW text \in 0..MaxText \cup {None}, Show(us, m, text)
    PROVE  shown' \in [Users -> [Messages -> 0..MaxText \cup {None}]]
<1>1. ASSUME NEW u \in Users
      PROVE  (IF u \in us THEN [shown[u] EXCEPT ![m] = text] ELSE shown[u]) \in [Messages -> 0..MaxText \cup {None}]
  BY DEF ChatInv, ScreensTyped
<1> QED
  BY <1>1 DEF Show

LEMMA AnnounceIsSound ==
    ASSUME ChatInv, NEW r \in Requests, AnnounceMessage(r)
    PROVE  ChatInv'
<1> DEFINE m == req[r].msg
           both == {req[r].who, req[r].other}
<1>1. req[r] # None /\ req[r] \in Request /\ req[r].step = "announce" /\ RequestInv(req[r])
  BY DEF AnnounceMessage, At, ChatInv, RequestsTyped
<1>2. m \in Messages /\ both \subseteq Users /\ req[r].text \in 0..MaxText /\ req[r].reply \in Messages \cup {None}
  BY <1>1 DEF RequestInv, AboutMessage, Request
<1>3. /\ pushed' = IF Pushes(r) THEN [pushed EXCEPT ![m] = @ + 1] ELSE pushed
      /\ Show(both, m, req[r].text)
      /\ behind' = Behind(both, m, req[r].text)
      /\ returned' = returned \cup {x \in both \X {req[r].reply} : req[r].reply # None /\ Removed(x[1], x[2])}
      /\ Goto(r, "done")
      /\ UNCHANGED <<tables, others, stored, lost, unaware>>
  BY DEF AnnounceMessage
<1>4. PICK q : Becomes(r, q) /\ Continues(r, q, "done")
  BY <1>1, <1>3, GotoContinues DEF Steps
<1>5. RequestsTyped' /\ (\A x \in Requests : RequestInv(req[x]))'
  BY <1>1, <1>4, ContinuesSound DEF AboutMessage, Steps
<1>6. shown' \in [Users -> [Messages -> 0..MaxText \cup {None}]]
  BY <1>2, <1>3, ShowTyped
<1>7. ScreensTyped' /\ CountsTyped'
  BY <1>2, <1>3, <1>6 DEF ChatInv, ScreensTyped, CountsTyped, Behind
<1> QED
  BY <1>3, <1>5, <1>7 DEF ChatInv, tables, others, TablesTyped, AroundTyped, MessageInv, Exists

LEMMA UpdateIsSound ==
    ASSUME ChatInv, NEW r \in Requests, UpdateText(r)
    PROVE  ChatInv'
<1> DEFINE m == req[r].msg
<1>1. req[r] # None /\ req[r] \in Request /\ req[r].step = "update" /\ RequestInv(req[r])
  BY DEF UpdateText, At, ChatInv, RequestsTyped
<1>2. m \in Messages /\ req[r].text \in 0..MaxText
  BY <1>1 DEF RequestInv, AboutMessage, Request
<1>3. UNCHANGED <<hiddenFrom, archived, cleared, others, shown, history>>
  BY DEF UpdateText
<1>4. CASE Sender(req[r].who, m) /\ messages' = [messages EXCEPT ![m].text = req[r].text] /\ Goto(r, "reread")
  <2>1. PICK q : Becomes(r, q) /\ Continues(r, q, "reread")
    BY <1>1, <1>4, GotoContinues DEF Steps
  <2>2. RequestsTyped' /\ (\A x \in Requests : RequestInv(req[x]))'
    BY <1>1, <2>1, ContinuesSound DEF AboutMessage, Steps
  <2> DEFINE row == [messages[m] EXCEPT !.text = req[r].text]
  <2>3. messages[m] \in Message
    BY <1>2, <1>4 DEF Sender, Exists, ChatInv, TablesTyped
  <2>4. /\ row \in Message /\ row.from = messages[m].from /\ row.to = messages[m].to
        /\ row.file = messages[m].file /\ row.reply = messages[m].reply
    BY <1>2, <2>3 DEF Message
  <2>5. messages' = [messages EXCEPT ![m] = row]
    BY <1>2, <1>4 DEF ChatInv, TablesTyped
  <2> HIDE DEF row
  <2>6. TablesTyped'
    BY <1>3, <2>4, <2>5 DEF ChatInv, TablesTyped
  <2>7. /\ messages'[m] = row /\ \A n \in Messages : n # m => messages'[n] = messages[n]
        /\ \A n \in Messages : (messages'[n] # None) = Exists(n)
    BY <1>2, <1>4, <2>4, <2>5, ChatAssumption DEF ChatInv, TablesTyped, Sender, Exists
  <2>8. MessageInv'
    <3>1. \A n \in Messages : Exists(n) => messages[n].reply \in Messages \cup {None}
      BY DEF ChatInv, TablesTyped, Message, Exists
    <3> QED
      BY <1>2, <1>3, <2>4, <2>7, <3>1 DEF ChatInv, MessageInv, Exists, others, history
  <2> QED
    BY <1>3, <2>2, <2>6, <2>8 DEF ChatInv, others, history, AroundTyped, ScreensTyped, CountsTyped
<1>5. CASE Goto(r, "done") /\ UNCHANGED messages
  <2>1. PICK q : Becomes(r, q) /\ Continues(r, q, "done")
    BY <1>1, <1>5, GotoContinues DEF Steps
  <2>2. UNCHANGED <<tables, others, shown, history>>
    BY <1>3, <1>5 DEF tables
  <2> QED
    BY <1>1, <2>1, <2>2, ContinuesSound, MovingIsSound DEF AboutMessage, Steps
<1> QED
  BY <1>4, <1>5 DEF UpdateText

(* The steps that tell devices, and go on to "done".                       *)
LEMMA TellingIsSound ==
    ASSUME ChatInv, NEW r \in Requests, NotifyMessageEdited(r) \/ NotifyMessageDeleted(r) \/ NotifyConversationChanged(r)
    PROVE  ChatInv'
<1>1. req[r] # None /\ req[r] \in Request /\ RequestInv(req[r])
  BY DEF NotifyMessageEdited, NotifyMessageDeleted, NotifyConversationChanged, At, ChatInv, RequestsTyped
<1>2. /\ Goto(r, "done")
      /\ UNCHANGED <<tables, others, stored, pushed, lost, unaware, returned>>
  BY DEF NotifyMessageEdited, NotifyMessageDeleted, NotifyConversationChanged, history
<1>3. PICK q : Becomes(r, q) /\ Continues(r, q, "done")
  BY <1>1, <1>2, GotoContinues DEF Steps
<1>4. RequestsTyped' /\ (\A x \in Requests : RequestInv(req[x]))'
  BY <1>1, <1>3, ContinuesSound DEF AboutMessage, Steps
<1>5. ScreensTyped'
  <2>1. CASE NotifyMessageEdited(r)
    <3>1. req[r].msg \in Messages /\ req[r].text \in 0..MaxText
      BY <1>1, <2>1 DEF NotifyMessageEdited, At, RequestInv, AboutMessage, Request
    <3>2. shown' \in [Users -> [Messages -> 0..MaxText \cup {None}]]
      BY <2>1, <3>1, ShowTyped DEF NotifyMessageEdited
    <3>3. behind' \subseteq Messages /\ UNCHANGED returned
      BY <2>1, <3>1 DEF NotifyMessageEdited, Behind, ChatInv, ScreensTyped
    <3> QED
      BY <3>2, <3>3 DEF ChatInv, ScreensTyped
  <2>2. CASE NotifyMessageDeleted(r)
    <3>1. shown' \in [Users -> [Messages -> 0..MaxText \cup {None}]]
      BY <2>2, ShowTyped DEF NotifyMessageDeleted
    <3> QED
      BY <2>2, <3>1 DEF NotifyMessageDeleted, history, ChatInv, ScreensTyped
  <2>3. CASE NotifyConversationChanged(r)
    BY <2>3 DEF NotifyConversationChanged, history, ChatInv, ScreensTyped
  <2> QED
    BY <2>1, <2>2, <2>3
<1> QED
  BY <1>2, <1>4, <1>5 DEF ChatInv, tables, others, TablesTyped, AroundTyped, CountsTyped, MessageInv, Exists

LEMMA HideIsSound ==
    ASSUME ChatInv, NEW r \in Requests, Hide(r)
    PROVE  ChatInv'
<1>1. req[r] # None /\ req[r] \in Request /\ req[r].step = "hide" /\ RequestInv(req[r])
  BY DEF Hide, At, ChatInv, RequestsTyped
<1>2. req[r].msg \in Messages /\ req[r].who \in Users
  BY <1>1 DEF RequestInv, AboutMessage, Request
<1>3. PICK step \in {"announceDelete", "done"} : Goto(r, step)
  BY DEF Hide
<1>4. PICK q : Becomes(r, q) /\ Continues(r, q, step)
  BY <1>1, <1>3, GotoContinues DEF Steps
<1>5. RequestsTyped' /\ (\A x \in Requests : RequestInv(req[x]))'
  BY <1>1, <1>4, ContinuesSound DEF AboutMessage, Steps
<1>6. /\ hiddenFrom' \subseteq hiddenFrom \cup {<<req[r].who, req[r].msg>>}
      /\ UNCHANGED <<messages, archived, cleared, others, shown, history>>
  BY DEF Hide
<1> QED
  BY <1>2, <1>5, <1>6 DEF ChatInv, others, history, TablesTyped, AroundTyped, ScreensTyped, CountsTyped, MessageInv, Exists

LEMMA RemoveIsSound ==
    ASSUME ChatInv, NEW r \in Requests, RemoveMessage(r)
    PROVE  ChatInv'
<1>1. req[r] # None /\ req[r] \in Request /\ req[r].step = "remove" /\ RequestInv(req[r])
  BY DEF RemoveMessage, At, ChatInv, RequestsTyped
<1>2. PICK step \in {"removeFile", "announceDelete"} :
        Goto(r, step) /\ (step = "removeFile" => req[r].file # None)
  BY DEF RemoveMessage
<1>3. PICK q : Becomes(r, q) /\ Continues(r, q, step)
  BY <1>1, <1>2, GotoContinues DEF Steps
<1>4. RequestsTyped' /\ (\A x \in Requests : RequestInv(req[x]))'
  BY <1>1, <1>2, <1>3, ContinuesSound DEF AboutMessage, Steps, RequestInv
<1> DEFINE gone == {req[r].msg} \cap {m \in Messages : Sender(req[r].who, m)}
<1>5. gone \in SUBSET Messages /\ DeleteRows(gone) /\ UNCHANGED <<archived, cleared, others, shown, history>>
  BY DEF RemoveMessage
<1> HIDE DEF gone
<1>6. TablesTyped'
  BY <1>5, DeletingRows DEF ChatInv, TablesTyped
<1>7. MessageInv'
  BY <1>5, DeletingKeepsMessages DEF others, history
<1> QED
  BY <1>4, <1>5, <1>6, <1>7 DEF ChatInv, others, history, AroundTyped, ScreensTyped, CountsTyped

LEMMA RemoveFilesIsSound ==
    ASSUME ChatInv, NEW r \in Requests, RemoveFile(r) \/ RemoveFolder(r)
    PROVE  ChatInv'
<1>1. req[r] # None /\ req[r] \in Request /\ RequestInv(req[r])
  BY DEF RemoveFile, RemoveFolder, At, ChatInv, RequestsTyped
<1>2. /\ files' \subseteq files /\ lost' \subseteq Messages
      /\ UNCHANGED <<tables, fileOf, blocked, outOfDate, aged, clock, mix, shown, stored, pushed, behind, unaware,
                     returned>>
  <2>1. CASE RemoveFile(r)
    <3>1. req[r].file \in Messages
      BY <1>1, <2>1 DEF RemoveFile, At, RequestInv, Request
    <3> QED
      BY <2>1, <3>1 DEF RemoveFile, ChatInv, CountsTyped
  <2>2. CASE RemoveFolder(r)
    BY <2>2 DEF RemoveFolder, history, ChatInv, CountsTyped
  <2> QED
    BY <2>1, <2>2
<1>3. RequestsTyped' /\ (\A x \in Requests : RequestInv(req[x]))'
  <2>1. CASE RemoveFile(r)
    <3>1. Goto(r, "announceDelete") /\ req[r].step = "removeFile"
      BY <2>1 DEF RemoveFile, At
    <3>2. PICK q : Becomes(r, q) /\ Continues(r, q, "announceDelete")
      BY <1>1, <3>1, GotoContinues DEF Steps
    <3> QED
      BY <1>1, <3>1, <3>2, ContinuesSound DEF AboutMessage, Steps
  <2>2. CASE RemoveFolder(r)
    <3>1. PICK step \in {"receivedFolder", "announceState"} : Goto(r, step)
      BY <2>2 DEF RemoveFolder
    <3>2. req[r].op = "deleteAll"
      BY <1>1, <2>2 DEF RemoveFolder, RequestInv
    <3>3. PICK q : Becomes(r, q) /\ Continues(r, q, step)
      BY <1>1, <3>1, GotoContinues DEF Steps
    <3> QED
      BY <1>1, <3>2, <3>3, ContinuesSound DEF AboutMessage, Steps
  <2> QED
    BY <2>1, <2>2
<1> QED
  BY <1>2, <1>3 DEF ChatInv, tables, history, TablesTyped, AroundTyped, ScreensTyped, CountsTyped, MessageInv, Exists

LEMMA WriteIsSound ==
    ASSUME ChatInv, NEW r \in Requests, WriteState(r)
    PROVE  ChatInv'
<1>1. req[r] # None /\ req[r] \in Request /\ RequestInv(req[r]) /\ req[r].at \in 0..MaxTime
  BY DEF WriteState, At, ChatInv, RequestsTyped, Request
<1>2. Goto(r, "announceState")
  BY DEF WriteState, AfterWrite
<1>3. PICK q : Becomes(r, q) /\ Continues(r, q, "announceState")
  BY <1>1, <1>2, GotoContinues DEF Steps
<1>4. RequestsTyped' /\ (\A x \in Requests : RequestInv(req[x]))'
  BY <1>1, <1>3, ContinuesSound DEF AboutMessage, Steps
<1>5. req[r].at \in -1..MaxTime /\ Never \in -1..MaxTime
  BY <1>1, ChatAssumption DEF Never
<1>6. /\ archived' \in [Pairs -> -1..MaxTime] /\ cleared' \in [Pairs -> -1..MaxTime]
      /\ UNCHANGED <<messages, hiddenFrom, others, shown, history>>
  BY <1>5 DEF WriteState, ChatInv, TablesTyped
<1> QED
  BY <1>4, <1>6 DEF ChatInv, others, history, TablesTyped, AroundTyped, ScreensTyped, CountsTyped, MessageInv, Exists

LEMMA DeleteConversationIsSound ==
    ASSUME ChatInv, NEW r \in Requests, DeleteConversation(r)
    PROVE  ChatInv'
<1> DEFINE gone == Conversation(req[r].who, req[r].other)
<1>1. req[r] # None /\ req[r] \in Request /\ RequestInv(req[r]) /\ req[r].op = "deleteAll"
  BY DEF DeleteConversation, At, ChatInv, RequestsTyped
<1>2. Goto(r, "sentFolder")
  BY DEF DeleteConversation, AfterWrite
<1>3. PICK q : Becomes(r, q) /\ Continues(r, q, "sentFolder")
  BY <1>1, <1>2, GotoContinues DEF Steps
<1>4. RequestsTyped' /\ (\A x \in Requests : RequestInv(req[x]))'
  BY <1>1, <1>3, ContinuesSound DEF AboutMessage, Steps
<1>5. gone \in SUBSET Messages
  BY DEF Conversation
<1>6. DeleteRows(gone) /\ UNCHANGED <<others, shown, history>>
  BY DEF DeleteConversation
<1>7. Never \in -1..MaxTime
  BY ChatAssumption DEF Never
<1>8. archived' \in [Pairs -> -1..MaxTime] /\ cleared' \in [Pairs -> -1..MaxTime]
  BY <1>7 DEF DeleteConversation, ChatInv, TablesTyped
<1> HIDE DEF gone
<1>9. TablesTyped'
  BY <1>5, <1>6, <1>8, DeletingRows DEF ChatInv, TablesTyped
<1>10. MessageInv'
  BY <1>5, <1>6, DeletingKeepsMessages DEF others, history
<1> QED
  BY <1>4, <1>6, <1>9, <1>10 DEF ChatInv, others, history, AroundTyped, ScreensTyped, CountsTyped

(* Rows that are read.                                                     *)
LEMMA ReadingRows ==
    ASSUME ChatInv, NEW u \in Users, NEW v \in Users, MarkAsRead(u, v)
    PROVE  /\ messages' \in [Messages -> Message \cup {None}]
           /\ \A m \in Messages :
                /\ ~Exists(m) => messages'[m] = None
                /\ Exists(m) => /\ SameBut(messages[m], messages'[m])
                                /\ messages'[m].text = messages[m].text
                                /\ messages'[m].reply = messages[m].reply
<1> DEFINE isRead(m) == Exists(m) /\ messages[m].from = v /\ messages[m].to = u
<1>1. messages' = [m \in Messages |-> IF isRead(m) THEN [messages[m] EXCEPT !.read = TRUE] ELSE messages[m]]
  BY DEF MarkAsRead
<1>2. ASSUME NEW m \in Messages, isRead(m)
      PROVE  /\ [messages[m] EXCEPT !.read = TRUE] \in Message
             /\ SameBut(messages[m], [messages[m] EXCEPT !.read = TRUE])
             /\ [messages[m] EXCEPT !.read = TRUE].text = messages[m].text
             /\ [messages[m] EXCEPT !.read = TRUE].reply = messages[m].reply
  <2>1. messages[m] \in Message
    BY <1>2 DEF ChatInv, TablesTyped, Exists
  <2>2. /\ [messages[m] EXCEPT !.read = TRUE] \in Message
        /\ [messages[m] EXCEPT !.read = TRUE].from = messages[m].from
        /\ [messages[m] EXCEPT !.read = TRUE].to = messages[m].to
        /\ [messages[m] EXCEPT !.read = TRUE].text = messages[m].text
        /\ [messages[m] EXCEPT !.read = TRUE].file = messages[m].file
        /\ [messages[m] EXCEPT !.read = TRUE].at = messages[m].at
        /\ [messages[m] EXCEPT !.read = TRUE].reply = messages[m].reply
    BY <2>1 DEF Message
  <2> QED
    BY <2>2, ChatAssumption DEF SameBut
<1>3. ASSUME NEW m \in Messages
      PROVE  /\ messages'[m] \in Message \cup {None}
             /\ ~Exists(m) => messages'[m] = None
             /\ Exists(m) => /\ SameBut(messages[m], messages'[m])
                             /\ messages'[m].text = messages[m].text
                             /\ messages'[m].reply = messages[m].reply
  <2>1. messages'[m] = IF isRead(m) THEN [messages[m] EXCEPT !.read = TRUE] ELSE messages[m]
    BY <1>1
  <2>2. CASE isRead(m)
    BY <1>2, <2>1, <2>2
  <2>3. CASE ~isRead(m)
    <3> HIDE DEF isRead
    <3> QED
      BY <2>1, <2>3 DEF SameBut, Exists, ChatInv, TablesTyped
  <2> QED
    BY <2>2, <2>3
<1>4. messages' = [m \in Messages |-> messages'[m]]
  BY <1>1
<1> QED
  BY <1>3, <1>4

LEMMA MarkIsSound ==
    ASSUME ChatInv, NEW u \in Users, NEW v \in Users, MarkAsRead(u, v)
    PROVE  ChatInv'
<1>1. UNCHANGED <<hiddenFrom, archived, cleared, others, shown, req, history>>
  BY DEF MarkAsRead
<1>2. TablesTyped'
  BY <1>1, ReadingRows DEF ChatInv, TablesTyped
<1>3. MessageInv'
  <2>1. \A n \in Messages : Exists(n) => messages[n].reply \in Messages \cup {None}
    BY DEF ChatInv, TablesTyped, Message, Exists
  <2>2. \A n \in Messages : (messages'[n] # None) = Exists(n)
    BY ReadingRows DEF SameBut, Exists
  <2>3. \A n \in Messages : Exists(n) => SameBut(messages[n], messages'[n]) /\ messages'[n].reply = messages[n].reply
    BY ReadingRows
  <2> QED
    BY <1>1, <2>1, <2>2, <2>3 DEF ChatInv, MessageInv, Exists, SameBut, others, history
<1> QED
  BY <1>1, <1>2, <1>3 DEF ChatInv, others, history, AroundTyped, ScreensTyped, CountsTyped, RequestsTyped

(* What happens around the requests.                                       *)
LEMMA AroundIsSound ==
    ASSUME ChatInv,
           \/ \E u, v \in Users, m \in Messages : CreateUpload(u, v, m)
           \/ \E u \in Users : EraseFiles(u) \/ ForgetBlocks(u)
           \/ \E p \in Pairs : BlockOrUnblock(p)
           \/ \E m \in Messages : HourPasses(m)
           \/ Tick
    PROVE  ChatInv'
<1>1. ASSUME NEW u \in Users, NEW v \in Users, NEW m \in Messages, CreateUpload(u, v, m) PROVE ChatInv'
  <2>1. /\ u # v /\ stored[m] = 0
        /\ fileOf' = [fileOf EXCEPT ![m] = <<u, v>>] /\ files' = files \cup {m}
        /\ UNCHANGED <<tables, blocked, outOfDate, aged, clock, mix, shown, req, history>>
    BY <1>1 DEF CreateUpload
  <2>2. <<u, v>> \in Pairs
    BY <2>1 DEF Pairs
  <2>3. AroundTyped'
    BY <2>1, <2>2 DEF ChatInv, AroundTyped
  <2>4. ~Exists(m)
    BY <2>1 DEF ChatInv, MessageInv
  <2>5. MessageInv'
    <3>1. \A n \in Messages : Exists(n) => fileOf'[n] = fileOf[n]
      BY <2>1, <2>4 DEF ChatInv, AroundTyped
    <3> QED
      BY <2>1, <3>1 DEF ChatInv, MessageInv, Exists, tables, history
  <2> QED
    BY <2>1, <2>3, <2>5 DEF ChatInv, tables, history, TablesTyped, ScreensTyped, CountsTyped, RequestsTyped
<1>2. ASSUME NEW u \in Users, EraseFiles(u) PROVE ChatInv'
  <2>1. /\ files' \subseteq files /\ lost' \subseteq Messages
        /\ UNCHANGED <<tables, fileOf, blocked, outOfDate, aged, clock, mix, shown, req, stored, pushed, behind, unaware,
                       returned>>
    BY <1>2 DEF EraseFiles, ChatInv, CountsTyped
  <2> QED
    BY <2>1 DEF ChatInv, tables, TablesTyped, AroundTyped, ScreensTyped, CountsTyped, RequestsTyped, MessageInv, Exists
<1>3. ASSUME NEW p \in Pairs, BlockOrUnblock(p) PROVE ChatInv'
  <2>1. /\ blocked' \subseteq blocked \cup {p} /\ unaware' \subseteq unaware \cup Messages
        /\ outOfDate' = outOfDate \cup {p[1], p[2]} /\ p[1] \in Users /\ p[2] \in Users
        /\ UNCHANGED <<tables, fileOf, files, aged, clock, mix, shown, req, stored, pushed, behind, lost, returned>>
    BY <1>3 DEF BlockOrUnblock, Conversation, Pairs
  <2> QED
    BY <2>1 DEF ChatInv, tables, TablesTyped, AroundTyped, ScreensTyped, CountsTyped, RequestsTyped, MessageInv, Exists
<1>4. ASSUME NEW m \in Messages, HourPasses(m) PROVE ChatInv'
  <2>1. /\ aged' = aged \cup {m}
        /\ UNCHANGED <<tables, fileOf, files, blocked, outOfDate, clock, mix, shown, req, history>>
    BY <1>4 DEF HourPasses
  <2> QED
    BY <2>1 DEF ChatInv, tables, history, TablesTyped, AroundTyped, ScreensTyped, CountsTyped, RequestsTyped, MessageInv,
                Exists
<1>5. CASE Tick
  <2>1. /\ clock' \in 0..MaxTime
        /\ UNCHANGED <<tables, fileOf, files, blocked, outOfDate, aged, mix, shown, req, history>>
    BY <1>5, ChatAssumption DEF Tick, ChatInv, AroundTyped
  <2> QED
    BY <2>1 DEF ChatInv, tables, history, TablesTyped, AroundTyped, ScreensTyped, CountsTyped, RequestsTyped, MessageInv,
                Exists
<1>6. ASSUME NEW u \in Users, ForgetBlocks(u) PROVE ChatInv'
  <2>1. /\ outOfDate' \subseteq outOfDate
        /\ UNCHANGED <<tables, fileOf, files, blocked, aged, clock, mix, shown, req, history>>
    BY <1>6 DEF ForgetBlocks
  <2> QED
    BY <2>1 DEF ChatInv, tables, history, TablesTyped, AroundTyped, ScreensTyped, CountsTyped, RequestsTyped, MessageInv,
                Exists
<1> QED
  BY <1>1, <1>2, <1>3, <1>4, <1>5, <1>6

LEMMA NextIsSound ==
    ASSUME ChatInv, [Next]_vars
    PROVE  ChatInv'
<1>1. CASE UNCHANGED chatVars
  BY <1>1 DEF chatVars, tables, others, history, ChatInv, TablesTyped, AroundTyped, ScreensTyped, CountsTyped,
              RequestsTyped, MessageInv, Exists
<1>2. CASE MessagesNext
  <2>1. ASSUME NEW r \in Requests, Sending(r) PROVE ChatInv'
    BY <2>1, SendLooks, CheckLooks, FindLooks, LookedIsSound, CreateIsSound, AnnounceIsSound DEF Sending
  <2>2. ASSUME NEW r \in Requests, MessageActions(r) PROVE ChatInv'
    BY <2>2, EditLooks, DeleteLooks, RereadLooks, LookedIsSound, UpdateIsSound, TellingIsSound, HideIsSound, RemoveIsSound,
       RemoveFilesIsSound DEF MessageActions
  <2>3. ASSUME NEW r \in Requests, Conversations(r) PROVE ChatInv'
    BY <2>3, ChangeLooks, LookedIsSound, WriteIsSound, DeleteConversationIsSound, RemoveFilesIsSound, TellingIsSound
       DEF Conversations
  <2> QED
    BY <1>2, <2>1, <2>2, <2>3, MarkIsSound, AroundIsSound DEF MessagesNext
<1> QED
  BY <1>1, <1>2 DEF Next, vars

-----------------------------------------------------------------------------
(* What a step leaves: of the other requests, and of the rows.             *)
OthersStay(r) == \A x \in Requests : x # r => req'[x] = req[x]

RowsKept ==
    \A m \in Messages : messages'[m] # None => Exists(m) /\ SameBut(messages[m], messages'[m])

LEMMA GotoMoves ==
    ASSUME ChatInv, NEW r \in Requests, req[r] # None, NEW step \in Steps, Goto(r, step)
    PROVE  OthersStay(r) /\ req'[r] # None /\ Continues(r, req'[r], step)
<1>1. PICK q : Becomes(r, q) /\ Continues(r, q, step)
  BY GotoContinues
<1>2. q \in Request
  BY <1>1 DEF Continues
<1> QED
  BY <1>1, <1>2, BecomesTyped DEF OthersStay

LEMMA LookedMoves ==
    ASSUME ChatInv, NEW r \in Requests, Looked(r)
    PROVE  OthersStay(r) /\ req'[r] # None /\ LooksTo(req[r], req'[r])
<1>1. PICK q \in Request : Becomes(r, q) /\ RequestInv(q) /\ LooksTo(req[r], q)
  BY DEF Looked
<1> QED
  BY <1>1, BecomesTyped DEF OthersStay

LEMMA SameRowsKept ==
    ASSUME UNCHANGED messages
    PROVE  RowsKept
BY DEF RowsKept, SameBut, Exists

(* Stores a message: the step of a send that counts.                       *)
Stores(r) ==
    /\ CreateMessage(r)
    /\ ~Exists(req[r].msg)
    /\ req[r].reply # None => Exists(req[r].reply)

Tells(r) == NotifyMessageEdited(r) \/ NotifyMessageDeleted(r) \/ NotifyConversationChanged(r)

Removing(r) == RemoveMessage(r) \/ RemoveFile(r) \/ DeleteConversation(r) \/ RemoveFolder(r)

Around ==
    \/ \E u, v \in Users : MarkAsRead(u, v) \/ \E m \in Messages : CreateUpload(u, v, m)
    \/ \E u \in Users : EraseFiles(u) \/ ForgetBlocks(u)
    \/ \E p \in Pairs : BlockOrUnblock(p)
    \/ \E m \in Messages : HourPasses(m)
    \/ Tick

LEMMA KindsOfSteps ==
    ASSUME ChatInv, MessagesNext
    PROVE  \/ \E r \in Requests : \/ Looked(r) \/ Stores(r) \/ AnnounceMessage(r) \/ UpdateText(r) \/ Tells(r)
                                  \/ Hide(r) \/ WriteState(r) \/ Removing(r)
           \/ Around
<1>1. ASSUME NEW r \in Requests, Sending(r) PROVE Looked(r) \/ Stores(r) \/ AnnounceMessage(r)
  BY <1>1, SendLooks, CheckLooks, CreateLooks, FindLooks DEF Sending, Stores
<1>2. ASSUME NEW r \in Requests, MessageActions(r)
      PROVE  Looked(r) \/ UpdateText(r) \/ Tells(r) \/ Hide(r) \/ Removing(r)
  BY <1>2, EditLooks, RereadLooks, DeleteLooks DEF MessageActions, Tells, Removing
<1>3. ASSUME NEW r \in Requests, Conversations(r)
      PROVE  Looked(r) \/ WriteState(r) \/ Removing(r) \/ Tells(r)
  BY <1>3, ChangeLooks DEF Conversations, Tells, Removing
<1> QED
  BY <1>1, <1>2, <1>3 DEF MessagesNext, Around

LEMMA QuietSteps ==
    ASSUME ChatInv, NEW r \in Requests,
           Looked(r) \/ AnnounceMessage(r) \/ UpdateText(r) \/ Tells(r) \/ Hide(r) \/ WriteState(r)
    PROVE  /\ OthersStay(r) /\ RowsKept
           /\ req'[r] # None
           /\ req'[r].step \notin {"removeFile", "sentFolder", "receivedFolder"}
           /\ req'[r].step = "announce" => ~req'[r].flag
           /\ NamedFile(req'[r])
           /\ UNCHANGED <<fileOf, files, blocked, stored, lost, unaware>>
<1> USE SameRowsKept DEF others, tables, history, NamedFile
<1>1. CASE Looked(r)
  BY <1>1, LookedMoves DEF Looked, LooksTo
<1>2. CASE AnnounceMessage(r)
  BY <1>2, GotoMoves DEF AnnounceMessage, At, Steps, Continues
<1>3. CASE UpdateText(r)
  <2>1. OthersStay(r) /\ req'[r] # None /\ req'[r].step \in {"reread", "done"}
    BY <1>3, GotoMoves DEF UpdateText, At, Steps, Continues
  <2>2. RowsKept
    <3>1. CASE UNCHANGED messages
      BY <3>1
    <3>2. CASE Sender(req[r].who, req[r].msg) /\ messages' = [messages EXCEPT ![req[r].msg].text = req[r].text]
      <4>1. \A m \in Messages : Exists(m) => [messages[m] EXCEPT !.text = req[r].text] # None
                                             /\ SameBut(messages[m], [messages[m] EXCEPT !.text = req[r].text])
        <5>1. req[r].text \in 0..MaxText
          BY <1>3 DEF UpdateText, At, ChatInv, RequestsTyped, Request
        <5>2. ASSUME NEW m \in Messages, Exists(m)
              PROVE  /\ [messages[m] EXCEPT !.text = req[r].text] \in Message
                     /\ [messages[m] EXCEPT !.text = req[r].text].from = messages[m].from
                     /\ [messages[m] EXCEPT !.text = req[r].text].to = messages[m].to
                     /\ [messages[m] EXCEPT !.text = req[r].text].file = messages[m].file
                     /\ [messages[m] EXCEPT !.text = req[r].text].at = messages[m].at
          <6>1. messages[m] \in Message
            BY <5>2 DEF ChatInv, TablesTyped, Exists
          <6> QED
            BY <5>1, <6>1 DEF Message
        <5> QED
          BY <5>2, ChatAssumption DEF SameBut
      <4>2. \A m \in Messages : messages'[m] = messages[m]
                                \/ (messages'[m] = [messages[m] EXCEPT !.text = req[r].text] /\ Exists(m))
        BY <3>2 DEF Sender, ChatInv, TablesTyped
      <4> QED
        BY <4>1, <4>2 DEF RowsKept, SameBut, Exists
    <3> QED
      BY <1>3, <3>1, <3>2 DEF UpdateText
  <2> QED
    BY <1>3, <2>1, <2>2 DEF UpdateText
<1>4. CASE Tells(r)
  <2>1. req[r] # None /\ Goto(r, "done") /\ UNCHANGED <<messages, fileOf, files, blocked, stored, lost, unaware>>
    BY <1>4 DEF Tells, NotifyMessageEdited, NotifyMessageDeleted, NotifyConversationChanged, At
  <2> QED
    BY <2>1, GotoMoves DEF Steps, Continues
<1>5. CASE Hide(r)
  BY <1>5, GotoMoves DEF Hide, At, Steps, Continues
<1>6. CASE WriteState(r)
  <2>1. req[r] # None /\ Goto(r, "announceState")
    BY <1>6 DEF WriteState, At, AfterWrite
  <2> QED
    BY <1>6, <2>1, GotoMoves DEF WriteState, Steps, Continues
<1> QED
  BY <1>1, <1>2, <1>3, <1>4, <1>5, <1>6

LEMMA RemovingSteps ==
    ASSUME ChatInv, NEW r \in Requests, Removing(r)
    PROVE  /\ OthersStay(r) /\ RowsKept
           /\ req'[r] # None /\ req'[r].step # "announce"
           /\ UNCHANGED <<fileOf, blocked, stored, pushed, unaware>> /\ lost \subseteq lost'
<1>1. CASE RemoveMessage(r)
  <2>1. PICK step \in {"removeFile", "announceDelete"} : Goto(r, step)
    BY <1>1 DEF RemoveMessage
  <2>2. PICK gone \in SUBSET Messages : DeleteRows(gone)
    BY <1>1 DEF RemoveMessage
  <2>3. RowsKept
    BY <2>2, DeletingRows DEF RowsKept
  <2> QED
    BY <1>1, <2>1, <2>3, GotoMoves DEF RemoveMessage, At, others, history, Steps, Continues
<1>2. CASE DeleteConversation(r)
  <2>1. Goto(r, "sentFolder")
    BY <1>2 DEF DeleteConversation, AfterWrite
  <2>2. PICK gone \in SUBSET Messages : DeleteRows(gone)
    BY <1>2 DEF DeleteConversation, Conversation
  <2>3. RowsKept
    BY <2>2, DeletingRows DEF RowsKept
  <2> QED
    BY <1>2, <2>1, <2>3, GotoMoves DEF DeleteConversation, At, others, history, Steps, Continues
<1>3. CASE RemoveFile(r)
  BY <1>3, GotoMoves, SameRowsKept DEF RemoveFile, At, tables, history, Steps, Continues
<1>4. CASE RemoveFolder(r)
  <2>1. PICK step \in {"receivedFolder", "announceState"} : Goto(r, step)
    BY <1>4 DEF RemoveFolder
  <2> QED
    BY <1>4, <2>1, GotoMoves, SameRowsKept DEF RemoveFolder, tables, history, Steps, Continues
<1> QED
  BY <1>1, <1>2, <1>3, <1>4 DEF Removing

LEMMA AroundSteps ==
    ASSUME ChatInv, Around
    PROVE  RowsKept /\ UNCHANGED <<req, stored, pushed>>
<1>1. ASSUME NEW u \in Users, NEW v \in Users, MarkAsRead(u, v) PROVE RowsKept /\ UNCHANGED <<req, stored, pushed>>
  <2>1. RowsKept
    BY <1>1, ReadingRows DEF RowsKept
  <2> QED
    BY <1>1, <2>1 DEF MarkAsRead, history
<1> QED
  BY <1>1, SameRowsKept DEF Around, CreateUpload, EraseFiles, BlockOrUnblock, ForgetBlocks, HourPasses, Tick, tables, history

-----------------------------------------------------------------------------
(* Across a block.                                                         *)
LEMMA BlocksAreKept ==
    ASSUME ChatInv, NoMessageAcrossBlock, MessagesNext
    PROVE  NoMessageAcrossBlock'
<1> DEFINE Between2(p) == {<<p.from, p.to>>, <<p.to, p.from>>}
<1>1. ASSUME RowsKept, blocked' \subseteq blocked, unaware \subseteq unaware' PROVE NoMessageAcrossBlock'
  <2> SUFFICES ASSUME NEW m \in Messages, messages'[m] # None, m \notin unaware'
               PROVE  blocked' \cap Between2(messages'[m]) = {}
    BY DEF NoMessageAcrossBlock, Exists
  <2>1. Exists(m) /\ SameBut(messages[m], messages'[m]) /\ m \notin unaware
    BY <1>1 DEF RowsKept
  <2> QED
    BY <1>1, <2>1 DEF NoMessageAcrossBlock, SameBut
<1>2. ASSUME NEW r \in Requests, Stores(r) PROVE NoMessageAcrossBlock'
  <2> DEFINE m == req[r].msg
             u == req[r].who
             v == req[r].other
  <2>1. /\ m \in Messages /\ ~Exists(m)
        /\ unaware' = IF ~NotBlocked(u, v) THEN unaware \cup {m} ELSE unaware \ {m}
        /\ UNCHANGED blocked
    BY <1>2, CreateStores DEF Stores
  <2>2. PICK row \in Message : messages' = [messages EXCEPT ![m] = row] /\ row.from = u /\ row.to = v
    BY <1>2, CreateStores DEF Stores
  <2>3. messages'[m] = row /\ \A n \in Messages : n # m => messages'[n] = messages[n]
    BY <2>1, <2>2 DEF ChatInv, TablesTyped
  <2>4. ASSUME NEW n \in Messages, messages'[n] # None, n \notin unaware'
        PROVE  blocked' \cap Between2(messages'[n]) = {}
    <3>1. CASE n = m
      BY <2>1, <2>2, <2>3, <2>4, <3>1 DEF NotBlocked
    <3>2. CASE n # m
      BY <2>1, <2>3, <2>4, <3>2 DEF NoMessageAcrossBlock, Exists
    <3> QED
      BY <3>1, <3>2
  <2> QED
    BY <2>4 DEF NoMessageAcrossBlock, Exists
<1>3. CASE Around
  <2>1. CASE \E p \in Pairs : BlockOrUnblock(p)
    <3>1. PICK p \in Pairs : BlockOrUnblock(p)
      BY <2>1
    <3>2. CASE p \in blocked
      BY <1>1, <1>3, <3>1, <3>2, AroundSteps DEF BlockOrUnblock
    <3>3. CASE p \notin blocked
      <4>1. /\ blocked' = blocked \cup {p} /\ unaware' = unaware \cup Conversation(p[1], p[2])
            /\ UNCHANGED messages
        BY <3>1, <3>3 DEF BlockOrUnblock, tables
      <4>2. p = <<p[1], p[2]>>
        BY DEF Pairs
      <4>3. ASSUME NEW m \in Messages, messages'[m] # None, m \notin unaware'
            PROVE  blocked' \cap Between2(messages'[m]) = {}
        <5>1. m \notin Conversation(p[1], p[2]) /\ Exists(m) /\ m \notin unaware /\ messages'[m] = messages[m]
          BY <4>1, <4>3 DEF Exists
        <5>2. {messages[m].from, messages[m].to} # {p[1], p[2]}
          BY <5>1 DEF Conversation
        <5>3. p \notin Between2(messages[m])
          BY <4>2, <5>2
        <5> QED
          BY <4>1, <5>1, <5>3 DEF NoMessageAcrossBlock
      <4> QED
        BY <4>3 DEF NoMessageAcrossBlock, Exists
    <3> QED
      BY <3>2, <3>3
  <2>2. CASE ~\E p \in Pairs : BlockOrUnblock(p)
    <3>1. UNCHANGED <<blocked, unaware>>
      BY <1>3, <2>2 DEF Around, MarkAsRead, CreateUpload, EraseFiles, ForgetBlocks, HourPasses, Tick, others, history
    <3> QED
      BY <1>1, <1>3, <3>1, AroundSteps
  <2> QED
    BY <2>1, <2>2
<1> QED
  BY <1>1, <1>2, <1>3, KindsOfSteps, QuietSteps, RemovingSteps

-----------------------------------------------------------------------------
(* Files: whoever removes the file of a message has removed the message,   *)
(* or it was stored meanwhile.                                             *)
Removes(r, m) ==
    /\ req[r] # None
    /\ \/ req[r].step = "removeFile" /\ req[r].file = m /\ req[r].msg = m
       \/ /\ req[r].step \in {"sentFolder", "receivedFolder"}
          /\ PairOf[m] = {req[r].who, req[r].other}

FileInv ==
    /\ \A r \in Requests : NamedFile(req[r])
    /\ \A m \in Messages :
         Exists(m) /\ messages[m].file /\ m \notin lost => m \in files /\ \A r \in Requests : ~Removes(r, m)

(* A step that removes no file and nobody is led to remove one by.         *)
LEMMA FilesStay ==
    ASSUME ChatInv, FileInv, RowsKept, files \subseteq files', lost \subseteq lost',
           (\A x \in Requests : NamedFile(req[x]))',
           \A x \in Requests : \/ req'[x] = req[x]
                               \/ req'[x] # None /\ req'[x].step \notin {"removeFile", "sentFolder", "receivedFolder"}
    PROVE  FileInv'
<1> SUFFICES ASSUME NEW m \in Messages, messages'[m] # None, messages'[m].file, m \notin lost'
             PROVE  m \in files' /\ \A x \in Requests : ~(Removes(x, m)')
  BY DEF FileInv, Exists
<1>1. Exists(m) /\ messages[m].file /\ m \notin lost
  BY DEF RowsKept, SameBut
<1>2. m \in files /\ \A x \in Requests : ~Removes(x, m)
  BY <1>1 DEF FileInv
<1> QED
  BY <1>2 DEF Removes

LEMMA StoringKeepsFiles ==
    ASSUME ChatInv, FileInv, NEW r \in Requests, Stores(r)
    PROVE  FileInv'
<1> DEFINE m == req[r].msg
           u == req[r].who
           v == req[r].other
<1>1. /\ m \in Messages /\ u \in Users /\ v \in Users /\ PairOf[m] = {u, v}
      /\ lost' = IF m \in files /\ ~BeingRemoved(m) THEN lost ELSE lost \cup {m}
      /\ UNCHANGED <<files, fileOf>>
  BY CreateStores DEF Stores
<1>2. PICK row \in Message : messages' = [messages EXCEPT ![m] = row] /\ row.file = (fileOf[m] = <<u, v>>)
  BY CreateStores DEF Stores
<1>3. messages'[m] = row /\ \A n \in Messages : n # m => messages'[n] = messages[n]
  BY <1>1, <1>2 DEF ChatInv, TablesTyped
<1>4. PICK q \in Request : Becomes(r, q) /\ q.step = "announce"
  BY CreateStores DEF Stores
<1>5. req'[r] = q /\ \A x \in Requests : x # r => req'[x] = req[x]
  BY <1>4, BecomesTyped
<1>6. \A n \in Messages, x \in Requests : Removes(x, n)' => Removes(x, n)
  BY <1>4, <1>5 DEF Removes
<1>9. \A x \in Requests : NamedFile(req[x])'
  BY <1>1, <1>4, <1>5 DEF FileInv, NamedFile
<1> SUFFICES ASSUME NEW n \in Messages, messages'[n] # None, messages'[n].file, n \notin lost'
             PROVE  n \in files' /\ \A x \in Requests : ~(Removes(x, n)')
  BY <1>9 DEF FileInv, Exists
<1>7. CASE n = m
  <2>1. m \in files /\ ~BeingRemoved(m) /\ fileOf[m] = <<u, v>>
    BY <1>1, <1>2, <1>3, <1>7
  <2>2. ASSUME NEW x \in Requests, Removes(x, m) PROVE FALSE
    <3>1. req[x].step = "removeFile" /\ req[x].file = m => BeingRemoved(m)
      BY <2>2 DEF Removes, BeingRemoved
    <3>2. CASE req[x].step \in {"sentFolder", "receivedFolder"} /\ PairOf[m] = {req[x].who, req[x].other}
      <4>1. fileOf[m] \in {<<req[x].who, req[x].other>>, <<req[x].other, req[x].who>>}
        BY <1>1, <2>1, <3>2
      <4> QED
        BY <2>1, <2>2, <3>2, <4>1 DEF Removes, BeingRemoved
    <3> QED
      BY <2>1, <2>2, <3>1, <3>2 DEF Removes
  <2> QED
    BY <1>1, <1>6, <1>7, <2>1, <2>2
<1>8. CASE n # m
  BY <1>1, <1>3, <1>6, <1>8 DEF FileInv, Exists
<1> QED
  BY <1>7, <1>8

LEMMA RemovingKeepsFiles ==
    ASSUME ChatInv, FileInv, NEW r \in Requests, Removing(r)
    PROVE  FileInv'
<1>10. \A x \in Requests : NamedFile(req[x])'
  <2>1. OthersStay(r) /\ UNCHANGED fileOf
    BY RemovingSteps
  <2>2. NamedFile(req'[r])
    <3>1. req[r] # None
      BY DEF Removing, RemoveMessage, RemoveFile, DeleteConversation, RemoveFolder, At
    <3>2. CASE RemoveMessage(r)
      <4>1. PICK step \in {"removeFile", "announceDelete"} : Goto(r, step) /\ req[r].step = "remove"
        BY <3>2 DEF RemoveMessage, At
      <4>2. Continues(r, req'[r], step)
        BY <3>1, <4>1, GotoMoves DEF Steps
      <4> QED
        BY <3>1, <4>1, <4>2 DEF Continues, FileInv, NamedFile
    <3>3. CASE ~RemoveMessage(r)
      <4>1. PICK step \in {"announceDelete", "sentFolder", "receivedFolder", "announceState"} : Goto(r, step)
        BY <3>3 DEF Removing, RemoveFile, DeleteConversation, RemoveFolder, AfterWrite
      <4>2. Continues(r, req'[r], step)
        BY <3>1, <4>1, GotoMoves DEF Steps
      <4> QED
        BY <4>1, <4>2 DEF Continues, NamedFile
    <3> QED
      BY <3>2, <3>3
  <2> QED
    BY <2>1, <2>2 DEF OthersStay, FileInv, NamedFile
<1> SUFFICES ASSUME NEW m \in Messages, messages'[m] # None, messages'[m].file, m \notin lost'
             PROVE  m \in files' /\ \A x \in Requests : ~(Removes(x, m)')
  BY <1>10 DEF FileInv, Exists
<1>1. Exists(m) /\ messages[m].file /\ m \notin lost
  BY RemovingSteps DEF RowsKept, SameBut
<1>2. m \in files /\ \A x \in Requests : ~Removes(x, m)
  BY <1>1 DEF FileInv
<1>3. {messages[m].from, messages[m].to} = PairOf[m] /\ fileOf[m] = <<messages[m].from, messages[m].to>>
  BY <1>1 DEF ChatInv, MessageInv
<1>4. req[r] # None /\ RequestInv(req[r])
  BY DEF Removing, RemoveMessage, RemoveFile, DeleteConversation, RemoveFolder, At, ChatInv
<1>5. \A x \in Requests : x # r => ~(Removes(x, m)')
  BY <1>2, RemovingSteps DEF OthersStay, Removes
<1>6. CASE RemoveMessage(r)
  <2>1. m \in files'
    BY <1>2, <1>6 DEF RemoveMessage, others
  <2>2. CASE req[r].msg # m \/ req[r].file # m
    <3>1. PICK step \in {"removeFile", "announceDelete"} : Goto(r, step)
      BY <1>6 DEF RemoveMessage
    <3>2. Continues(r, req'[r], step)
      BY <1>4, <3>1, GotoMoves DEF Steps
    <3> QED
      BY <1>5, <2>1, <2>2, <3>1, <3>2 DEF Removes, Continues
  <2>3. CASE req[r].msg = m /\ req[r].file = m
    <3>4. fileOf[m] = <<req[r].who, req[r].other>>
      BY <1>4, <1>6, <2>3, ChatAssumption DEF RemoveMessage, At, FileInv, NamedFile
    <3>1. Sender(req[r].who, m)
      BY <1>1, <1>3, <3>4 DEF Sender
    <3>2. messages'[m] = None
      BY <1>6, <2>3, <3>1 DEF RemoveMessage, DeleteRows
    <3> QED
      BY <3>2
  <2> QED
    BY <2>2, <2>3
<1>7. CASE RemoveFile(r)
  <2>1. /\ req[r].step = "removeFile" /\ Goto(r, "announceDelete")
        /\ \/ /\ files' = files \ {req[r].file}
              /\ lost' = IF req[r].file = req[r].msg THEN lost ELSE lost \cup {req[r].file}
           \/ UNCHANGED files
    BY <1>7 DEF RemoveFile, At
  <2>2. req[r].file # m \/ UNCHANGED files
    BY <1>2, <1>4, <2>1 DEF Removes
  <2>3. Continues(r, req'[r], "announceDelete")
    BY <1>4, <2>1, GotoMoves DEF Steps
  <2> QED
    BY <1>2, <1>5, <2>1, <2>2, <2>3 DEF Removes, Continues
<1>8. CASE DeleteConversation(r)
  <2>1. Goto(r, "sentFolder") /\ UNCHANGED files /\ DeleteRows(Conversation(req[r].who, req[r].other))
    BY <1>8 DEF DeleteConversation, AfterWrite, others
  <2>2. Continues(r, req'[r], "sentFolder")
    BY <1>4, <2>1, GotoMoves DEF Steps
  <2>3. m \notin Conversation(req[r].who, req[r].other)
    BY <2>1 DEF DeleteRows
  <2>4. PairOf[m] # {req[r].who, req[r].other}
    BY <1>1, <1>3, <2>3 DEF Conversation
  <2> QED
    BY <1>2, <1>5, <2>1, <2>2, <2>4 DEF Removes, Continues
<1>9. CASE RemoveFolder(r)
  <2>1. PICK step \in {"receivedFolder", "announceState"} : Goto(r, step)
    BY <1>9 DEF RemoveFolder
  <2>2. Continues(r, req'[r], step)
    BY <1>4, <2>1, GotoMoves DEF Steps
  <2>3. PairOf[m] # {req[r].who, req[r].other}
    BY <1>2, <1>9 DEF RemoveFolder, Removes
  <2>4. fileOf[m] \notin {<<req[r].who, req[r].other>>, <<req[r].other, req[r].who>>}
    BY <1>3, <2>3
  <2>5. m \in files'
    BY <1>2, <1>9, <2>4 DEF RemoveFolder
  <2> QED
    BY <1>5, <2>1, <2>2, <2>3, <2>5 DEF Removes, Continues
<1> QED
  BY <1>6, <1>7, <1>8, <1>9 DEF Removing

LEMMA AroundKeepsFiles ==
    ASSUME ChatInv, FileInv, Around
    PROVE  FileInv'
<1>1. RowsKept /\ UNCHANGED req
  BY AroundSteps
<1>4. \A x \in Requests : NamedFile(req[x])'
  <2>1. \A n \in Messages : fileOf[n] # None => fileOf'[n] = fileOf[n]
    BY DEF Around, MarkAsRead, CreateUpload, EraseFiles, BlockOrUnblock, ForgetBlocks, HourPasses, Tick, others, ChatInv,
           AroundTyped
  <2> SUFFICES ASSUME NEW x \in Requests, req[x] # None, req[x].step \in {"remove", "removeFile"}, req[x].file # None
               PROVE  fileOf'[req[x].file] = <<req[x].who, req[x].other>>
    BY <1>1 DEF NamedFile
  <2>2. req[x].file \in Messages /\ <<req[x].who, req[x].other>> \in Users \X Users
    BY DEF ChatInv, RequestsTyped, Request
  <2>3. fileOf[req[x].file] = <<req[x].who, req[x].other>>
    BY DEF FileInv, NamedFile
  <2> QED
    BY <2>1, <2>2, <2>3, ChatAssumption
<1>2. CASE \E u \in Users : EraseFiles(u)
  <2>1. PICK gone \in SUBSET Messages : files' = files \ gone /\ lost' = lost \cup gone
    BY <1>2 DEF EraseFiles
  <2> SUFFICES ASSUME NEW m \in Messages, messages'[m] # None, messages'[m].file, m \notin lost'
               PROVE  m \in files' /\ \A x \in Requests : ~(Removes(x, m)')
    BY <1>4 DEF FileInv, Exists
  <2>2. Exists(m) /\ messages[m].file /\ m \notin lost /\ m \notin gone
    BY <1>1, <2>1 DEF RowsKept, SameBut
  <2> QED
    BY <1>1, <2>1, <2>2 DEF FileInv, Removes
<1>3. CASE ~\E u \in Users : EraseFiles(u)
  <2>1. files \subseteq files' /\ lost' = lost
    BY <1>3 DEF Around, MarkAsRead, CreateUpload, BlockOrUnblock, ForgetBlocks, HourPasses, Tick, others, history
  <2> QED
    BY <1>1, <1>4, <2>1, FilesStay
<1> QED
  BY <1>2, <1>3

LEMMA FilesAreKept ==
    ASSUME ChatInv, FileInv, MessagesNext
    PROVE  FileInv'
<1>1. ASSUME NEW r \in Requests,
             Looked(r) \/ AnnounceMessage(r) \/ UpdateText(r) \/ Tells(r) \/ Hide(r) \/ WriteState(r)
      PROVE  FileInv'
  <2>1. (\A x \in Requests : NamedFile(req[x]))'
    BY <1>1, QuietSteps DEF OthersStay, FileInv, NamedFile
  <2> QED
    BY <1>1, <2>1, QuietSteps, FilesStay DEF OthersStay
<1> QED
  BY <1>1, KindsOfSteps, StoringKeepsFiles, RemovingKeepsFiles, AroundKeepsFiles

-----------------------------------------------------------------------------
(* Pushes: each message that was stored and is still to be announced is    *)
(* owed one.                                                               *)
ToPush(m) == {r \in Requests : At(r, "announce") /\ req[r].flag /\ req[r].msg = m}

PushInv == \A m \in Messages : IsFiniteSet(ToPush(m)) /\ pushed[m] + Cardinality(ToPush(m)) <= stored[m]

LEMMA SmallerIsLess ==
    ASSUME NEW S, IsFiniteSet(S), NEW T \in SUBSET S, NEW p \in Nat, NEW s \in Nat, p + Cardinality(S) <= s
    PROVE  IsFiniteSet(T) /\ p + Cardinality(T) <= s
<1>1. IsFiniteSet(T) /\ Cardinality(T) <= Cardinality(S)
  BY FS_Subset
<1>2. Cardinality(T) \in Nat /\ Cardinality(S) \in Nat
  BY <1>1, FS_CardinalityType
<1> QED
  BY <1>1, <1>2

LEMMA PushesAreKept ==
    ASSUME ChatInv, PushInv, MessagesNext
    PROVE  PushInv'
<1>1. \A m \in Messages : stored[m] \in Nat /\ pushed[m] \in Nat
  BY DEF ChatInv, CountsTyped
<1>2. ASSUME UNCHANGED <<stored, pushed>>,
             \A x \in Requests : \/ req'[x] = req[x]
                                 \/ req'[x] # None /\ (req'[x].step = "announce" => ~req'[x].flag)
      PROVE  PushInv'
  <2> SUFFICES ASSUME NEW m \in Messages
               PROVE  IsFiniteSet(ToPush(m)') /\ pushed'[m] + Cardinality(ToPush(m)') <= stored'[m]
    BY DEF PushInv
  <2>1. ToPush(m)' \subseteq ToPush(m)
    BY <1>2 DEF ToPush, At
  <2>2. IsFiniteSet(ToPush(m)') /\ pushed[m] + Cardinality(ToPush(m)') <= stored[m]
    BY <1>1, <2>1, SmallerIsLess DEF PushInv
  <2> QED
    BY <1>2, <2>2
<1>3. ASSUME NEW r \in Requests, Stores(r) PROVE PushInv'
  <2>0. PICK m \in Messages : m = req[r].msg
    BY <1>3, CreateStores DEF Stores
  <2>1. stored' = [stored EXCEPT ![m] = @ + 1] /\ UNCHANGED pushed
    BY <1>3, <2>0, CreateStores DEF Stores
  <2>2. PICK q \in Request : Becomes(r, q) /\ q.step = "announce" /\ q.flag /\ q.msg = m
    BY <1>3, <2>0, CreateStores DEF Stores
  <2>3. req'[r] = q /\ q # None /\ \A x \in Requests : x # r => req'[x] = req[x]
    BY <2>2, BecomesTyped
  <2>4. r \notin ToPush(m)
    BY <1>3 DEF Stores, CreateMessage, At, ToPush
  <2>5. ToPush(m)' = ToPush(m) \cup {r}
    BY <2>2, <2>3 DEF ToPush, At
  <2>6. IsFiniteSet(ToPush(m)) /\ pushed[m] + Cardinality(ToPush(m)) <= stored[m]
    BY <2>1 DEF PushInv
  <2>7. IsFiniteSet(ToPush(m)') /\ Cardinality(ToPush(m)') = Cardinality(ToPush(m)) + 1
    BY <2>4, <2>5, <2>6, FS_AddElement
  <2>8. pushed[m] + (Cardinality(ToPush(m)) + 1) <= stored[m] + 1
    <3>1. Cardinality(ToPush(m)) \in Nat
      BY <2>6, FS_CardinalityType
    <3> QED
      BY <1>1, <2>1, <2>6, <3>1
  <2>9. stored'[m] = stored[m] + 1 /\ \A n \in Messages : n # m => stored'[n] = stored[n]
    BY <2>1 DEF ChatInv, CountsTyped
  <2>10. ASSUME NEW n \in Messages, n # m
         PROVE  IsFiniteSet(ToPush(n)') /\ pushed'[n] + Cardinality(ToPush(n)') <= stored'[n]
    <3>1. ToPush(n)' \subseteq ToPush(n)
      BY <2>2, <2>3, <2>10 DEF ToPush, At
    <3>2. IsFiniteSet(ToPush(n)') /\ pushed[n] + Cardinality(ToPush(n)') <= stored[n]
      BY <1>1, <3>1, SmallerIsLess DEF PushInv
    <3> QED
      BY <2>1, <2>9, <2>10, <3>2
  <2>11. IsFiniteSet(ToPush(m)') /\ pushed'[m] + Cardinality(ToPush(m)') <= stored'[m]
    BY <2>1, <2>7, <2>8, <2>9
  <2> QED
    BY <2>10, <2>11 DEF PushInv
<1>4. ASSUME NEW r \in Requests, AnnounceMessage(r) PROVE PushInv'
  <2>0. PICK m \in Messages : m = req[r].msg
    BY <1>4 DEF AnnounceMessage, At, ChatInv, RequestInv, AboutMessage
  <2>1. /\ At(r, "announce")
        /\ pushed' = IF req[r].flag THEN [pushed EXCEPT ![m] = @ + 1] ELSE pushed
        /\ UNCHANGED stored
    BY <1>4, <2>0 DEF AnnounceMessage, Pushes
  <2>3. OthersStay(r) /\ req'[r] # None /\ (req'[r].step = "announce" => ~req'[r].flag)
    BY <1>4, QuietSteps
  <2>4. CASE ~req[r].flag
    BY <1>2, <2>1, <2>3, <2>4 DEF OthersStay
  <2>5. CASE req[r].flag
    <3>1. r \in ToPush(m) /\ ToPush(m)' = ToPush(m) \ {r}
      BY <2>0, <2>1, <2>3, <2>5 DEF ToPush, At, OthersStay
    <3>2. IsFiniteSet(ToPush(m)) /\ pushed[m] + Cardinality(ToPush(m)) <= stored[m]
      BY DEF PushInv
    <3>3. IsFiniteSet(ToPush(m)') /\ Cardinality(ToPush(m)') = Cardinality(ToPush(m)) - 1
      BY <3>1, <3>2, FS_RemoveElement
    <3>4. (pushed[m] + 1) + (Cardinality(ToPush(m)) - 1) <= stored[m]
      <4>1. Cardinality(ToPush(m)) \in Nat
        BY <3>2, FS_CardinalityType
      <4> QED
        BY <1>1, <3>2, <4>1
    <3>5. pushed'[m] = pushed[m] + 1 /\ \A n \in Messages : n # m => pushed'[n] = pushed[n]
      BY <2>1, <2>5 DEF ChatInv, CountsTyped
    <3>6. ASSUME NEW n \in Messages, n # m
          PROVE  IsFiniteSet(ToPush(n)') /\ pushed'[n] + Cardinality(ToPush(n)') <= stored'[n]
      <4>1. ToPush(n)' \subseteq ToPush(n)
        BY <2>3 DEF ToPush, At, OthersStay
      <4>2. IsFiniteSet(ToPush(n)') /\ pushed[n] + Cardinality(ToPush(n)') <= stored[n]
        BY <1>1, <4>1, SmallerIsLess DEF PushInv
      <4> QED
        BY <2>1, <3>5, <3>6, <4>2
    <3>7. IsFiniteSet(ToPush(m)') /\ pushed'[m] + Cardinality(ToPush(m)') <= stored'[m]
      BY <2>1, <3>3, <3>4, <3>5
    <3> QED
      BY <3>6, <3>7 DEF PushInv
  <2> QED
    BY <2>4, <2>5
<1>5. ASSUME NEW r \in Requests, Looked(r) \/ UpdateText(r) \/ Tells(r) \/ Hide(r) \/ WriteState(r)
      PROVE  PushInv'
  <2>1. UNCHANGED pushed
    BY <1>5 DEF Looked, UpdateText, Tells, NotifyMessageEdited, NotifyMessageDeleted, NotifyConversationChanged,
                Hide, WriteState, history
  <2> QED
    BY <1>2, <1>5, <2>1, QuietSteps DEF OthersStay
<1>6. ASSUME NEW r \in Requests, Removing(r) PROVE PushInv'
  BY <1>2, <1>6, RemovingSteps DEF OthersStay
<1>7. CASE Around
  BY <1>2, <1>7, AroundSteps
<1> QED
  BY <1>3, <1>4, <1>5, <1>6, <1>7, KindsOfSteps

-----------------------------------------------------------------------------
(* What devices show.  A request wipes a message from the devices of a     *)
(* person, or has reworded it, and is still to tell them.                  *)
Wipes(r, u, m) ==
    /\ req[r] # None
    /\ \/ /\ req[r].step \in {"removeFile", "announceDelete"}
          /\ req[r].msg = m
          /\ req[r].flag \/ req[r].who = u
       \/ /\ req[r].step \in {"sentFolder", "receivedFolder", "announceState"}
          /\ PairOf[m] = {req[r].who, req[r].other}
          /\ req[r].op = "deleteAll" \/ (req[r].op = "clear" /\ req[r].who = u)

Rewords(r, m) ==
    /\ req[r] # None
    /\ req[r].step \in {"reread", "announceEdit"}
    /\ req[r].msg = m

(* What is shown is right, or will be put right, or the last word on it    *)
(* was overtaken.                                                          *)
Right(u, m) ==
    \/ m \in behind
    \/ \E r \in Requests : Wipes(r, u, m)
    \/ /\ Exists(m) /\ ~Removed(u, m)
       /\ messages[m].text = shown[u][m] \/ \E r \in Requests : Rewords(r, m)

ShowInv == \A u \in Users, m \in Messages : shown[u][m] # None => u \in PairOf[m] /\ Right(u, m)

(* A message is not removed by what leaves it and its person's rows alone. *)
LEMMA StaysThere ==
    ASSUME ChatInv, NEW u \in Users, NEW m \in Messages, Exists(m), ~Removed(u, m),
           messages'[m] # None, SameBut(messages[m], messages'[m]),
           <<u, m>> \in hiddenFrom' => <<u, m>> \in hiddenFrom,
           \A p \in Pairs : p[1] = u /\ {p[1], p[2]} = PairOf[m] => cleared'[p] = cleared[p]
    PROVE  ~(Removed(u, m)')
<1> SUFFICES ASSUME Removed(u, m)' PROVE FALSE
  OBVIOUS
<1>1. {messages[m].from, messages[m].to} = PairOf[m]
  BY DEF ChatInv, MessageInv
<1>2. CASE <<u, m>> \in hiddenFrom'
  BY <1>2 DEF Removed
<1>3. CASE \E p \in Pairs : p[1] = u /\ m \in Conversation(u, p[2])' /\ messages'[m].at <= cleared'[p]
  <2>1. PICK p \in Pairs : p[1] = u /\ m \in Conversation(u, p[2])' /\ messages'[m].at <= cleared'[p]
    BY <1>3
  <2>2. {messages'[m].from, messages'[m].to} = {u, p[2]}
    BY <2>1 DEF Conversation
  <2>3. {messages[m].from, messages[m].to} = {u, p[2]} /\ messages'[m].at = messages[m].at
    BY <2>2 DEF SameBut
  <2>4. m \in Conversation(u, p[2]) /\ cleared'[p] = cleared[p]
    BY <1>1, <2>1, <2>3 DEF Conversation
  <2> QED
    BY <2>1, <2>3, <2>4 DEF Removed
<1> QED
  BY <1>2, <1>3 DEF Removed

LEMMA StaysRight ==
    ASSUME ChatInv, NEW u \in Users, NEW m \in Messages, Right(u, m),
           shown'[u][m] = shown[u][m], behind \subseteq behind',
           \A x \in Requests : Wipes(x, u, m) => Wipes(x, u, m)',
           \/ \E x \in Requests : Wipes(x, u, m)'
           \/ /\ Exists(m) => messages'[m] # None /\ SameBut(messages[m], messages'[m])
              /\ Exists(m) => messages'[m].text = messages[m].text \/ \E x \in Requests : Rewords(x, m)'
              /\ \A x \in Requests : Rewords(x, m) /\ Exists(m) => Rewords(x, m)'
              /\ <<u, m>> \in hiddenFrom' => <<u, m>> \in hiddenFrom
              /\ \A p \in Pairs : p[1] = u /\ {p[1], p[2]} = PairOf[m] => cleared'[p] = cleared[p]
    PROVE  Right(u, m)'
<1>1. CASE m \in behind \/ \E x \in Requests : Wipes(x, u, m)
  BY <1>1 DEF Right
<1>2. CASE /\ Exists(m) /\ ~Removed(u, m)
           /\ messages[m].text = shown[u][m] \/ \E r \in Requests : Rewords(r, m)
  <2>1. CASE \E x \in Requests : Wipes(x, u, m)'
    BY <2>1 DEF Right
  <2>2. CASE ~\E x \in Requests : Wipes(x, u, m)'
    <3>1. messages'[m] # None /\ ~(Removed(u, m)')
      BY <1>2, <2>2, StaysThere
    <3>2. messages'[m].text = shown'[u][m] \/ \E r \in Requests : Rewords(r, m)'
      BY <1>2, <2>2
    <3> QED
      BY <3>1, <3>2 DEF Right, Exists
  <2> QED
    BY <2>1, <2>2
<1> QED
  BY <1>1, <1>2 DEF Right

(* A step that leaves what is stored, and whose request had nothing to     *)
(* tell.                                                                   *)
LEMMA RestStaysRight ==
    ASSUME ChatInv, NEW u \in Users, NEW m \in Messages, Right(u, m), NEW r \in Requests, OthersStay(r),
           ~Wipes(r, u, m), Rewords(r, m) /\ Exists(m) => Rewords(r, m)',
           shown'[u][m] = shown[u][m], behind \subseteq behind',
           messages'[m] = messages[m], UNCHANGED <<hiddenFrom, cleared>>
    PROVE  Right(u, m)'
<1>1. \A x \in Requests : Wipes(x, u, m) => Wipes(x, u, m)'
  BY DEF OthersStay, Wipes
<1>2. \A x \in Requests : Rewords(x, m) /\ Exists(m) => Rewords(x, m)'
  BY DEF OthersStay, Rewords
<1>3. Exists(m) => messages'[m] # None /\ SameBut(messages[m], messages'[m])
  BY DEF Exists, SameBut
<1> QED
  BY <1>1, <1>2, <1>3, StaysRight

LEMMA LookedKeepsShown ==
    ASSUME ChatInv, ShowInv, NEW r \in Requests, Looked(r)
    PROVE  ShowInv'
<1> SUFFICES ASSUME NEW u \in Users, NEW m \in Messages, shown'[u][m] # None
             PROVE  u \in PairOf[m] /\ Right(u, m)'
  BY DEF ShowInv
<1>1. UNCHANGED <<messages, hiddenFrom, cleared, shown, behind>>
  BY DEF Looked, tables, history
<1>2. OthersStay(r) /\ req'[r] # None /\ LooksTo(req[r], req'[r])
  BY LookedMoves
<1>3. u \in PairOf[m] /\ Right(u, m)
  BY <1>1 DEF ShowInv
<1>4. ~Wipes(r, u, m)
  BY <1>2 DEF LooksTo, Wipes
<1>5. Rewords(r, m) /\ Exists(m) => Rewords(r, m)'
  BY <1>2 DEF LooksTo, Rewords
<1> QED
  BY <1>1, <1>2, <1>3, <1>4, <1>5, RestStaysRight

LEMMA StoringKeepsShown ==
    ASSUME ChatInv, ShowInv, NEW r \in Requests, Stores(r)
    PROVE  ShowInv'
<1> SUFFICES ASSUME NEW u \in Users, NEW m \in Messages, shown'[u][m] # None
             PROVE  u \in PairOf[m] /\ Right(u, m)'
  BY DEF ShowInv
<1>1. req[r] # None /\ req[r].step = "create" /\ ~Exists(req[r].msg) /\ UNCHANGED <<hiddenFrom, cleared, shown, behind>>
  BY CreateStores DEF Stores, CreateMessage, At
<1>2. PICK q \in Request : Becomes(r, q)
  BY CreateStores DEF Stores
<1>3. OthersStay(r)
  BY <1>2, BecomesTyped DEF OthersStay
<1>4. PICK row : messages' = [messages EXCEPT ![req[r].msg] = row]
  BY CreateStores DEF Stores
<1>5. u \in PairOf[m] /\ Right(u, m)
  BY <1>1 DEF ShowInv
<1>6. ~Wipes(r, u, m) /\ ~Rewords(r, m)
  BY <1>1 DEF Wipes, Rewords
<1>7. CASE m = req[r].msg
  <2>1. m \in behind \/ \E x \in Requests : Wipes(x, u, m)
    BY <1>1, <1>5, <1>7 DEF Right
  <2>2. m \in behind' \/ \E x \in Requests : Wipes(x, u, m)'
    BY <1>1, <1>3, <1>6, <2>1 DEF Wipes, OthersStay
  <2> QED
    BY <1>5, <2>2 DEF Right
<1>8. CASE m # req[r].msg
  <2>1. messages'[m] = messages[m]
    BY <1>4, <1>8 DEF ChatInv, TablesTyped
  <2> QED
    BY <1>1, <1>3, <1>5, <1>6, <2>1, RestStaysRight
<1> QED
  BY <1>7, <1>8

(* What a device is told is right, or marked as overtaken.                 *)
LEMMA ToldIsRight ==
    ASSUME ChatInv, NEW us, NEW u \in us, u \in Users, NEW m \in Messages, NEW text,
           shown'[u][m] = text, behind' = Behind(us, m, text), UNCHANGED <<messages, hiddenFrom, cleared>>
    PROVE  Right(u, m)'
<1>1. CASE Exists(m) /\ messages[m].text = text /\ \A w \in us : ~Removed(w, m)
  <2>1. ~(Removed(u, m)')
    BY <1>1 DEF Removed, Conversation, Exists
  <2> QED
    BY <1>1, <2>1 DEF Right, Exists
<1>2. CASE ~(Exists(m) /\ messages[m].text = text /\ \A w \in us : ~Removed(w, m))
  BY <1>2 DEF Behind, Right
<1> QED
  BY <1>1, <1>2

LEMMA AnnouncingKeepsShown ==
    ASSUME ChatInv, ShowInv, NEW r \in Requests, AnnounceMessage(r)
    PROVE  ShowInv'
<1> SUFFICES ASSUME NEW u \in Users, NEW m \in Messages, shown'[u][m] # None
             PROVE  u \in PairOf[m] /\ Right(u, m)'
  BY DEF ShowInv
<1>1. PICK n \in Messages : n = req[r].msg
  BY DEF AnnounceMessage, At, ChatInv, RequestInv, AboutMessage
<1> DEFINE both == {req[r].who, req[r].other}
<1>2. /\ req[r] # None /\ req[r].step = "announce" /\ PairOf[n] = both
      /\ Show(both, n, req[r].text)
      /\ behind' = Behind(both, n, req[r].text)
      /\ UNCHANGED <<messages, hiddenFrom, cleared>>
  BY <1>1 DEF AnnounceMessage, At, ChatInv, RequestInv, AboutMessage, tables
<1>3. OthersStay(r)
  BY QuietSteps
<1>4. CASE m = n /\ u \in both
  <2>1. shown'[u][m] = req[r].text
    BY <1>2, <1>4 DEF Show, ChatInv, ScreensTyped
  <2> QED
    BY <1>2, <1>4, <2>1, ToldIsRight
<1>5. CASE ~(m = n /\ u \in both)
  <2>1. shown'[u][m] = shown[u][m]
    BY <1>2, <1>5 DEF Show, ChatInv, ScreensTyped
  <2>2. behind \subseteq behind'
    BY <1>2 DEF Behind
  <2>3. ~Wipes(r, u, m) /\ ~Rewords(r, m)
    BY <1>2 DEF Wipes, Rewords
  <2> QED
    BY <1>2, <1>3, <2>1, <2>2, <2>3, RestStaysRight DEF ShowInv
<1> QED
  BY <1>4, <1>5

LEMMA UpdatingKeepsShown ==
    ASSUME ChatInv, ShowInv, NEW r \in Requests, UpdateText(r)
    PROVE  ShowInv'
<1> SUFFICES ASSUME NEW u \in Users, NEW m \in Messages, shown'[u][m] # None
             PROVE  u \in PairOf[m] /\ Right(u, m)'
  BY DEF ShowInv
<1>1. req[r] # None /\ req[r].step = "update" /\ UNCHANGED <<hiddenFrom, cleared, shown, behind>>
  BY DEF UpdateText, At, history
<1>2. u \in PairOf[m] /\ Right(u, m)
  BY <1>1 DEF ShowInv
<1>3. ~Wipes(r, u, m) /\ ~Rewords(r, m)
  BY <1>1 DEF Wipes, Rewords
<1>4. OthersStay(r) /\ RowsKept
  BY QuietSteps
<1>5. CASE messages'[m] = messages[m]
  BY <1>1, <1>2, <1>3, <1>4, <1>5, RestStaysRight
<1>6. CASE messages'[m] # messages[m]
  <2>1. /\ req[r].msg = m /\ Exists(m) /\ Goto(r, "reread")
        /\ messages' = [messages EXCEPT ![m].text = req[r].text]
    BY <1>6 DEF UpdateText, Sender, ChatInv, TablesTyped
  <2>2. req'[r] # None /\ Continues(r, req'[r], "reread")
    BY <1>1, <2>1, GotoMoves DEF Steps
  <2>3. Rewords(r, m)'
    BY <2>1, <2>2 DEF Rewords, Continues
  <2>4. messages'[m] # None
    <3>1. req[r].text \in 0..MaxText
      BY <1>1 DEF ChatInv, RequestsTyped, Request
    <3>2. messages[m] \in Message
      BY <2>1 DEF Exists, ChatInv, TablesTyped
    <3>3. messages'[m] = [messages[m] EXCEPT !.text = req[r].text]
      BY <2>1 DEF ChatInv, TablesTyped
    <3>4. messages'[m] \in Message
      BY <3>1, <3>2, <3>3 DEF Message
    <3> QED
      BY <3>4, ChatAssumption
  <2>5. SameBut(messages[m], messages'[m])
    BY <1>4, <2>4 DEF RowsKept
  <2>6. \A x \in Requests : Wipes(x, u, m) => Wipes(x, u, m)'
    BY <1>3, <1>4 DEF OthersStay, Wipes
  <2>7. \A x \in Requests : Rewords(x, m) /\ Exists(m) => Rewords(x, m)'
    BY <1>3, <1>4 DEF OthersStay, Rewords
  <2> QED
    BY <1>1, <1>2, <2>3, <2>4, <2>5, <2>6, <2>7, StaysRight
<1> QED
  BY <1>5, <1>6

LEMMA TellingKeepsShown ==
    ASSUME ChatInv, ShowInv, NEW r \in Requests, Tells(r)
    PROVE  ShowInv'
<1> SUFFICES ASSUME NEW u \in Users, NEW m \in Messages, shown'[u][m] # None
             PROVE  u \in PairOf[m] /\ Right(u, m)'
  BY DEF ShowInv
<1>1. OthersStay(r)
  BY QuietSteps
<1>2. req[r] # None /\ RequestInv(req[r]) /\ UNCHANGED <<messages, hiddenFrom, cleared>>
  BY DEF Tells, NotifyMessageEdited, NotifyMessageDeleted, NotifyConversationChanged, At, tables, ChatInv
<1>3. CASE NotifyMessageEdited(r)
  <2>1. PICK n \in Messages : n = req[r].msg
    BY <1>2, <1>3 DEF NotifyMessageEdited, At, RequestInv, AboutMessage
  <2> DEFINE us == {w \in {req[r].who, req[r].other} : shown[w][n] # None}
  <2>2. /\ req[r].step = "announceEdit" /\ PairOf[n] = {req[r].who, req[r].other}
        /\ Show(us, n, req[r].text) /\ behind' = Behind(us, n, req[r].text)
    BY <1>2, <1>3, <2>1 DEF NotifyMessageEdited, At, RequestInv, AboutMessage
  <2>3. behind \subseteq behind'
    BY <2>2 DEF Behind
  <2>4. CASE m = n /\ u \in us
    <3>1. shown'[u][m] = req[r].text
      BY <2>2, <2>4 DEF Show, ChatInv, ScreensTyped
    <3> QED
      BY <1>2, <2>2, <2>4, <3>1, ToldIsRight
  <2>5. CASE ~(m = n /\ u \in us)
    <3>1. shown'[u][m] = shown[u][m]
      BY <2>2, <2>5 DEF Show, ChatInv, ScreensTyped
    <3>2. u \in PairOf[m] /\ Right(u, m)
      BY <3>1 DEF ShowInv
    <3>3. m # n
      BY <2>2, <2>5, <3>1, <3>2
    <3>4. ~Wipes(r, u, m) /\ ~Rewords(r, m)
      BY <2>1, <2>2, <3>3 DEF Wipes, Rewords
    <3> QED
      BY <1>1, <1>2, <2>3, <3>1, <3>2, <3>4, RestStaysRight
  <2> QED
    BY <2>4, <2>5
<1>4. CASE NotifyMessageDeleted(r)
  <2>1. PICK n \in Messages : n = req[r].msg
    BY <1>2, <1>4 DEF NotifyMessageDeleted, At, RequestInv, AboutMessage
  <2>2. /\ req[r].step = "announceDelete" /\ PairOf[n] = {req[r].who, req[r].other}
        /\ Show(ToldOf(r), n, None) /\ UNCHANGED behind
    BY <1>2, <1>4, <2>1 DEF NotifyMessageDeleted, At, RequestInv, AboutMessage, history
  <2>3. ~(m = n /\ u \in ToldOf(r)) /\ shown'[u][m] = shown[u][m]
    BY <2>2 DEF Show, ChatInv, ScreensTyped
  <2>4. u \in PairOf[m] /\ Right(u, m)
    BY <2>3 DEF ShowInv
  <2>5. ~Wipes(r, u, m)
    BY <2>1, <2>2, <2>3, <2>4 DEF Wipes, ToldOf
  <2>6. ~Rewords(r, m)
    BY <2>2 DEF Rewords
  <2> QED
    BY <1>1, <1>2, <2>2, <2>3, <2>4, <2>5, <2>6, RestStaysRight
<1>5. CASE NotifyConversationChanged(r)
  <2> DEFINE toldOf == IF req[r].op = "clear" THEN {req[r].who}
                       ELSE IF req[r].op = "deleteAll" THEN {req[r].who, req[r].other} ELSE {}
  <2>1. /\ req[r].step = "announceState" /\ UNCHANGED behind
        /\ shown' = [x \in Users |-> [n \in Messages |->
             IF x \in toldOf /\ PairOf[n] = {req[r].who, req[r].other} THEN None ELSE shown[x][n]]]
    BY <1>5 DEF NotifyConversationChanged, At, history
  <2>2. ~(u \in toldOf /\ PairOf[m] = {req[r].who, req[r].other}) /\ shown'[u][m] = shown[u][m]
    BY <2>1
  <2>3. u \in PairOf[m] /\ Right(u, m)
    BY <2>2 DEF ShowInv
  <2>4. ~Wipes(r, u, m)
    BY <2>1, <2>2, <2>3 DEF Wipes
  <2>5. ~Rewords(r, m)
    BY <2>1 DEF Rewords
  <2> QED
    BY <1>1, <1>2, <2>1, <2>2, <2>3, <2>4, <2>5, RestStaysRight
<1> QED
  BY <1>3, <1>4, <1>5 DEF Tells

(* What is hidden is wiped next.                                           *)
LEMMA HidingKeepsShown ==
    ASSUME ChatInv, ShowInv, NEW r \in Requests, Hide(r)
    PROVE  ShowInv'
<1> SUFFICES ASSUME NEW u \in Users, NEW m \in Messages, shown'[u][m] # None
             PROVE  u \in PairOf[m] /\ Right(u, m)'
  BY DEF ShowInv
<1>1. req[r] # None /\ req[r].step = "hide" /\ UNCHANGED <<messages, cleared, shown, behind>>
  BY DEF Hide, At, others, history
<1>2. u \in PairOf[m] /\ Right(u, m)
  BY <1>1 DEF ShowInv
<1>3. ~Wipes(r, u, m) /\ ~Rewords(r, m)
  BY <1>1 DEF Wipes, Rewords
<1>4. OthersStay(r)
  BY QuietSteps
<1>5. /\ \A x \in Requests : Wipes(x, u, m) => Wipes(x, u, m)'
      /\ \A x \in Requests : Rewords(x, m) => Rewords(x, m)'
  BY <1>3, <1>4 DEF OthersStay, Wipes, Rewords
<1>6. CASE <<u, m>> \in hiddenFrom' => <<u, m>> \in hiddenFrom
  <2>1. Exists(m) => messages'[m] # None /\ SameBut(messages[m], messages'[m]) /\ messages'[m].text = messages[m].text
    BY <1>1 DEF SameBut, Exists
  <2> QED
    BY <1>1, <1>2, <1>5, <1>6, <2>1, StaysRight
<1>7. CASE <<u, m>> \in hiddenFrom' /\ <<u, m>> \notin hiddenFrom
  <2>1. req[r].who = u /\ req[r].msg = m /\ Goto(r, "announceDelete")
    BY <1>7 DEF Hide
  <2>2. req'[r] # None /\ Continues(r, req'[r], "announceDelete")
    BY <1>1, <2>1, GotoMoves DEF Steps
  <2>3. Wipes(r, u, m)'
    BY <2>1, <2>2 DEF Wipes, Continues
  <2> QED
    BY <1>2, <2>3 DEF Right
<1> QED
  BY <1>6, <1>7

(* And so is what is cleared.                                              *)
LEMMA WritingKeepsShown ==
    ASSUME ChatInv, ShowInv, NEW r \in Requests, WriteState(r)
    PROVE  ShowInv'
<1> SUFFICES ASSUME NEW u \in Users, NEW m \in Messages, shown'[u][m] # None
             PROVE  u \in PairOf[m] /\ Right(u, m)'
  BY DEF ShowInv
<1>1. req[r] # None /\ req[r].step = "write" /\ UNCHANGED <<messages, hiddenFrom, shown, behind>>
  BY DEF WriteState, At, others, history
<1>2. u \in PairOf[m] /\ Right(u, m)
  BY <1>1 DEF ShowInv
<1>3. ~Wipes(r, u, m) /\ ~Rewords(r, m)
  BY <1>1 DEF Wipes, Rewords
<1>4. OthersStay(r)
  BY QuietSteps
<1>5. /\ \A x \in Requests : Wipes(x, u, m) => Wipes(x, u, m)'
      /\ \A x \in Requests : Rewords(x, m) => Rewords(x, m)'
  BY <1>3, <1>4 DEF OthersStay, Wipes, Rewords
<1>6. CASE \A p \in Pairs : p[1] = u /\ {p[1], p[2]} = PairOf[m] => cleared'[p] = cleared[p]
  <2>1. Exists(m) => messages'[m] # None /\ SameBut(messages[m], messages'[m]) /\ messages'[m].text = messages[m].text
    BY <1>1 DEF SameBut, Exists
  <2> QED
    BY <1>1, <1>2, <1>5, <1>6, <2>1, StaysRight
<1>7. CASE \E p \in Pairs : p[1] = u /\ {p[1], p[2]} = PairOf[m] /\ cleared'[p] # cleared[p]
  <2>1. PICK p \in Pairs : p[1] = u /\ {p[1], p[2]} = PairOf[m] /\ cleared'[p] # cleared[p]
    BY <1>7
  <2>2. req[r].op = "clear" /\ p = <<req[r].who, req[r].other>>
    BY <2>1 DEF WriteState, ChatInv, TablesTyped
  <2>3. Goto(r, "announceState")
    BY DEF WriteState, AfterWrite
  <2>4. req'[r] # None /\ Continues(r, req'[r], "announceState")
    BY <1>1, <2>3, GotoMoves DEF Steps
  <2>5. Wipes(r, u, m)'
    BY <2>1, <2>2, <2>4 DEF Wipes, Continues
  <2> QED
    BY <1>2, <2>5 DEF Right
<1> QED
  BY <1>6, <1>7

(* And what is deleted.                                                    *)
LEMMA RemovingKeepsShown ==
    ASSUME ChatInv, ShowInv, NEW r \in Requests, Removing(r)
    PROVE  ShowInv'
<1> SUFFICES ASSUME NEW u \in Users, NEW m \in Messages, shown'[u][m] # None
             PROVE  u \in PairOf[m] /\ Right(u, m)'
  BY DEF ShowInv
<1>1. OthersStay(r)
  BY RemovingSteps
<1>2. req[r] # None /\ RequestInv(req[r]) /\ UNCHANGED <<shown, behind>>
  BY DEF Removing, RemoveMessage, RemoveFile, DeleteConversation, RemoveFolder, At, ChatInv, others, history
<1>3. u \in PairOf[m] /\ Right(u, m)
  BY <1>2 DEF ShowInv
<1>4. CASE RemoveMessage(r)
  <2>1. PICK n \in Messages : n = req[r].msg
    BY <1>2, <1>4 DEF RemoveMessage, At, RequestInv, AboutMessage
  <2>2. req[r].step = "remove" /\ req[r].flag /\ UNCHANGED cleared
    BY <1>2, <1>4 DEF RemoveMessage, At, RequestInv
  <2>3. PICK step \in {"removeFile", "announceDelete"} : Goto(r, step)
    BY <1>4 DEF RemoveMessage
  <2>4. req'[r] # None /\ Continues(r, req'[r], step)
    BY <1>2, <2>3, GotoMoves DEF Steps
  <2>5. CASE m = n
    <3>1. Wipes(r, u, m)'
      BY <2>1, <2>2, <2>3, <2>4, <2>5 DEF Wipes, Continues
    <3> QED
      BY <1>3, <3>1 DEF Right
  <2>6. CASE m # n
    <3>1. PICK gone \in SUBSET {n} : DeleteRows(gone)
      BY <1>4, <2>1 DEF RemoveMessage
    <3>2. /\ hiddenFrom' \subseteq hiddenFrom
          /\ Exists(m) => SameBut(messages[m], messages'[m]) /\ messages'[m].text = messages[m].text
      BY <2>6, <3>1, DeletingRows
    <3>3. /\ \A x \in Requests : Wipes(x, u, m) => Wipes(x, u, m)'
          /\ \A x \in Requests : Rewords(x, m) => Rewords(x, m)'
      BY <1>1, <2>2 DEF OthersStay, Wipes, Rewords
    <3> QED
      BY <1>2, <1>3, <2>2, <3>2, <3>3, StaysRight DEF SameBut
  <2> QED
    BY <2>5, <2>6
<1>5. CASE RemoveFile(r)
  <2>1. req[r].step = "removeFile" /\ Goto(r, "announceDelete") /\ UNCHANGED <<messages, hiddenFrom, cleared>>
    BY <1>5 DEF RemoveFile, At, tables
  <2>2. req'[r] # None /\ Continues(r, req'[r], "announceDelete")
    BY <1>2, <2>1, GotoMoves DEF Steps
  <2>3. /\ \A x \in Requests : Wipes(x, u, m) => Wipes(x, u, m)'
        /\ \A x \in Requests : Rewords(x, m) => Rewords(x, m)'
    BY <1>1, <2>1, <2>2 DEF OthersStay, Wipes, Rewords, Continues
  <2>4. Exists(m) => messages'[m] # None /\ SameBut(messages[m], messages'[m]) /\ messages'[m].text = messages[m].text
    BY <2>1 DEF SameBut, Exists
  <2> QED
    BY <1>2, <1>3, <2>1, <2>3, <2>4, StaysRight
<1>6. CASE DeleteConversation(r)
  <2>1. req[r].step = "write" /\ req[r].op = "deleteAll"
    BY <1>6 DEF DeleteConversation, At
  <2>2. Goto(r, "sentFolder")
    BY <1>6 DEF DeleteConversation, AfterWrite
  <2>3. req'[r] # None /\ Continues(r, req'[r], "sentFolder")
    BY <1>2, <2>2, GotoMoves DEF Steps
  <2>4. CASE PairOf[m] = {req[r].who, req[r].other}
    <3>1. Wipes(r, u, m)'
      BY <2>1, <2>3, <2>4 DEF Wipes, Continues
    <3> QED
      BY <1>3, <3>1 DEF Right
  <2>5. CASE PairOf[m] # {req[r].who, req[r].other}
    <3>1. PICK gone \in SUBSET Messages : DeleteRows(gone) /\ gone = Conversation(req[r].who, req[r].other)
      BY <1>6 DEF DeleteConversation, Conversation
    <3>2. m \notin gone
      BY <2>5, <3>1 DEF Conversation, ChatInv, MessageInv
    <3>3. /\ hiddenFrom' \subseteq hiddenFrom
          /\ Exists(m) => SameBut(messages[m], messages'[m]) /\ messages'[m].text = messages[m].text
      BY <3>1, <3>2, DeletingRows
    <3>4. /\ \A x \in Requests : Wipes(x, u, m) => Wipes(x, u, m)'
          /\ \A x \in Requests : Rewords(x, m) => Rewords(x, m)'
      BY <1>1, <2>1 DEF OthersStay, Wipes, Rewords
    <3>5. \A p \in Pairs : p[1] = u /\ {p[1], p[2]} = PairOf[m] => cleared'[p] = cleared[p]
      BY <1>6, <2>5 DEF DeleteConversation
    <3> QED
      BY <1>2, <1>3, <3>3, <3>4, <3>5, StaysRight DEF SameBut
  <2> QED
    BY <2>4, <2>5
<1>7. CASE RemoveFolder(r)
  <2>1. req[r].step \in {"sentFolder", "receivedFolder"} /\ UNCHANGED <<messages, hiddenFrom, cleared>>
    BY <1>7 DEF RemoveFolder, tables
  <2>2. PICK step \in {"receivedFolder", "announceState"} : Goto(r, step)
    BY <1>7 DEF RemoveFolder
  <2>3. req'[r] # None /\ Continues(r, req'[r], step)
    BY <1>2, <2>2, GotoMoves DEF Steps
  <2>4. /\ \A x \in Requests : Wipes(x, u, m) => Wipes(x, u, m)'
        /\ \A x \in Requests : Rewords(x, m) => Rewords(x, m)'
    BY <1>1, <2>1, <2>2, <2>3 DEF OthersStay, Wipes, Rewords, Continues
  <2>5. Exists(m) => messages'[m] # None /\ SameBut(messages[m], messages'[m]) /\ messages'[m].text = messages[m].text
    BY <2>1 DEF SameBut, Exists
  <2> QED
    BY <1>2, <1>3, <2>1, <2>4, <2>5, StaysRight
<1> QED
  BY <1>4, <1>5, <1>6, <1>7 DEF Removing

LEMMA AroundKeepsShown ==
    ASSUME ChatInv, ShowInv, Around
    PROVE  ShowInv'
<1> SUFFICES ASSUME NEW u \in Users, NEW m \in Messages, shown'[u][m] # None
             PROVE  u \in PairOf[m] /\ Right(u, m)'
  BY DEF ShowInv
<1>1. UNCHANGED <<hiddenFrom, cleared, shown, req, behind>>
  BY DEF Around, MarkAsRead, CreateUpload, EraseFiles, BlockOrUnblock, ForgetBlocks, HourPasses, Tick, others, tables, history
<1>2. Exists(m) => messages'[m] # None /\ SameBut(messages[m], messages'[m]) /\ messages'[m].text = messages[m].text
  <2>1. CASE UNCHANGED messages
    BY <2>1 DEF SameBut, Exists
  <2>2. CASE \E v, w \in Users : MarkAsRead(v, w)
    BY <2>2, ReadingRows DEF SameBut
  <2> QED
    BY <2>1, <2>2 DEF Around, CreateUpload, EraseFiles, BlockOrUnblock, ForgetBlocks, HourPasses, Tick, tables
<1>3. u \in PairOf[m] /\ Right(u, m)
  BY <1>1 DEF ShowInv
<1>4. /\ \A x \in Requests : Wipes(x, u, m) => Wipes(x, u, m)'
      /\ \A x \in Requests : Rewords(x, m) => Rewords(x, m)'
  BY <1>1 DEF Wipes, Rewords
<1> QED
  BY <1>1, <1>2, <1>3, <1>4, StaysRight

LEMMA ShownIsKept ==
    ASSUME ChatInv, ShowInv, MessagesNext
    PROVE  ShowInv'
BY KindsOfSteps, LookedKeepsShown, StoringKeepsShown, AnnouncingKeepsShown, UpdatingKeepsShown, TellingKeepsShown,
   HidingKeepsShown, WritingKeepsShown, RemovingKeepsShown, AroundKeepsShown

LEMMA ShownWhenDone ==
    ASSUME ChatInv, ShowInv
    PROVE  ShownIsStored
<1> SUFFICES ASSUME NEW u \in Users, NEW m \in Messages, shown[u][m] # None, m \notin behind,
                    \A r \in {x \in Requests : req[x] # None} :
                       req[r].step = "done" \/ (req[r].msg # m /\ req[r].op \notin {"clear", "deleteAll"})
             PROVE  Exists(m) /\ messages[m].text = shown[u][m] /\ ~Removed(u, m)
  BY DEF ShownIsStored
<1>1. \A r \in Requests : ~Wipes(r, u, m) /\ ~Rewords(r, m)
  BY DEF Wipes, Rewords
<1> QED
  BY <1>1 DEF ShowInv, Right

-----------------------------------------------------------------------------
(* Among messages there is one that is as new as any.                      *)
LEMMA NewestOf ==
    ASSUME ChatInv, NEW S \in SUBSET Messages, S # {}, \A m \in S : Exists(m)
    PROVE  \E m \in S : \A n \in S : messages[n].at <= messages[m].at
<1> DEFINE age(m) == MaxTime - messages[m].at
           Ages == {age(m) : m \in S}
           Less == OpToRel(<, Nat)
<1>1. \A m \in S : messages[m].at \in 0..MaxTime
  BY DEF ChatInv, TablesTyped, Exists, Message
<1>2. Ages \subseteq Nat /\ Ages # {}
  BY <1>1, ChatAssumption
<1>3. \E x \in Ages : \A y \in Ages : ~(<<y, x>> \in Less)
  <2>1. IsWellFoundedOn(Less, Nat)
    BY NatLessThanWellFounded
  <2> HIDE DEF Ages, Less
  <2> QED
    BY <1>2, <2>1, WFMin
<1>4. PICK m \in S : \A n \in S : ~(<<age(n), age(m)>> \in Less)
  BY <1>3
<1>5. ASSUME NEW n \in S PROVE messages[n].at <= messages[m].at
  <2>1. age(n) \in Nat /\ age(m) \in Nat
    BY <1>2
  <2>2. ~(age(n) < age(m))
    BY <1>4, <2>1 DEF OpToRel
  <2>3. messages[n].at \in 0..MaxTime /\ messages[m].at \in 0..MaxTime
    BY <1>1
  <2> QED
    BY <2>2, <2>3, ChatAssumption
<1> QED
  BY <1>5

LEMMA UnreadHasItsPlace ==
    ASSUME ChatInv
    PROVE  UnreadIsListed
<1> SUFFICES ASSUME NEW p \in Pairs, ~hidden[p[2]], Unread(p[1], p[2]) # {}
             PROVE  /\ Unread(p[1], p[2]) \subseteq View(p[1], p[2])
                    /\ IsInList(p[1], p[2], "main") \/ IsInList(p[1], p[2], "archived")
  BY DEF UnreadIsListed
<1> DEFINE u == p[1]
           v == p[2]
           Left == {m \in Conversation(u, v) : <<u, m>> \notin hiddenFrom}
<1>1. Unread(u, v) \subseteq View(u, v)
  BY DEF Unread, View
<1>2. Left \in SUBSET Messages /\ \A m \in Left : Exists(m)
  BY DEF Conversation
<1>3. PICK n \in Left : messages[n].at > cleared[<<u, v>>]
  BY DEF Unread
<1>4. PICK m \in Left : \A k \in Left : messages[k].at <= messages[m].at
  BY <1>2, <1>3, NewestOf
<1>5. /\ messages[m].at \in 0..MaxTime /\ messages[n].at \in 0..MaxTime /\ p = <<u, v>>
      /\ cleared[p] \in -1..MaxTime /\ archived[p] \in -1..MaxTime
  <2>1. p = <<u, v>>
    BY DEF Pairs
  <2> QED
    BY <1>2, <2>1 DEF ChatInv, TablesTyped, Exists, Message
<1>6. messages[m].at > cleared[<<u, v>>]
  BY <1>3, <1>4, <1>5, ChatAssumption
<1>7. IsInList(u, v, IF messages[m].at <= archived[<<u, v>>] THEN "archived" ELSE "main")
  BY <1>4, <1>6 DEF IsInList
<1> QED
  BY <1>1, <1>7

-----------------------------------------------------------------------------
(* The invariants, and what they come to.                                  *)

LEMMA QuotesAreThere ==
    ASSUME ChatInv
    PROVE  RepliesQuote
<1> SUFFICES ASSUME NEW m \in Messages, messages[m] # None, messages[m].reply # None
             PROVE  messages[messages[m].reply] # None /\ Between(m, messages[m].reply)
  BY DEF RepliesQuote
<1>1. messages[m].reply \in Messages
  BY DEF ChatInv, TablesTyped, Message
<1> QED
  BY <1>1 DEF ChatInv, MessageInv, Exists, Between

TypesInv == ChatInv /\ KeyInv /\ ConnectionInv

(* Every variable has its type, and what a reply quotes is a message that  *)
(* is there and of the same conversation (chat.service.ts).                *)
THEOREM TypeInvariant == Spec => []TypeOK
<1>1. Init => TypesInv
  BY InitChat, InitKeys, InitConnections DEF TypesInv, Init
<1>2. TypesInv /\ [Next]_vars => TypesInv'
  BY NextIsSound, NextKeepsKeys, NextKeepsConnections DEF TypesInv
<1>3. ASSUME TypesInv PROVE TypeOK
  <2>1. BackupTypeOK
    BY <1>3 DEF TypesInv, KeyInv, GuessInv, KeysTyped, CopiesTyped, BackupTypeOK
  <2>2. PresenceTypeOK
    BY <1>3 DEF TypesInv, ConnectionInv
  <2>3. MessagesTypeOK
    BY <1>3 DEF TypesInv, ChatInv, TablesTyped, AroundTyped, ScreensTyped, CountsTyped, RequestsTyped, MessagesTypeOK
  <2> QED
    BY <1>3, <2>1, <2>2, <2>3, QuotesAreThere DEF TypesInv, TypeOK
<1> QED
  BY <1>1, <1>2, <1>3, PTL DEF Spec

SendInv == ChatInv /\ NoMessageAcrossBlock /\ FileInv /\ PushInv

LEMMA InitSends == ASSUME Init PROVE SendInv
<1>1. NoMessageAcrossBlock /\ FileInv
  BY DEF Init, NoMessageAcrossBlock, FileInv, NamedFile, Exists
<1>2. PushInv
  <2>1. \A m \in Messages : ToPush(m) = {} /\ stored[m] = 0 /\ pushed[m] = 0
    BY DEF Init, ToPush, At
  <2>2. IsFiniteSet({}) /\ Cardinality({}) = 0
    BY FS_EmptySet
  <2> QED
    BY <2>1, <2>2 DEF PushInv
<1> QED
  BY <1>1, <1>2, InitChat DEF SendInv

LEMMA NextKeepsSends ==
    ASSUME SendInv, [Next]_vars
    PROVE  SendInv'
<1>1. CASE UNCHANGED chatVars
  <2>1. NoMessageAcrossBlock' /\ FileInv'
    BY <1>1 DEF SendInv, chatVars, tables, others, history, NoMessageAcrossBlock, FileInv, NamedFile, Removes, Exists
  <2>2. PushInv'
    BY <1>1 DEF SendInv, chatVars, history, PushInv, ToPush, At
  <2> QED
    BY <2>1, <2>2, NextIsSound DEF SendInv
<1>2. CASE MessagesNext
  BY <1>2, NextIsSound, BlocksAreKept, FilesAreKept, PushesAreKept DEF SendInv
<1> QED
  BY <1>1, <1>2 DEF Next, vars

(* What is stored was allowed by the blocks of the time, as far as the     *)
(* answer on them was of a list that was up to date, is pushed once each   *)
(* time it is stored, and has its file, unless the app named it with       *)
(* another message, for any number of sends, retries, blocks and deletions *)
(* at once (chat.service.ts, block-checker.ts, chat-attachment.service.ts).*)
THEOREM MessagesAreSentAsMeant == Spec => []SentAsMeant
<1>1. Init => SendInv
  BY InitSends
<1>2. SendInv /\ [Next]_vars => SendInv'
  BY NextKeepsSends
<1>3. ASSUME SendInv PROVE SentAsMeant
  <2>1. PushedOnce
    <3> SUFFICES ASSUME NEW m \in Messages PROVE pushed[m] <= stored[m]
      BY DEF PushedOnce
    <3>1. IsFiniteSet(ToPush(m)) /\ pushed[m] + Cardinality(ToPush(m)) <= stored[m]
      BY <1>3 DEF SendInv, PushInv
    <3>2. Cardinality(ToPush(m)) \in Nat /\ pushed[m] \in Nat /\ stored[m] \in Nat
      BY <1>3, <3>1, FS_CardinalityType DEF SendInv, ChatInv, CountsTyped
    <3> QED
      BY <3>1, <3>2
  <2>2. FileIsThere
    BY <1>3 DEF SendInv, FileInv, FileIsThere
  <2> QED
    BY <1>3, <2>1, <2>2 DEF SendInv, SentAsMeant
<1> QED
  BY <1>1, <1>2, <1>3, PTL DEF Spec

ScreenInv == ChatInv /\ ShowInv

(* What people see of their messages is what is stored, once the requests  *)
(* about them are done, and no unread count is without a message in a      *)
(* conversation that is listed (chat.gateway.ts, chat.service.ts).         *)
THEOREM ScreensShowWhatIsStored == Spec => []SeenIsStored
<1>1. Init => ScreenInv
  BY InitChat DEF Init, ScreenInv, ShowInv
<1>2. ASSUME ScreenInv, [Next]_vars PROVE ScreenInv'
  <2>1. CASE UNCHANGED chatVars
    <3>1. UNCHANGED <<messages, hiddenFrom, cleared, shown, req, behind>>
      BY <2>1 DEF chatVars, tables, history
    <3>2. ASSUME NEW u \in Users, NEW m \in Messages
          PROVE  Removed(u, m)' <=> Removed(u, m)
      BY <3>1 DEF Removed, Conversation, Exists
    <3>3. ASSUME NEW u \in Users, NEW m \in Messages, NEW r \in Requests
          PROVE  (Wipes(r, u, m)' <=> Wipes(r, u, m)) /\ (Rewords(r, m)' <=> Rewords(r, m))
      BY <3>1 DEF Wipes, Rewords
    <3>4. ASSUME NEW u \in Users, NEW m \in Messages, Right(u, m)
          PROVE  Right(u, m)'
      BY <3>1, <3>2, <3>3, <3>4 DEF Right, Exists
    <3>5. ShowInv'
      BY <1>2, <3>1, <3>4 DEF ScreenInv, ShowInv
    <3> QED
      BY <1>2, <3>5, NextIsSound DEF ScreenInv
  <2>2. CASE MessagesNext
    BY <1>2, <2>2, NextIsSound, ShownIsKept DEF ScreenInv
  <2> QED
    BY <1>2, <2>1, <2>2 DEF Next, vars
<1>3. ScreenInv => SeenIsStored
  BY ShownWhenDone, UnreadHasItsPlace DEF ScreenInv, SeenIsStored
<1> QED
  BY <1>1, <1>2, <1>3, PTL DEF Spec
=============================================================================
