------------------------------ MODULE KeyBackup ------------------------------
(***************************************************************************)
(* The keys of a person's chats (chat-backup.service.ts, chat.service.ts): *)
(* the public key others encrypt to, the backup of the private one that    *)
(* only the chat PIN opens, and what Redis keeps of the two.               *)
(*                                                                         *)
(* A request is a record in "ask", used once.  Each action is one call to  *)
(* the database or to Redis with the code up to the next await; unlocking  *)
(* is one transaction, which locks the row.                                *)
(***************************************************************************)
EXTENDS Integers, FiniteSets

CONSTANTS
    Users,
    Owners,            \* bound: the people whose keys change
    PublicKeys,        \* pairs of keys that devices make
    Pins,              \* what a backup is locked with
    Asks,              \* requests about keys, each sent once
    FirstBackups,      \* what accounts have at first: "none", "old", "password", "pin"
    AttemptsPerRound,  \* ATTEMPTS_PER_ROUND
    MaxAttempts,       \* bound: wrong PINs in a row
    None

Backup == [pin : Pins, protectedBy : {"pin", "password"}, key : PublicKeys,
           fails : Nat, locked : BOOLEAN]

Ask == [op : {"publish", "save", "reset", "unlock", "readKey", "visibilityChanged"},
        step : {"store", "forget", "load", "cache", "exists", "attempt", "save", "done"},
        who : Users, key : PublicKeys \cup {None},
        pin : Pins \cup {None},      \* the PIN that is typed
        newPin : Pins \cup {None},   \* the PIN of the new backup
        late : BOOLEAN]              \* no key with a backup was there when it was asked

ASSUME KeyBackupAssumption ==
    /\ Owners \subseteq Users
    /\ AttemptsPerRound \in Nat \ {0}
    /\ MaxAttempts \in Nat
    /\ PublicKeys # {} /\ Pins # {}
    /\ None \notin PublicKeys \cup Pins \cup Backup \cup Ask

VARIABLES
    publicKey,  \* users.identity_public_key
    backup,     \* chat_key_backups
    oldBackup,  \* users.backup_blob is set
    hidden,     \* users.deactivated_at is set
    keyCache,   \* the cached public key
    pinCache,   \* chat:has-pin
    ask,
    tries,      \* wrong PINs the backup was tried with since it was last opened
    apart       \* a key was published over a backup that came after the question, or the
                \* backup was made, as the service does not look, of another key

(* tries, apart and the fields late only remember.                         *)
backupVars == <<publicKey, backup, oldBackup, hidden, keyCache, pinCache, ask, tries, apart>>

BackupTypeOK ==
    /\ publicKey \in [Users -> PublicKeys \cup {None}]
    /\ backup \in [Users -> Backup \cup {None}]
    /\ oldBackup \in [Users -> BOOLEAN]
    /\ hidden \in [Users -> BOOLEAN]
    /\ keyCache \in [Users -> [key : PublicKeys, late : BOOLEAN] \cup {None}]
    /\ pinCache \in [Users -> BOOLEAN]
    /\ ask \in [Asks -> Ask \cup {None}]
    /\ tries \in [Users -> Nat]
    /\ apart \in [Users -> BOOLEAN]

FirstBackup(kind) ==
    IF kind \in {"pin", "password"}
    THEN [pin |-> CHOOSE p \in Pins : TRUE, protectedBy |-> kind,
          key |-> CHOOSE k \in PublicKeys : TRUE, fails |-> 0, locked |-> FALSE]
    ELSE None

BackupInit ==
    \E kind \in FirstBackups :
        /\ backup = [u \in Users |-> FirstBackup(kind)]
        /\ oldBackup = [u \in Users |-> kind = "old"]
        /\ publicKey = [u \in Users |-> IF kind = "none" THEN None ELSE CHOOSE k \in PublicKeys : TRUE]
        /\ hidden = [u \in Users |-> FALSE]
        /\ keyCache = [u \in Users |-> None]
        /\ pinCache = [u \in Users |-> FALSE]
        /\ ask = [r \in Asks |-> None]
        /\ tries = [u \in Users |-> 0]
        /\ apart = [u \in Users |-> FALSE]

-----------------------------------------------------------------------------
Asked(op, step, u) ==
    [op |-> op, step |-> step, who |-> u, key |-> None, pin |-> None, newPin |-> None,
     late |-> FALSE]

Asking(r, step) == ask[r] # None /\ ask[r].step = step

Over(r) == Asked(ask[r].op, "done", ask[r].who)
Proceed(r, step) == ask' = [ask EXCEPT ![r] = IF step = "done" THEN Over(r)
                                              ELSE [@ EXCEPT !.step = step]]

-----------------------------------------------------------------------------
(* The public key.                                                         *)

MayPublish(u, k) == publicKey[u] # k /\ (publicKey[u] = None \/ backup[u] = None)

(* setPublicKey: refused once there is a backup, and nothing to do if it   *)
(* is the key already.                                                     *)
PublishKey(r, u, k) ==
    /\ ask[r] = None
    /\ ask' = [ask EXCEPT ![r] =
         IF MayPublish(u, k)
         THEN [Asked("publish", "store", u) EXCEPT !.key = k, !.late = backup[u] = None \/ publicKey[u] = None]
         ELSE Asked("publish", "done", u)]
    /\ UNCHANGED <<publicKey, backup, oldBackup, hidden, keyCache, pinCache, tries, apart>>

StoreKey(r) ==
    /\ Asking(r, "store")
    /\ LET u == ask[r].who
       IN  /\ publicKey' = [publicKey EXCEPT ![u] = ask[r].key]
           /\ apart' = [apart EXCEPT ![u] = @ \/ (ask[r].late /\ backup[u] # None)]
    /\ Proceed(r, "forget")
    /\ UNCHANGED <<backup, oldBackup, hidden, keyCache, pinCache, tries>>

(* The cached key is deleted, or stays if Redis does not answer.           *)
ForgetPublicKey(r) ==
    /\ Asking(r, "forget")
    /\ LET u == ask[r].who
       IN  \/ keyCache' = [keyCache EXCEPT ![u] = None]
           \/ /\ keyCache[u] # None
              /\ keyCache' = [keyCache EXCEPT ![u].late = TRUE]
    /\ Proceed(r, "done")
    /\ UNCHANGED <<publicKey, backup, oldBackup, hidden, pinCache, tries, apart>>

(* getPublicKey: cached, or loaded unless the account is hidden.           *)
GetPublicKey(r, u) ==
    /\ ask[r] = None
    /\ ask' = [ask EXCEPT ![r] = Asked("readKey", IF keyCache[u] = None THEN "load" ELSE "done", u)]
    /\ UNCHANGED <<publicKey, backup, oldBackup, hidden, keyCache, pinCache, tries, apart>>

LoadPublicKey(r) ==
    /\ Asking(r, "load")
    /\ LET u == ask[r].who
       IN  IF hidden[u] \/ publicKey[u] = None THEN Proceed(r, "done")
           ELSE ask' = [ask EXCEPT ![r].step = "cache", ![r].key = publicKey[u]]
    /\ UNCHANGED <<publicKey, backup, oldBackup, hidden, keyCache, pinCache, tries, apart>>

CachePublicKey(r) ==
    /\ Asking(r, "cache")
    /\ LET u == ask[r].who
           k == ask[r].key
       IN  keyCache' = [keyCache EXCEPT ![u] =
                          [key |-> k, late |-> k # publicKey[u] \/ hidden[u]]]
    /\ Proceed(r, "done")
    /\ UNCHANGED <<publicKey, backup, oldBackup, hidden, pinCache, tries, apart>>

ExpireKey(u) ==
    /\ keyCache[u] # None
    /\ keyCache' = [keyCache EXCEPT ![u] = None]
    /\ UNCHANGED <<publicKey, backup, oldBackup, hidden, pinCache, ask, tries, apart>>

(* The account was hidden or shown, and the user service says so.          *)
HideOrShow(r, u) ==
    /\ ask[r] = None
    /\ hidden' = [hidden EXCEPT ![u] = ~@]
    /\ ask' = [ask EXCEPT ![r] = Asked("visibilityChanged", "forget", u)]
    /\ UNCHANGED <<publicKey, backup, oldBackup, keyCache, pinCache, tries, apart>>

KeyRequests(r) ==
    \/ \E u \in Owners : \/ \E k \in PublicKeys : PublishKey(r, u, k)
                         \/ GetPublicKey(r, u) \/ HideOrShow(r, u)
    \/ StoreKey(r) \/ ForgetPublicKey(r) \/ LoadPublicKey(r) \/ CachePublicKey(r)

-----------------------------------------------------------------------------
(* The backup.                                                             *)

(* A fault: the round is over one wrong PIN too late.                      *)
LocksLate(fails) == fails > AttemptsPerRound /\ (fails - 1) % AttemptsPerRound = 0

(* lockDurationMs is not 0                                                 *)
Locks(fails) == fails # 0 /\ fails % AttemptsPerRound = 0

Opens(u, pin) == backup[u] # None /\ ~backup[u].locked /\ backup[u].pin = pin

(* The row is locked: simultaneous guesses wait for each other.            *)
Attempt(u, pin) ==
    IF backup[u] = None \/ backup[u].locked THEN UNCHANGED <<backup, tries>>
    ELSE IF backup[u].pin = pin
    THEN /\ backup' = [backup EXCEPT ![u].fails = 0, ![u].locked = FALSE]
         /\ tries' = [tries EXCEPT ![u] = 0]
    ELSE /\ backup[u].fails < MaxAttempts
         /\ backup' = [backup EXCEPT ![u].fails = @ + 1, ![u].locked = Locks(backup[u].fails + 1)]
         /\ tries' = [tries EXCEPT ![u] = @ + 1]

Unlock(r, u, pin) ==
    /\ ask[r] = None
    /\ Attempt(u, pin)
    /\ ask' = [ask EXCEPT ![r] = Asked("unlock", "done", u)]
    /\ UNCHANGED <<publicKey, oldBackup, hidden, keyCache, pinCache, apart>>

(* locked_until passes                                                     *)
LockEnds(u) ==
    /\ backup[u] # None /\ backup[u].locked
    /\ backup' = [backup EXCEPT ![u].locked = FALSE]
    /\ tries' = [tries EXCEPT ![u] = 0]
    /\ UNCHANGED <<publicKey, oldBackup, hidden, keyCache, pinCache, ask, apart>>

(* setBackup, of whatever key the device sealed, or resetKeys, which       *)
(* publishes the key too; the owner proved the account's password, or      *)
(* types the PIN, or neither.                                              *)
Save(r, op, u, k, newPin, pin, provenByPassword) ==
    /\ ask[r] = None
    /\ ask' = [ask EXCEPT ![r] =
         [Asked(op, IF provenByPassword THEN "save" ELSE "exists", u)
            EXCEPT !.key = k, !.newPin = newPin, !.pin = pin]]
    /\ UNCHANGED <<publicKey, backup, oldBackup, hidden, keyCache, pinCache, tries, apart>>

RequireCurrentPin(r) ==
    /\ Asking(r, "exists")
    /\ Proceed(r, IF backup[ask[r].who] = None THEN "save"
                  ELSE IF ask[r].pin = None THEN "done" ELSE "attempt")
    /\ UNCHANGED <<publicKey, backup, oldBackup, hidden, keyCache, pinCache, tries, apart>>

(* openOrThrow                                                             *)
TryCurrentPin(r) ==
    /\ Asking(r, "attempt")
    /\ Attempt(ask[r].who, ask[r].pin)
    /\ Proceed(r, IF Opens(ask[r].who, ask[r].pin) THEN "save" ELSE "done")
    /\ UNCHANGED <<publicKey, oldBackup, hidden, keyCache, pinCache, apart>>

(* A fault: the new key is not published.                                  *)
NewKeyAlone(r) == publicKey

NewKey(r) == IF ask[r].op = "reset" THEN [publicKey EXCEPT ![ask[r].who] = ask[r].key]
             ELSE publicKey

(* A fault: the cached key stays.                                          *)
AfterSaveNothing(op) == "done"

AfterSave(op) == IF op = "reset" THEN "forget" ELSE "done"

(* One transaction: the backup, no old one beside it, and the new key.     *)
StoreBackup(r) ==
    /\ Asking(r, "save")
    /\ LET u == ask[r].who
       IN  /\ backup' = [backup EXCEPT ![u] =
                [pin |-> ask[r].newPin, protectedBy |-> "pin", key |-> ask[r].key,
                 fails |-> 0, locked |-> FALSE]]
           /\ oldBackup' = [oldBackup EXCEPT ![u] = FALSE]
           /\ publicKey' = NewKey(r)
           /\ apart' = [apart EXCEPT ![u] =
                IF ask[r].op = "reset" THEN FALSE ELSE publicKey[u] # ask[r].key]
           /\ tries' = [tries EXCEPT ![u] = 0]
    /\ Proceed(r, AfterSave(ask[r].op))
    /\ UNCHANGED <<hidden, keyCache, pinCache>>

BackupRequests(r) ==
    \/ \E u \in Owners, pin \in Pins :
         \/ Unlock(r, u, pin)
         \/ \E op \in {"save", "reset"}, k \in PublicKeys, typed \in Pins \cup {None},
              byPassword \in BOOLEAN : Save(r, op, u, k, pin, typed, byPassword)
    \/ RequireCurrentPin(r) \/ TryCurrentPin(r) \/ StoreBackup(r)

BackupNext ==
    \/ \E r \in Asks : KeyRequests(r) \/ BackupRequests(r)
    \/ \E u \in Owners : ExpireKey(u) \/ LockEnds(u)

-----------------------------------------------------------------------------
(* The PIN as sending a message asks for it.                               *)

HasPin(u) == IF backup[u] # None THEN backup[u].protectedBy = "pin" ELSE oldBackup[u]

(* A fault: that there was an answer is cached.                            *)
RememberAsked(u) == pinCache' = [pinCache EXCEPT ![u] = TRUE]

(* requireChatPin: only a yes is cached.                                   *)
RequireChatPin(u) ==
    /\ pinCache[u] \/ HasPin(u)
    /\ pinCache' = [pinCache EXCEPT ![u] = TRUE]

-----------------------------------------------------------------------------
(* "A 6-digit PIN therefore cannot be guessed by trying them all": between *)
(* two waits a backup is tried with at most ATTEMPTS_PER_ROUND wrong PINs, *)
(* by however many devices at once, whichever way (chat-backup.service.ts).*)
FewTriesPerRound ==
    \A u \in Users : /\ tries[u] <= AttemptsPerRound
                     /\ tries[u] = AttemptsPerRound => backup[u] # None /\ backup[u].locked

(* "Once the account has a PIN-protected backup its key is fixed"          *)
(* (chat.service.ts): the backup is of the key that is published, unless   *)
(* publishing was under way when the backup was stored, or the backup was  *)
(* saved by itself for another key: its blob is sealed, so POST backup     *)
(* does not look.                                                          *)
KeyIsBackedUp ==
    \A u \in Users : backup[u] # None /\ ~apart[u] => publicKey[u] = backup[u].key

(* Refuted: a backup is of the key that is published, whatever was under   *)
(* way and whatever the device sealed.                                     *)
BackupIsOfTheKey == \A u \in Users : backup[u] # None => publicKey[u] = backup[u].key

(* A cached public key is the account's, unless it was loaded before the   *)
(* change, Redis missed the change, or the key is about to be deleted.     *)
CachedKeyIsCurrent ==
    \A u \in Users :
        keyCache[u] # None /\ ~keyCache[u].late =>
            \/ (keyCache[u].key = publicKey[u] /\ ~hidden[u])
            \/ \E r \in Asks : Asking(r, "forget") /\ ask[r].who = u

(* "A PIN cannot be turned off, so it never goes stale" (chat-pin-cache).  *)
CachedPinIsThere == \A u \in Users : pinCache[u] => HasPin(u)

(* The key others write to, the backup its owner can restore and the       *)
(* cached copies of both belong together (chat-backup.service.ts).         *)
KeysBelongTogether == KeyIsBackedUp /\ CachedKeyIsCurrent /\ CachedPinIsThere

=============================================================================
