-------------------------------- MODULE Chat --------------------------------
(***************************************************************************)
(* Messages between people (chat.service.ts, message-actions.service.ts,   *)
(* conversation-state.service.ts, chat-attachment.service.ts) and what the *)
(* gateway tells their devices.  KeyBackup says who has a chat PIN and who *)
(* is hidden; Presence is the other half of the gateway.                   *)
(*                                                                         *)
(* A request is a record in "req", used once, as in KeyBackup.  What a     *)
(* device shows is what the events told it since it opened the chat.       *)
(***************************************************************************)
EXTENDS KeyBackup, Presence

CONSTANTS
    Messages,   \* ids of messages, chosen by the sender's device
    PairOf,     \* the two people an id is used between: it is drawn for one message
    Requests,   \* requests about messages, each sent once
    MaxText,    \* bound: how often a text is changed
    MaxTime,    \* bound: the clock
    Mixes       \* bound: the sets of operations that are sent together

Pairs == {p \in Users \X Users : p[1] # p[2]}
Message == [from : Users, to : Users, text : 0..MaxText, reply : Messages \cup {None},
            file : BOOLEAN, read : BOOLEAN, at : 0..MaxTime]

Operations == {"send", "edit", "delete", "archive", "unarchive", "clear", "deleteAll"}
Steps == {"check", "create", "find", "announce", "update", "reread", "announceEdit", "hide", "remove",
          "removeFile", "announceDelete", "write", "sentFolder", "receivedFolder", "announceState",
          "done"}

Request == [op : Operations, step : Steps, who : Users, other : Users, msg : Messages \cup {None},
            text : 0..MaxText,             \* a text that is sent, or read to be announced
            reply : Messages \cup {None},
            file : Messages \cup {None},   \* the file that is named with a deletion
            at : 0..MaxTime,               \* the time that was read
            flag : BOOLEAN,                \* stored anew; within the hour
            clear : BOOLEAN]               \* the answer on blocks was right when it was given, or
                                           \* nobody answered, or a list that was out of date

ASSUME ChatAssumption ==
    /\ MaxText \in Nat /\ MaxTime \in Nat
    /\ PairOf \in [Messages -> SUBSET Users]
    /\ None \notin Messages \cup Message \cup Request \cup Nat \cup (Users \X Users)

VARIABLES
    messages,   \* messages
    hiddenFrom, \* chat_hidden_messages
    archived,   \* chat_conversation_states.archived_at, of a person with another
    cleared,    \* chat_conversation_states.cleared_at
    fileOf,     \* the pair a place to upload to was given for, by the message that will carry it
    files,      \* the bucket chat-attachments
    blocked,    \* user_blocks, in the user service
    outOfDate,  \* whose list of blocks, cached by the user service, may be of before a change
    aged,       \* messages that are older than an hour
    clock,
    mix,        \* bound: which operations are sent
    shown,      \* the text of each message that a person's devices show
    req,
    stored,     \* how often a message was stored
    pushed,     \* how often it was announced by push
    behind,     \* messages whose last event was about an older state
    lost,       \* messages stored while files of their conversation were being deleted, or
                \* whose file was named with the deletion of another
    unaware,    \* messages of before a block, or stored after a check that could not know it
    returned    \* who was told a message again, in a reply, that they had removed

(* The last six only remember.                                             *)
history == <<stored, pushed, behind, lost, unaware, returned>>
tables == <<messages, hiddenFrom, archived, cleared>>
others == <<fileOf, files, blocked, outOfDate, aged, clock, mix>>
chatVars == <<tables, others, shown, req, history>>

vars == <<chatVars, backupVars, presenceVars>>

Never == -1
Between(p, q) ==
    {messages[p].from, messages[p].to} = {messages[q].from, messages[q].to}

MessagesTypeOK ==
    /\ messages \in [Messages -> Message \cup {None}]
    /\ hiddenFrom \subseteq Users \X Messages
    /\ archived \in [Pairs -> -1..MaxTime] /\ cleared \in [Pairs -> -1..MaxTime]
    /\ fileOf \in [Messages -> Pairs \cup {None}] /\ files \subseteq Messages
    /\ blocked \subseteq Pairs /\ outOfDate \subseteq Users /\ aged \subseteq Messages /\ clock \in 0..MaxTime
    /\ shown \in [Users -> [Messages -> 0..MaxText \cup {None}]]
    /\ req \in [Requests -> Request \cup {None}]
    /\ stored \in [Messages -> Nat] /\ pushed \in [Messages -> Nat]
    /\ behind \cup lost \cup unaware \subseteq Messages
    /\ returned \subseteq Users \X Messages

(* What a reply quotes is there, and of the same conversation.             *)
RepliesQuote ==
    \A m \in Messages : messages[m] # None /\ messages[m].reply # None =>
        messages[messages[m].reply] # None /\ Between(m, messages[m].reply)

TypeOK == BackupTypeOK /\ PresenceTypeOK /\ MessagesTypeOK /\ RepliesQuote

Init ==
    /\ BackupInit /\ PresenceInit
    /\ mix \in Mixes
    /\ "keys" \in mix \/ \A u \in Users : HasPin(u) /\ ~oldBackup[u]
    /\ messages = [m \in Messages |-> None]
    /\ hiddenFrom = {}
    /\ archived = [p \in Pairs |-> Never] /\ cleared = [p \in Pairs |-> Never]
    /\ fileOf = [m \in Messages |-> None] /\ files = {}
    /\ blocked = {} /\ outOfDate = {} /\ aged = {} /\ clock = 0
    /\ shown = [u \in Users |-> [m \in Messages |-> None]]
    /\ req = [r \in Requests |-> None]
    /\ stored = [m \in Messages |-> 0] /\ pushed = [m \in Messages |-> 0]
    /\ behind = {} /\ lost = {} /\ unaware = {} /\ returned = {}

-----------------------------------------------------------------------------
Sent(op, step, u, v, m) ==
    [op |-> op, step |-> step, who |-> u, other |-> v, msg |-> m, text |-> 0, reply |-> None,
     file |-> None, at |-> 0, flag |-> FALSE, clear |-> FALSE]

Free(r, op) == req[r] = None /\ op \in mix

At(r, step) == req[r] # None /\ req[r].step = step

Done(r) == Sent(req[r].op, "done", req[r].who, req[r].other, None)
Goto(r, step) == req' = [req EXCEPT ![r] = IF step = "done" THEN Done(r) ELSE [@ EXCEPT !.step = step]]

Exists(m) == messages[m] # None
Conversation(u, v) == {m \in Messages : Exists(m) /\ {messages[m].from, messages[m].to} = {u, v}}
Party(u, m) == Exists(m) /\ u \in {messages[m].from, messages[m].to}
Sender(u, m) == Exists(m) /\ messages[m].from = u

(* A fault: a reply keeps the id of what was deleted.                      *)
DeleteRowsOnly(gone) ==
    /\ messages' = [m \in Messages |-> IF m \in gone THEN None ELSE messages[m]]
    /\ hiddenFrom' = {h \in hiddenFrom : h[2] \notin gone}

(* Rows that refer to a deleted message go, or let go of it.               *)
DeleteRows(gone) ==
    /\ messages' = [m \in Messages |->
         IF m \in gone THEN None
         ELSE IF Exists(m) /\ messages[m].reply \in gone THEN [messages[m] EXCEPT !.reply = None]
         ELSE messages[m]]
    /\ hiddenFrom' = {h \in hiddenFrom : h[2] \notin gone}

-----------------------------------------------------------------------------
(* Sending.  Bound: without "reply" nothing is quoted, with "keys" one     *)
(* message is sent.                                                        *)

(* A place to upload to, and the upload.                                   *)
CreateUpload(u, v, m) ==
    /\ "file" \in mix
    /\ u # v /\ PairOf[m] = {u, v}
    /\ ~hidden[v]
    /\ fileOf[m] = None /\ stored[m] = 0
    /\ fileOf' = [fileOf EXCEPT ![m] = <<u, v>>]
    /\ files' = files \cup {m}
    /\ UNCHANGED <<tables, blocked, outOfDate, aged, clock, mix, shown, req, history, pinCache>>

Send(r, u, v, m, q) ==
    /\ Free(r, "send")
    /\ u # v /\ PairOf[m] = {u, v}
    /\ q = None \/ "reply" \in mix
    /\ "keys" \in mix => \A x \in Requests : req[x] = None
    /\ req' = [req EXCEPT ![r] = [Sent("send", "check", u, v, m) EXCEPT !.reply = q]]
    /\ UNCHANGED <<tables, others, shown, history, pinCache>>

Quotable(q, u, v) == IF q \in Conversation(u, v) THEN q ELSE None

(* A fault: only whom the sender blocked is refused.                       *)
NotBlockedBySender(u, v) == <<u, v>> \notin blocked

NotBlocked(u, v) == <<u, v>> \notin blocked /\ <<v, u>> \notin blocked

(* eitherBlocked, of the sender's list, which the user service caches:     *)
(* one of before a change may say either.                                  *)
SaysNotBlocked(u, v) == NotBlocked(u, v) \/ u \in outOfDate
SaysBlocked(u, v) == ~NotBlocked(u, v) \/ u \in outOfDate

(* The four checks of sendMessage.  If the user service does not answer,   *)
(* nobody counts as blocked.                                               *)
Check(r) ==
    /\ At(r, "check")
    /\ LET u == req[r].who
           v == req[r].other
       IN  \/ /\ ~hidden[v]
              /\ \E answered \in BOOLEAN :
                   /\ answered => SaysNotBlocked(u, v)
                   /\ req' = [req EXCEPT ![r].step = "create", ![r].reply = Quotable(@, u, v),
                                ![r].clear = \/ ~answered \/ u \in outOfDate
                                             \/ blocked \cap {<<u, v>>, <<v, u>>} = {}]
              /\ RequireChatPin(u)
           \/ /\ ~HasPin(u) \/ hidden[v] \/ SaysBlocked(u, v)
              /\ Goto(r, "done")
              /\ UNCHANGED pinCache
    /\ UNCHANGED <<tables, others, shown, history>>

BeingRemoved(m) ==
    \E r \in {x \in Requests : req[x] # None} :
        \/ /\ req[r].step = "removeFile"
           /\ req[r].file = m
        \/ /\ req[r].step \in {"sentFolder", "receivedFolder"}
           /\ fileOf[m] \in {<<req[r].who, req[r].other>>, <<req[r].other, req[r].who>>}

(* An id that is taken is looked up; a reply to what was deleted meanwhile *)
(* fails on the foreign key.                                               *)
CreateMessage(r) ==
    /\ At(r, "create")
    /\ LET m == req[r].msg
           u == req[r].who
           q == req[r].reply
       IN  IF Exists(m) THEN Goto(r, "find") /\ UNCHANGED <<messages, aged, history>>
           ELSE IF q # None /\ ~Exists(q) THEN Goto(r, "done") /\ UNCHANGED <<messages, aged, history>>
           ELSE /\ messages' = [messages EXCEPT ![m] =
                     [from |-> u, to |-> req[r].other, text |-> 0, reply |-> q,
                      file |-> fileOf[m] = <<u, req[r].other>>, read |-> FALSE, at |-> clock]]
                /\ stored' = [stored EXCEPT ![m] = @ + 1]
                /\ unaware' = IF req[r].clear /\ ~NotBlocked(u, req[r].other) THEN unaware \cup {m}
                              ELSE unaware \ {m}
                /\ lost' = IF m \in files /\ ~BeingRemoved(m) THEN lost ELSE lost \cup {m}
                /\ req' = [req EXCEPT ![r].step = "announce", ![r].flag = TRUE, ![r].text = 0,
                             ![r].reply = IF <<u, q>> \in hiddenFrom THEN None ELSE q]
                /\ aged' = aged \ {m}
                /\ UNCHANGED <<pushed, behind, returned>>
    /\ UNCHANGED <<hiddenFrom, archived, cleared, fileOf, files, blocked, outOfDate, clock, mix, shown,
                   pinCache>>

(* A retry of a message that was already stored, by the same sender.       *)
FindMessage(r) ==
    /\ At(r, "find")
    /\ LET m == req[r].msg
       IN  IF Sender(req[r].who, m)
           THEN req' = [req EXCEPT ![r].step = "announce", ![r].text = messages[m].text,
                          ![r].other = messages[m].to,
                          ![r].reply = IF <<req[r].who, messages[m].reply>> \in hiddenFrom
                                       THEN None ELSE messages[m].reply]
           ELSE Goto(r, "done")
    /\ UNCHANGED <<tables, others, shown, history, pinCache>>

Removed(u, m) ==
    \/ <<u, m>> \in hiddenFrom
    \/ \E p \in Pairs : /\ p[1] = u /\ m \in Conversation(u, p[2])
                        /\ messages[m].at <= cleared[p]

(* An event is behind if the message is not what it says any more.         *)
Behind(us, m, text) ==
    IF Exists(m) /\ messages[m].text = text /\ \A u \in us : ~Removed(u, m) THEN behind
    ELSE behind \cup {m}

Show(us, m, text) ==
    shown' = [u \in Users |-> IF u \in us THEN [shown[u] EXCEPT ![m] = text] ELSE shown[u]]

(* A fault: every time a message is answered it is pushed.                 *)
PushAlways(r) == TRUE

Pushes(r) == req[r].flag

(* The push is sent off, not awaited; the devices of both are told.        *)
AnnounceMessage(r) ==
    /\ At(r, "announce")
    /\ LET m == req[r].msg
           both == {req[r].who, req[r].other}
       IN  /\ pushed' = IF Pushes(r) THEN [pushed EXCEPT ![m] = @ + 1] ELSE pushed
           /\ Show(both, m, req[r].text)
           /\ behind' = Behind(both, m, req[r].text)
           /\ returned' = returned \cup {x \in both \X {req[r].reply} :
                                           req[r].reply # None /\ Removed(x[1], x[2])}
    /\ Goto(r, "done")
    /\ UNCHANGED <<tables, others, stored, lost, unaware, pinCache>>

Sending(r) ==
    \/ \E u, v \in Users, m \in Messages, q \in Messages \cup {None} : Send(r, u, v, m, q)
    \/ Check(r) \/ CreateMessage(r) \/ FindMessage(r) \/ AnnounceMessage(r)

-----------------------------------------------------------------------------
(* One message.                                                            *)

(* findFor, and the time the hour is counted from.                         *)
Edit(r, u, m, t) ==
    /\ Free(r, "edit")
    /\ req' = [req EXCEPT ![r] = IF Sender(u, m)
         THEN [Sent("edit", "update", u, messages[m].to, m) EXCEPT !.text = t, !.flag = m \notin aged]
         ELSE Sent("edit", "done", u, u, None)]
    /\ UNCHANGED <<tables, others, shown, history, pinCache>>

UpdateText(r) ==
    /\ At(r, "update")
    /\ LET m == req[r].msg
       IN  IF Sender(req[r].who, m) /\ (req[r].flag \/ m \notin aged)
           THEN /\ messages' = [messages EXCEPT ![m].text = req[r].text]
                /\ Goto(r, "reread")
           ELSE Goto(r, "done") /\ UNCHANGED messages
    /\ UNCHANGED <<hiddenFrom, archived, cleared, others, shown, history, pinCache>>

RereadMessage(r) ==
    /\ At(r, "reread")
    /\ IF Exists(req[r].msg)
       THEN req' = [req EXCEPT ![r].step = "announceEdit", ![r].text = messages[req[r].msg].text]
       ELSE Goto(r, "done")
    /\ UNCHANGED <<tables, others, shown, history, pinCache>>

(* A device replaces the text of a message it shows.                       *)
NotifyMessageEdited(r) ==
    /\ At(r, "announceEdit")
    /\ LET m == req[r].msg
           us == {u \in {req[r].who, req[r].other} : shown[u][m] # None}
       IN  /\ Show(us, m, req[r].text)
           /\ behind' = Behind(us, m, req[r].text)
    /\ Goto(r, "done")
    /\ UNCHANGED <<tables, others, stored, pushed, lost, unaware, returned, pinCache>>

(* requireSentFile: the service cannot read which file the message has.    *)
IsSentFile(m, file) == file = None \/ fileOf[file] = <<messages[m].from, messages[m].to>>

(* The app names the file that goes with the message, any of the pair.     *)
DeleteMessage(r, u, m, forEveryone, file) ==
    /\ Free(r, "delete")
    /\ req' = [req EXCEPT ![r] =
         IF Party(u, m) /\ (forEveryone => Sender(u, m) /\ IsSentFile(m, file))
         THEN [Sent("delete", IF forEveryone THEN "remove" ELSE "hide", u,
                    CHOOSE v \in Users : {u, v} = {messages[m].from, messages[m].to}, m)
                 EXCEPT !.flag = forEveryone, !.file = IF forEveryone THEN file ELSE None]
         ELSE Sent("delete", "done", u, u, None)]
    /\ UNCHANGED <<tables, others, shown, history, pinCache>>

(* The row refers to the message: it fails if that is gone.                *)
Hide(r) ==
    /\ At(r, "hide")
    /\ IF Exists(req[r].msg)
       THEN /\ hiddenFrom' = hiddenFrom \cup {<<req[r].who, req[r].msg>>}
            /\ Goto(r, "announceDelete")
       ELSE Goto(r, "done") /\ UNCHANGED hiddenFrom
    /\ UNCHANGED <<messages, archived, cleared, others, shown, history, pinCache>>

RemoveMessage(r) ==
    /\ At(r, "remove")
    /\ DeleteRows({req[r].msg} \cap {m \in Messages : Sender(req[r].who, m)})
    /\ Goto(r, IF req[r].file # None THEN "removeFile" ELSE "announceDelete")
    /\ UNCHANGED <<archived, cleared, others, shown, history, pinCache>>

(* A file left behind is logged rather than failing.                       *)
RemoveFile(r) ==
    /\ At(r, "removeFile")
    /\ LET f == req[r].file
       IN  \/ /\ files' = files \ {f}
              /\ lost' = IF f = req[r].msg THEN lost ELSE lost \cup {f}
           \/ UNCHANGED <<files, lost>>
    /\ Goto(r, "announceDelete")
    /\ UNCHANGED <<tables, fileOf, blocked, outOfDate, aged, clock, mix, shown, stored, pushed, behind,
                   unaware, returned, pinCache>>

(* A fault: only the devices of who deleted are told.                      *)
ToldOfOwn(r) == {req[r].who}

ToldOf(r) == IF req[r].flag THEN {req[r].who, req[r].other} ELSE {req[r].who}

NotifyMessageDeleted(r) ==
    /\ At(r, "announceDelete")
    /\ Show(ToldOf(r), req[r].msg, None)
    /\ Goto(r, "done")
    /\ UNCHANGED <<tables, others, history, pinCache>>

MessageActions(r) ==
    \/ \E u \in Users, m \in Messages :
         \/ \E t \in 1..MaxText : Edit(r, u, m, t)
         \/ \E forEveryone \in BOOLEAN, file \in Messages \cup {None} :
              DeleteMessage(r, u, m, forEveryone, file)
    \/ UpdateText(r) \/ RereadMessage(r) \/ NotifyMessageEdited(r)
    \/ Hide(r) \/ RemoveMessage(r) \/ RemoveFile(r) \/ NotifyMessageDeleted(r)

-----------------------------------------------------------------------------
(* A conversation.                                                         *)

(* A fault: who deletes a conversation for themselves deletes its files.   *)
FilesOfCleared(op) == IF op \in {"clear", "deleteAll"} THEN "sentFolder" ELSE "announceState"

AfterWrite(op) == IF op = "deleteAll" THEN "sentFolder" ELSE "announceState"

(* The time is read, then the row is written.                              *)
ChangeConversation(r, op, u, v) ==
    /\ Free(r, op)
    /\ u # v
    /\ req' = [req EXCEPT ![r] = [Sent(op, "write", u, v, None) EXCEPT !.at = clock]]
    /\ UNCHANGED <<tables, others, shown, history, pinCache>>

WriteState(r) ==
    /\ At(r, "write")
    /\ LET p == <<req[r].who, req[r].other>>
       IN  \/ /\ req[r].op = "archive"
              /\ archived' = [archived EXCEPT ![p] = req[r].at]
              /\ UNCHANGED cleared
           \/ /\ req[r].op = "unarchive"
              /\ archived' = [archived EXCEPT ![p] = Never]
              /\ UNCHANGED cleared
           \/ /\ req[r].op = "clear"
              /\ cleared' = [cleared EXCEPT ![p] = req[r].at]
              /\ archived' = [archived EXCEPT ![p] = Never]
    /\ Goto(r, AfterWrite(req[r].op))
    /\ UNCHANGED <<messages, hiddenFrom, others, shown, history, pinCache>>

(* deleteForEveryone: one transaction, then two folders, one after the     *)
(* other; a failure leaves the rest.                                       *)
DeleteConversation(r) ==
    /\ At(r, "write")
    /\ req[r].op = "deleteAll"
    /\ LET u == req[r].who
           v == req[r].other
       IN  /\ DeleteRows(Conversation(u, v))
           /\ archived' = [p \in Pairs |-> IF p \in {<<u, v>>, <<v, u>>} THEN Never ELSE archived[p]]
           /\ cleared' = [p \in Pairs |-> IF p \in {<<u, v>>, <<v, u>>} THEN Never ELSE cleared[p]]
    /\ Goto(r, AfterWrite("deleteAll"))
    /\ UNCHANGED <<others, shown, history, pinCache>>

RemoveFolder(r) ==
    /\ req[r] # None /\ req[r].step \in {"sentFolder", "receivedFolder"}
    /\ LET first == req[r].step = "sentFolder"
           folder == IF first THEN <<req[r].who, req[r].other>> ELSE <<req[r].other, req[r].who>>
       IN  \/ /\ files' = files \ {m \in Messages : fileOf[m] = folder}
              /\ Goto(r, IF first THEN "receivedFolder" ELSE "announceState")
           \/ Goto(r, "announceState") /\ UNCHANGED files
    /\ UNCHANGED <<tables, fileOf, blocked, outOfDate, aged, clock, mix, shown, history, pinCache>>

(* Devices drop a history that was cleared.                                *)
NotifyConversationChanged(r) ==
    /\ At(r, "announceState")
    /\ LET u == req[r].who
           v == req[r].other
           toldOf == IF req[r].op = "clear" THEN {u} ELSE IF req[r].op = "deleteAll" THEN {u, v} ELSE {}
       IN  shown' = [x \in Users |-> [m \in Messages |->
                       IF x \in toldOf /\ PairOf[m] = {u, v} THEN None ELSE shown[x][m]]]
    /\ Goto(r, "done")
    /\ UNCHANGED <<tables, others, history, pinCache>>

Conversations(r) ==
    \/ \E op \in {"archive", "unarchive", "clear", "deleteAll"}, u, v \in Users :
         ChangeConversation(r, op, u, v)
    \/ WriteState(r) \/ DeleteConversation(r) \/ RemoveFolder(r) \/ NotifyConversationChanged(r)

MarkAsRead(u, v) ==
    /\ "read" \in mix
    /\ \E m \in Conversation(u, v) : messages[m].to = u /\ ~messages[m].read
    /\ messages' = [m \in Messages |->
         IF Exists(m) /\ messages[m].from = v /\ messages[m].to = u
         THEN [messages[m] EXCEPT !.read = TRUE] ELSE messages[m]]
    /\ UNCHANGED <<hiddenFrom, archived, cleared, others, shown, req, history, pinCache>>

(* The account is about to be deleted: the files it sent and received.     *)
EraseFiles(u) ==
    /\ "erase" \in mix
    /\ LET senders == {messages[m].from : m \in {n \in Messages : Exists(n) /\ messages[n].to = u}}
           gone == {m \in Messages :
             fileOf[m] \in {u} \X Users \/ fileOf[m] \in senders \X {u}}
       IN  files' = files \ gone /\ lost' = lost \cup gone
    /\ UNCHANGED <<tables, fileOf, blocked, outOfDate, aged, clock, mix, shown, req, stored, pushed,
                   behind, unaware, returned, pinCache>>

-----------------------------------------------------------------------------
(* Around it: people block each other, an hour passes, time passes.        *)

(* block and unblock; the lists of both are out of date.                   *)
BlockOrUnblock(p) ==
    /\ "block" \in mix
    /\ outOfDate' = outOfDate \cup {p[1], p[2]}
    /\ blocked' = IF p \in blocked THEN blocked \ {p} ELSE blocked \cup {p}
    /\ unaware' = IF p \in blocked THEN unaware
                   ELSE unaware \cup Conversation(p[1], p[2])
    /\ UNCHANGED <<tables, fileOf, files, aged, clock, mix, shown, req, stored, pushed, behind, lost,
                   returned, pinCache>>

(* The cached list is deleted, or one of before that was stored late       *)
(* expires.                                                                *)
ForgetBlocks(u) ==
    /\ u \in outOfDate
    /\ outOfDate' = outOfDate \ {u}
    /\ UNCHANGED <<tables, fileOf, files, blocked, aged, clock, mix, shown, req, history, pinCache>>

HourPasses(m) ==
    /\ "edit" \in mix
    /\ Exists(m) /\ m \notin aged
    /\ aged' = aged \cup {m}
    /\ UNCHANGED <<tables, fileOf, files, blocked, outOfDate, clock, mix, shown, req, history, pinCache>>

Tick ==
    /\ "clear" \in mix \/ "archive" \in mix
    /\ clock < MaxTime
    /\ clock' = clock + 1
    /\ UNCHANGED <<tables, fileOf, files, blocked, outOfDate, aged, mix, shown, req, history, pinCache>>

MessagesNext ==
    \/ \E r \in Requests : Sending(r) \/ MessageActions(r) \/ Conversations(r)
    \/ \E u, v \in Users : MarkAsRead(u, v) \/ \E m \in Messages : CreateUpload(u, v, m)
    \/ \E u \in Users : EraseFiles(u) \/ ForgetBlocks(u)
    \/ \E p \in Pairs : BlockOrUnblock(p)
    \/ \E m \in Messages : HourPasses(m)
    \/ Tick

(* Requests about keys that are more than a guess at the PIN.              *)
Changing == {x \in Asks : ask[x] # None /\ ask[x].op # "unlock"}

(* Bound: presence shares no state with the rest, keys share only the PIN  *)
(* and who is hidden; two requests about keys are more than a guess, and   *)
(* with messages there is one.                                             *)
Next ==
    \/ /\ MessagesNext
       /\ UNCHANGED <<publicKey, backup, oldBackup, hidden, keyCache, ask, tries, apart, presenceVars>>
    \/ /\ "keys" \in mix
       /\ BackupNext
       /\ Cardinality(Changing') <= 2
       /\ "send" \in mix => \E r \in Asks : \A x \in Asks \ {r} : ask'[x] = None
       /\ UNCHANGED <<chatVars, presenceVars>>
    \/ /\ "presence" \in mix
       /\ PresenceNext
       /\ UNCHANGED <<chatVars, backupVars>>

Spec == Init /\ [][Next]_vars

-----------------------------------------------------------------------------
(* What a person is shown.                                                 *)

(* getMessagesWith                                                         *)
View(u, v) ==
    IF hidden[v] THEN {}
    ELSE {m \in Conversation(u, v) : <<u, m>> \notin hiddenFrom
                                     /\ messages[m].at > cleared[<<u, v>>]}

(* A fault: a message that was deleted for oneself still counts.           *)
UnreadWithRemoved(u, v) ==
    {m \in Conversation(u, v) : /\ messages[m].to = u /\ ~messages[m].read
                                /\ messages[m].at > cleared[<<u, v>>]}

(* The count beside a conversation.                                        *)
Unread(u, v) ==
    {m \in Conversation(u, v) : /\ messages[m].to = u /\ ~messages[m].read
                                /\ messages[m].at > cleared[<<u, v>>]
                                /\ <<u, m>> \notin hiddenFrom}

(* isInList, as of the newest message that is not removed.                 *)
IsInList(u, v, list) ==
    \E m \in Conversation(u, v) :
        /\ <<u, m>> \notin hiddenFrom
        /\ \A n \in Conversation(u, v) : <<u, n>> \in hiddenFrom \/ messages[n].at <= messages[m].at
        /\ messages[m].at > cleared[<<u, v>>]
        /\ (list = "archived") = (messages[m].at <= archived[<<u, v>>])

-----------------------------------------------------------------------------
(* Properties.                                                             *)

(* A message is pushed once for each time it is stored, however often it   *)
(* is sent again: "a retried one does not ping them twice".                *)
PushedOnce == \A m \in Messages : pushed[m] <= stored[m]

(* Once everything about a message is done, a device that shows it shows   *)
(* what is stored and what its owner did not remove, unless the last word  *)
(* it heard was overtaken (chat.gateway.ts, message-actions.controller.ts).*)
ShownIsStored ==
    \A u \in Users, m \in Messages :
        /\ shown[u][m] # None
        /\ m \notin behind
        /\ \A r \in {x \in Requests : req[x] # None} :
             req[r].step = "done" \/ (req[r].msg # m /\ req[r].op \notin {"clear", "deleteAll"})
        => /\ Exists(m)
           /\ messages[m].text = shown[u][m]
           /\ ~Removed(u, m)

(* A message that came with a file has it as long as it is there, unless   *)
(* files of its conversation were being deleted when it was stored, the    *)
(* app named its file with the deletion of another message, or the account *)
(* is going (chat-attachment.service.ts).                                  *)
FileIsThere ==
    \A m \in Messages : Exists(m) /\ messages[m].file /\ m \notin lost => m \in files

(* Refuted: "a deleted message only takes its own file along"              *)
(* (chat-attachment.service.ts).                                           *)
OwnFileOnly ==
    [][\A r \in Requests : At(r, "removeFile") /\ RemoveFile(r) =>
                             files \ files' \subseteq {req[r].msg}]_vars

(* Nobody is written to across a block, unless the block came after the    *)
(* question, the user service could not be asked, or it answered from a    *)
(* list of before the block (block-checker.ts, blocks.service.ts).         *)
NoMessageAcrossBlock ==
    \A m \in Messages :
        Exists(m) /\ m \notin unaware =>
            blocked \cap {<<messages[m].from, messages[m].to>>, <<messages[m].to, messages[m].from>>} = {}

(* Refuted: blocked people "can no longer message" each other              *)
(* (blocks.service.ts), whatever the answer was given from.                *)
NoMessageWhileBlocked ==
    [][\A m \in Messages : messages[m] = None /\ messages'[m] # None =>
           NotBlocked(messages'[m].from, messages'[m].to)]_vars

(* What is stored was allowed, is pushed once and has its file, however    *)
(* sends, blocks and deletions meet.                                       *)
SentAsMeant == PushedOnce /\ NoMessageAcrossBlock /\ FileIsThere

(* Every unread message that is counted can be read, in a conversation     *)
(* that is listed: no badge without a message (chat.service.ts).           *)
UnreadIsListed ==
    \A p \in Pairs :
        ~hidden[p[2]] /\ Unread(p[1], p[2]) # {} =>
            /\ Unread(p[1], p[2]) \subseteq View(p[1], p[2])
            /\ IsInList(p[1], p[2], "main") \/ IsInList(p[1], p[2], "archived")

(* What people see of their messages is what there is.                     *)
SeenIsStored == ShownIsStored /\ UnreadIsListed

(* "A reply never brings back what they removed" (message-view.ts).        *)
ReplyBringsNothingBack == returned = {}

=============================================================================
