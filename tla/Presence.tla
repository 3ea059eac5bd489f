------------------------------ MODULE Presence ------------------------------
(***************************************************************************)
(* Who is online (chat.gateway.ts): the connections of one person, over    *)
(* all instances of the chat service, and what those who watch them are    *)
(* told.  A connection and its end are each handled by a handler that      *)
(* counts, waits for the answer, and then tells the watchers.  A session   *)
(* that is signed out has its connection closed by a message over Redis.   *)
(***************************************************************************)
EXTENDS Integers, FiniteSets

CONSTANTS
    Sockets,   \* connections of the watched person, each of its own session, made once
    Dismissed, \* bound: those whose session may be signed out
    Watchers   \* connections of others

VARIABLES
    socket,    \* "new", "passed" the handshake, "open" or "closed"
    revoked,   \* sessions:revoked, by the socket of the session
    closeAsked,\* sign-outs that were published and not yet heard
    opening,   \* handleConnection of each socket
    closing,   \* handleDisconnect of each socket
    watching,  \* handleWatchPresence of each watcher
    room,      \* the watchers in presenceRoom
    told,      \* what each watcher was told last
    crossed,   \* handlers ran at once, or a count or a write failed
    slipped,   \* sockets that were past the check when their session was signed out
    missed     \* sockets of a sign-out that Redis did not pass on

(* The last three only remember.                                           *)
signOutVars == <<revoked, closeAsked, slipped, missed>>
presenceVars == <<socket, opening, closing, watching, room, told, crossed, signOutVars>>

ASSUME PresenceAssumption == IsFiniteSet(Sockets) /\ Dismissed \subseteq Sockets

PresenceTypeOK ==
    /\ socket \in [Sockets -> {"new", "passed", "open", "closed"}]
    /\ revoked \cup closeAsked \cup slipped \cup missed \subseteq Dismissed
    /\ opening \in [Sockets -> {"idle", "count", "tell"}]
    /\ closing \in [Sockets -> {"idle", "count", "mark", "tell"}]
    /\ watching \in [Watchers -> {"idle", "count", "online", "offline"}]
    /\ room \subseteq Watchers
    /\ told \in [Watchers -> {"nothing", "online", "offline"}]
    /\ crossed \in BOOLEAN

PresenceInit ==
    /\ socket = [s \in Sockets |-> "new"]
    /\ opening = [s \in Sockets |-> "idle"]
    /\ closing = [s \in Sockets |-> "idle"]
    /\ watching = [w \in Watchers |-> "idle"]
    /\ room = {}
    /\ told = [w \in Watchers |-> "nothing"]
    /\ crossed = FALSE
    /\ revoked = {} /\ closeAsked = {} /\ slipped = {} /\ missed = {}

Open == {s \in Sockets : socket[s] = "open"}

AtRest ==
    /\ \A s \in Sockets : opening[s] = "idle" /\ closing[s] = "idle"
    /\ \A w \in Watchers : watching[w] = "idle"

(* Every instance is asked; without Redis this one counts its own.         *)
ConnectedDevices(n) == n \in 0..Cardinality(Open)
Miscounted(n) == n # Cardinality(Open)

Emit(what) == told' = [w \in Watchers |-> IF w \in room THEN what ELSE told[w]]

-----------------------------------------------------------------------------
(* A fault: a token that is signed is good enough.                         *)
SignedIsEnough(s) == TRUE

Authentic(s) == s \notin revoked

(* The handshake; while Redis does not answer no session counts as         *)
(* signed out.                                                             *)
Authenticate(s) ==
    /\ socket[s] = "new"
    /\ \/ /\ Authentic(s)
          /\ socket' = [socket EXCEPT ![s] = "passed"]
          /\ UNCHANGED missed
       \/ /\ s \in revoked
          /\ socket' = [socket EXCEPT ![s] = "passed"]
          /\ missed' = missed \cup {s}
       \/ /\ s \in revoked
          /\ socket' = [socket EXCEPT ![s] = "closed"]
          /\ UNCHANGED missed
    /\ UNCHANGED <<opening, closing, watching, room, told, crossed, revoked, closeAsked, slipped>>

(* The session is signed out: it is written down, and published.           *)
SignOut(s) ==
    /\ s \notin revoked
    /\ revoked' = revoked \cup {s}
    /\ closeAsked' = closeAsked \cup {s}
    /\ slipped' = IF socket[s] = "passed" THEN slipped \cup {s} ELSE slipped
    /\ UNCHANGED <<socket, opening, closing, watching, room, told, crossed, missed>>

(* The socket joins its rooms before anything is counted.                  *)
Connect(s) ==
    /\ socket[s] = "passed"
    /\ socket' = [socket EXCEPT ![s] = "open"]
    /\ opening' = [opening EXCEPT ![s] = "count"]
    /\ crossed' = (crossed \/ ~AtRest)
    /\ UNCHANGED <<closing, watching, room, told, signOutVars>>

(* A fault: only a socket that is alone no longer counts.                  *)
CameOnlineNever(n) == n <= 0

CameOnline(n) == n <= 1

CountOpen(s) ==
    /\ opening[s] = "count"
    /\ \E n \in 0..Cardinality(Sockets) :
         /\ ConnectedDevices(n)
         /\ n = 0 => socket[s] = "closed"
         /\ opening' = [opening EXCEPT ![s] = IF CameOnline(n) THEN "tell" ELSE "idle"]
         /\ crossed' = (crossed \/ Miscounted(n))
    /\ UNCHANGED <<socket, closing, watching, room, told, signOutVars>>

TellOnline(s) ==
    /\ opening[s] = "tell"
    /\ opening' = [opening EXCEPT ![s] = "idle"]
    /\ Emit("online")
    /\ UNCHANGED <<socket, closing, watching, room, crossed, signOutVars>>

Close(s) ==
    /\ socket' = [socket EXCEPT ![s] = "closed"]
    /\ closing' = [closing EXCEPT ![s] = "count"]
    /\ crossed' = (crossed \/ ~AtRest)

Disconnect(s) ==
    /\ socket[s] = "open"
    /\ Close(s)
    /\ UNCHANGED <<opening, watching, room, told, signOutVars>>

(* Every instance hears of a sign-out and closes what is in the session's  *)
(* room, unless it is not connected to Redis just then.                    *)
HearSignOut(s) ==
    /\ s \in closeAsked
    /\ closeAsked' = closeAsked \ {s}
    /\ \/ /\ IF socket[s] = "open" THEN Close(s) ELSE UNCHANGED <<socket, closing, crossed>>
          /\ UNCHANGED missed
       \/ /\ missed' = missed \cup {s}
          /\ UNCHANGED <<socket, closing, crossed>>
    /\ UNCHANGED <<opening, watching, room, told, revoked, slipped>>

CountClosed(s) ==
    /\ closing[s] = "count"
    /\ \E n \in 0..Cardinality(Sockets) :
         /\ ConnectedDevices(n)
         /\ closing' = [closing EXCEPT ![s] = IF n > 0 THEN "idle" ELSE "mark"]
         /\ crossed' = (crossed \/ Miscounted(n))
    /\ UNCHANGED <<socket, opening, watching, room, told, signOutVars>>

(* If the time cannot be written nobody is told.                           *)
MarkLastSeen(s) ==
    /\ closing[s] = "mark"
    /\ \/ /\ closing' = [closing EXCEPT ![s] = "tell"]
          /\ UNCHANGED crossed
       \/ /\ closing' = [closing EXCEPT ![s] = "idle"]
          /\ crossed' = TRUE
    /\ UNCHANGED <<socket, opening, watching, room, told, signOutVars>>

TellOffline(s) ==
    /\ closing[s] = "tell"
    /\ closing' = [closing EXCEPT ![s] = "idle"]
    /\ Emit("offline")
    /\ UNCHANGED <<socket, opening, watching, room, crossed, signOutVars>>

(* A watcher joins the room first, and is answered after a count.          *)
WatchPresence(w) ==
    /\ watching[w] = "idle"
    /\ w \notin room
    /\ room' = room \cup {w}
    /\ watching' = [watching EXCEPT ![w] = "count"]
    /\ crossed' = (crossed \/ ~AtRest)
    /\ UNCHANGED <<socket, opening, closing, told, signOutVars>>

CountForWatcher(w) ==
    /\ watching[w] = "count"
    /\ \E n \in 0..Cardinality(Sockets) :
         /\ ConnectedDevices(n)
         /\ watching' = [watching EXCEPT ![w] = IF n > 0 THEN "online" ELSE "offline"]
         /\ crossed' = (crossed \/ Miscounted(n))
    /\ UNCHANGED <<socket, opening, closing, room, told, signOutVars>>

AnswerWatcher(w) ==
    /\ watching[w] \in {"online", "offline"}
    /\ told' = [told EXCEPT ![w] = watching[w]]
    /\ watching' = [watching EXCEPT ![w] = "idle"]
    /\ UNCHANGED <<socket, opening, closing, room, crossed, signOutVars>>

UnwatchPresence(w) ==
    /\ watching[w] = "idle"
    /\ w \in room
    /\ room' = room \ {w}
    /\ UNCHANGED <<socket, opening, closing, watching, told, crossed, signOutVars>>

PresenceNext ==
    \/ \E s \in Sockets : \/ Authenticate(s) \/ Connect(s) \/ CountOpen(s) \/ TellOnline(s)
                          \/ Disconnect(s) \/ CountClosed(s) \/ MarkLastSeen(s) \/ TellOffline(s)
    \/ \E s \in Dismissed : SignOut(s) \/ HearSignOut(s)
    \/ \E w \in Watchers : \/ WatchPresence(w) \/ CountForWatcher(w) \/ AnswerWatcher(w)
                           \/ UnwatchPresence(w)

-----------------------------------------------------------------------------
(* "The user is offline once their last device has disconnected"           *)
(* (chat.gateway.ts): with every handler done, a watcher was told last     *)
(* what is the case.                                                       *)
OfflineOnceLastHasGone ==
    AtRest => \A w \in room : told[w] = IF Open = {} THEN "offline" ELSE "online"

(* It is so if handlers follow each other and nothing failed: whoever came *)
(* second, or left before the last, said nothing and had nothing to say.   *)
PresenceIsRight == ~crossed => OfflineOnceLastHasGone

(* "A device that is signed out stops receiving messages at once"          *)
(* (chat.gateway.ts): its connection is closed, or about to be, if Redis   *)
(* passes the sign-out on.                                                 *)
StopsAtOnce ==
    \A s \in revoked \ missed : socket[s] = "open" => s \in closeAsked

(* It is so for every connection but one that was between the check and    *)
(* its room when the session was signed out.                               *)
CutOff ==
    \A s \in revoked \ (missed \cup slipped) : socket[s] = "open" => s \in closeAsked

(* Who is signed out is disconnected, and others are told who is online.   *)
ConnectionsAreKnown == CutOff /\ PresenceIsRight

=============================================================================
