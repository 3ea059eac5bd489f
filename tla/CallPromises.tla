---------------------------- MODULE CallPromises ----------------------------
(***************************************************************************)
(* Calls with a memory of what the phones were sent: which calls they were *)
(* told of and not yet told to stop ringing for, and which devices had     *)
(* their accept answered "ok".                                             *)
(***************************************************************************)
EXTENDS Calls

VARIABLES
    ringing,   \* calls the callee's phones were told of and not told to stop
    told       \* per call, the devices that were told they answered it

cvars == <<vars, ringing, told>>

CInit ==
    /\ Init
    /\ ringing = {}
    /\ told = [c \in CallIds |-> {}]

(* A call is announced in the step that sets its timer.  An accept that is *)
(* answered and an end that is announced both stop the ringing.            *)
CNext ==
    LET answered == {h \in Handlers : LogAnswer(h)}
        ended == {h \in Handlers : AnnounceEnd(h)}
    IN  /\ Next
        /\ ringing' = (ringing \cup (timers' \ timers))
                         \ {handler[h].id : h \in answered \cup ended}
        /\ told' = [c \in CallIds |-> told[c] \cup
                      {handler[h].socket : h \in {g \in answered : handler[g].id = c}}]

CSpec == CInit /\ [][CNext]_cvars

-----------------------------------------------------------------------------
(* "Null when the call is no longer theirs to answer": of the phones that  *)
(* answer a call, one at most is told that it has it.                      *)
OneDeviceAnswers == \A c \in CallIds : Cardinality(told[c]) <= 1

(* "missed and cancelled mean the callee never answered": no phone was     *)
(* told that it answered a call recorded so.                               *)
MissedMeansUnanswered ==
    \A c \in CallIds : log[c].endReason \in {"missed", "cancelled"} => told[c] = {}

(* "Ringing that stops when nobody answers": phones ring only for a call   *)
(* that exists, or that a handler or a timer will still stop.              *)
PhonesRingForACall ==
    \A c \in ringing : Exists(c) \/ c \in timers \/ ~Unattended(c)

(* "A record of every call": the history, which lists ended calls, loses   *)
(* none it had.                                                            *)
HistoryKeepsCalls ==
    [][\A c \in CallIds : log[c].status = "ended" => log'[c].status = "ended"]_vars

(* "A connection closed: a call it took part in cannot go on."             *)
DroppedConnectionEndsCall ==
    \A c \in CallIds :
        call[c].status = "active" /\ Unattended(c)
            => {call[c].callerSocket, call[c].calleeSocket} \cap closed = {}
=============================================================================
