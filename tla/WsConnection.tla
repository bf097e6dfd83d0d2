---------------------------- MODULE WsConnection ----------------------------
(***************************************************************************)
(* The life of the client's websocket connection (tycho-client/src/        *)
(* deltas.rs, WsDeltasClient): connect starts a task that dials, reads and *)
(* dials again; subscribe and unsubscribe first wait for a connection in   *)
(* ensure_connection; close ends the task.                                 *)
(*                                                                         *)
(* Notify::notify_waiters wakes the futures that exist at that time and    *)
(* leaves nothing for later ones.  Calls run on several threads, and every *)
(* await is a place where another one may run.                             *)
(*                                                                         *)
(* Variables: task, where the task is; inner, whether there is a           *)
(* connection; cmd, the commands to end the task; retryCount; dead; pc of  *)
(* the waiters, of the call of connect and of the call of close; listening *)
(* and woken, the calls with a Notified future and those of it that were   *)
(* notified; drops, the connections lost and attempts failed.              *)
(***************************************************************************)
EXTENDS Naturals

CONSTANTS
    Waiters,        \* calls of subscribe and unsubscribe
    MaxReconnects,
    MaxDrops        \* bound on the connections lost and attempts failed

Connect == "connect"
Callers == Waiters \cup {Connect}

VARIABLES task, inner, cmd, retryCount, dead, pc, closing, listening, woken, drops

vars == <<task, inner, cmd, retryCount, dead, pc, closing, listening, woken, drops>>

Init ==
    /\ task = "none" /\ inner = FALSE /\ cmd = FALSE
    /\ retryCount = 0 /\ dead = FALSE
    /\ pc = [c \in Callers |-> "idle"]
    /\ closing = "idle"
    /\ listening = {} /\ woken = {}
    /\ drops = 0

NotifyWaiters == woken' = woken \cup listening

(***************************************************************************)
(* The task that connect spawns.                                           *)
(***************************************************************************)
Dial ==
    /\ task = "dial" /\ retryCount < MaxReconnects
    /\ \/ task' = "notify" /\ inner' = TRUE /\ UNCHANGED <<retryCount, drops>>
       \/ /\ drops < MaxDrops /\ drops' = drops + 1
          /\ retryCount' = retryCount + 1
          /\ inner' = FALSE
          /\ UNCHANGED task
    /\ UNCHANGED <<cmd, dead, pc, closing, listening, woken>>

Connected ==
    /\ task = "notify"
    /\ NotifyWaiters
    /\ task' = "read"
    /\ UNCHANGED <<inner, cmd, retryCount, dead, pc, closing, listening, drops>>

\* The connection is closed, fails, or is idle for too long.
Dropped ==
    /\ task = "read" /\ drops < MaxDrops
    /\ drops' = drops + 1
    /\ retryCount' = retryCount + 1
    /\ inner' = FALSE
    /\ task' = "dial"
    /\ UNCHANGED <<cmd, dead, pc, closing, listening, woken>>

FatalError ==
    /\ task = "read"
    /\ task' = "end"
    /\ UNCHANGED <<inner, cmd, retryCount, dead, pc, closing, listening, woken, drops>>

\* Mutant: the command ends the connection and not the task.
CommandBreaksInner ==
    /\ task = "read" /\ cmd
    /\ task' = "dial" /\ cmd' = FALSE /\ inner' = FALSE
    /\ UNCHANGED <<retryCount, dead, pc, closing, listening, woken, drops>>

Command ==
    /\ task = "read" /\ cmd
    /\ task' = "end" /\ cmd' = FALSE
    /\ UNCHANGED <<inner, retryCount, dead, pc, closing, listening, woken, drops>>

\* The lock is held from the reset of inner to the end.
EndTask ==
    /\ task = "end" \/ (task = "dial" /\ retryCount >= MaxReconnects)
    /\ inner' = FALSE
    /\ task' = "gone"
    /\ IF retryCount >= MaxReconnects
       THEN dead' = TRUE /\ NotifyWaiters
       ELSE UNCHANGED <<dead, woken>>
    /\ UNCHANGED <<cmd, retryCount, pc, closing, listening, drops>>

(***************************************************************************)
(* ensure_connection                                                       *)
(***************************************************************************)
Goto(c, label) == pc' = [pc EXCEPT ![c] = label]

CheckDead(w) ==
    /\ pc[w] \in {"idle", "loop"}
    /\ Goto(w, IF dead THEN "error" ELSE "check")
    /\ UNCHANGED <<task, inner, cmd, retryCount, dead, closing, listening, woken, drops>>

IsConnected(w) ==
    /\ pc[w] = "check"
    /\ Goto(w, IF inner THEN "ok" ELSE "enable")
    /\ UNCHANGED <<task, inner, cmd, retryCount, dead, closing, listening, woken, drops>>

Enable(w) ==
    /\ pc[w] = "enable"
    /\ listening' = listening \cup {w}
    /\ Goto(w, "recheck")
    /\ UNCHANGED <<task, inner, cmd, retryCount, dead, closing, woken, drops>>

\* Mutant: the future is awaited at once.
RecheckNever(w) ==
    /\ pc[w] = "recheck"
    /\ Goto(w, "wait")
    /\ UNCHANGED <<task, inner, cmd, retryCount, dead, closing, listening, woken, drops>>

\* The future is dropped at the end of the round.
Recheck(w) ==
    /\ pc[w] = "recheck"
    /\ IF inner
       THEN Goto(w, "loop") /\ listening' = listening \ {w} /\ woken' = woken \ {w}
       ELSE Goto(w, "wait") /\ UNCHANGED <<listening, woken>>
    /\ UNCHANGED <<task, inner, cmd, retryCount, dead, closing, drops>>

Awake(w) ==
    /\ pc[w] = "wait" /\ w \in woken
    /\ Goto(w, IF w = Connect THEN "last" ELSE "loop")
    /\ listening' = listening \ {w} /\ woken' = woken \ {w}
    /\ UNCHANGED <<task, inner, cmd, retryCount, dead, closing, drops>>

(***************************************************************************)
(* connect, once, and close, once and after connect has returned           *)
(***************************************************************************)
Spawn ==
    /\ pc[Connect] = "idle"
    /\ task' = "dial" /\ inner' = FALSE
    /\ Goto(Connect, "spawned")
    /\ UNCHANGED <<cmd, retryCount, dead, closing, listening, woken, drops>>

AwaitNotified ==
    /\ pc[Connect] = "spawned"
    /\ listening' = listening \cup {Connect}
    /\ Goto(Connect, "wait")
    /\ UNCHANGED <<task, inner, cmd, retryCount, dead, closing, woken, drops>>

Return ==
    /\ pc[Connect] = "last"
    /\ Goto(Connect, IF inner THEN "ok" ELSE "error")
    /\ UNCHANGED <<task, inner, cmd, retryCount, dead, closing, listening, woken, drops>>

SendClose ==
    /\ closing = "idle" /\ pc[Connect] = "ok"
    /\ cmd' = (cmd \/ inner)
    /\ closing' = "sent"
    /\ UNCHANGED <<task, inner, retryCount, dead, pc, listening, woken, drops>>

MarkDead ==
    /\ closing = "sent"
    /\ dead' = TRUE
    /\ closing' = "marked"
    /\ UNCHANGED <<task, inner, cmd, retryCount, pc, listening, woken, drops>>

NotifyClosed ==
    /\ closing = "marked"
    /\ NotifyWaiters
    /\ closing' = "done"
    /\ UNCHANGED <<task, inner, cmd, retryCount, dead, pc, listening, drops>>

Task == Dial \/ Connected \/ Command \/ EndTask

Wait(w) ==
    CheckDead(w) \/ IsConnected(w) \/ Enable(w) \/ Recheck(w) \/ Awake(w)

CallConnect == Spawn \/ AwaitNotified \/ Awake(Connect) \/ Return

Close == SendClose \/ MarkDead \/ NotifyClosed

Next ==
    \/ Task \/ Dropped \/ FatalError
    \/ CallConnect \/ Close
    \/ \E w \in Waiters : Wait(w)

\* Tasks and calls that can go on are polled; connect is called; nothing obliges
\* the connection to fail or the user to close it, but a close that has begun
\* goes on.
Spec ==
    /\ Init /\ [][Next]_vars
    /\ WF_vars(Task) /\ WF_vars(CallConnect)
    /\ WF_vars(MarkDead \/ NotifyClosed)
    /\ \A w \in Waiters : WF_vars(Wait(w))

-----------------------------------------------------------------------------
(* Properties *)

\* As long as the task lives, every call of subscribe or unsubscribe gets past
\* ensure_connection, with a connection or with an error: no notification is lost
\* while the connection comes and goes and the client is closed.
EnsureReturns ==
    \A w \in Waiters : pc[w] # "idle" ~> pc[w] \in {"ok", "error"} \/ task = "gone"

\* A close that finds a connection ends the task, whatever becomes of that
\* connection before the task reads the command (DeltasClient::close).
CloseEnds == cmd ~> task = "gone"

=============================================================================
