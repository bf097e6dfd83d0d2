------------------------------ MODULE RpcCache ------------------------------
(***************************************************************************)
(* The cache of RPC responses (tycho-indexer/src/services/cache.rs), for   *)
(* one request that several handlers ask for at the same time.             *)
(*                                                                         *)
(* Every call that misses puts a placeholder of its own into the cache and *)
(* keeps it locked while it computes the response (the fallback); a call   *)
(* that finds a placeholder waits for the lock.  Handlers run on several   *)
(* threads, so a step of another call fits between any two cache           *)
(* operations.  A handler may be dropped where it awaits, when its client  *)
(* goes away, and the cache may evict the entry at any time.               *)
(*                                                                         *)
(* Variables: pc of each call; entry, the call whose placeholder is in the *)
(* cache, or None; found, the placeholder a call waits for; value, what a  *)
(* placeholder holds, None or the call that computed it; locked, the       *)
(* placeholders whose lock is held; answer, the call whose response a call *)
(* returns; safe, the calls whose response may be cached.                  *)
(***************************************************************************)
EXTENDS Naturals

CONSTANTS
    Calls,
    None    \* a value that is not a call

VARIABLES pc, entry, found, value, locked, answer, safe

vars == <<pc, entry, found, value, locked, answer, safe>>

Init ==
    /\ pc = [i \in Calls |-> "idle"]
    /\ entry = None
    /\ found = [i \in Calls |-> None]
    /\ value = [i \in Calls |-> None]
    /\ locked = {}
    /\ answer = [i \in Calls |-> None]
    /\ safe = {}

Goto(i, label) == pc' = [pc EXCEPT ![i] = label]

Lookup(i) ==
    /\ pc[i] = "idle"
    /\ found' = [found EXCEPT ![i] = entry]
    /\ Goto(i, IF entry = None THEN "miss" ELSE "wait")
    /\ UNCHANGED <<entry, value, locked, answer, safe>>

\* The lock is held while the value is copied and no longer.
ReadValue(i) ==
    /\ pc[i] = "wait" /\ found[i] \notin locked
    /\ answer' = [answer EXCEPT ![i] = value[found[i]]]
    /\ Goto(i, IF value[found[i]] = None THEN "miss" ELSE "done")
    /\ UNCHANGED <<entry, found, value, locked, safe>>

InsertPlaceholder(i) ==
    /\ pc[i] = "miss"
    /\ locked' = locked \cup {i}
    /\ entry' = i
    /\ Goto(i, "fetch")
    /\ UNCHANGED <<found, value, answer, safe>>

\* The fallback returns a response that may be cached; update.
UpdatePlaceholder(i) ==
    /\ pc[i] = "fetch"
    /\ value' = [value EXCEPT ![i] = i]
    /\ locked' = locked \ {i}
    /\ answer' = [answer EXCEPT ![i] = i]
    /\ safe' = safe \cup {i}
    /\ Goto(i, "insert")
    /\ UNCHANGED <<entry, found>>

Reinsert(i) ==
    /\ pc[i] = "insert"
    /\ entry' = i
    /\ Goto(i, "done")
    /\ UNCHANGED <<found, value, locked, answer, safe>>

\* Mutant: the value is stored although it may not be cached.
DropGuardStored(i) ==
    /\ pc[i] = "fetch"
    /\ value' = [value EXCEPT ![i] = i]
    /\ locked' = locked \ {i}
    /\ answer' = [answer EXCEPT ![i] = i]
    /\ Goto(i, "invalidate")
    /\ UNCHANGED <<entry, found, safe>>

\* The fallback returns a response that may not be cached.
DropGuard(i) ==
    /\ pc[i] = "fetch"
    /\ locked' = locked \ {i}
    /\ answer' = [answer EXCEPT ![i] = i]
    /\ Goto(i, "invalidate")
    /\ UNCHANGED <<entry, found, value, safe>>

\* The entry is removed, whoever's it is.
Invalidate(i) ==
    /\ pc[i] = "invalidate"
    /\ entry' = None
    /\ Goto(i, "done")
    /\ UNCHANGED <<found, value, locked, answer, safe>>

\* The fallback fails: the entry is removed before the lock is released.
FallbackFails(i) ==
    /\ pc[i] = "fetch"
    /\ entry' = None
    /\ Goto(i, "failed")
    /\ UNCHANGED <<found, value, locked, answer, safe>>

\* Mutant: the lock stays held.
ReturnErrorLocked(i) ==
    /\ pc[i] = "failed"
    /\ Goto(i, "done")
    /\ UNCHANGED <<entry, found, value, locked, answer, safe>>

ReturnError(i) ==
    /\ pc[i] = "failed"
    /\ locked' = locked \ {i}
    /\ Goto(i, "done")
    /\ UNCHANGED <<entry, found, value, answer, safe>>

\* The handler is dropped; its placeholder stays behind, unlocked and without a
\* value.
Cancel(i) ==
    /\ pc[i] \in {"wait", "fetch"}
    /\ locked' = locked \ {i}
    /\ Goto(i, "done")
    /\ UNCHANGED <<entry, found, value, answer, safe>>

Evict ==
    /\ entry # None
    /\ entry' = None
    /\ UNCHANGED <<pc, found, value, locked, answer, safe>>

Step(i) ==
    \/ Lookup(i) \/ ReadValue(i) \/ InsertPlaceholder(i)
    \/ UpdatePlaceholder(i) \/ Reinsert(i)
    \/ DropGuard(i) \/ Invalidate(i)
    \/ FallbackFails(i) \/ ReturnError(i)

AllDone == (\A i \in Calls : pc[i] = "done") /\ UNCHANGED vars

Next == (\E i \in Calls : Step(i) \/ Cancel(i)) \/ Evict \/ AllDone

\* The runtime polls every handler that can go on, and every query ends.
Spec == Init /\ [][Next]_vars /\ \A i \in Calls : WF_vars(Step(i))

-----------------------------------------------------------------------------
(* Properties *)

\* What a call returns was computed by the call itself or may be cached: no
\* interleaving hands a response marked should_cache = false to another call.
OnlySafeShared == \A i \in Calls : answer[i] \in safe \cup {i, None}

\* Every call ends: none waits for ever on the placeholder of a call that failed,
\* was dropped, was evicted or returned what may not be cached.
AllAnswered == \A i \in Calls : pc[i] # "idle" ~> pc[i] = "done"

=============================================================================
