------------------------------ MODULE RpcState ------------------------------
(***************************************************************************)
(* A protocol-state request of the RPC service (get_protocol_state_inner   *)
(* in tycho-indexer/src/services/rpc.rs), composed with PendingDeltas and  *)
(* the extractor.  The request takes three steps between which everything  *)
(* else may move: calculate_versions looks at the pending deltas, then the *)
(* database is read, then pending deltas are merged on top.                *)
(*                                                                         *)
(* A response is the sequence of blocks whose changes were applied, in     *)
(* that order: the state it shows is what those writes leave behind.       *)
(***************************************************************************)
EXTENDS PendingDeltas

CONSTANT Versions    \* requested versions: block numbers, or Now

Now == 0             \* the current timestamp: beyond every buffered block

ASSUME VersionsAssumption == Versions \subseteq Nat

VARIABLE req

rpcVars == <<pdVars, req>>

\* st: "idle", "read" (versions calculated) or "merge" (database read).
\* latest: read the database's latest version, a deltas version is set.
\* blocks: what was read; calm: a ghost, nothing was written, accepted or dropped
\* since the request started.
NoRequest ==
    [st |-> "idle", v |-> Now, latest |-> FALSE, blocks |-> <<>>, calm |-> TRUE]

RpcInit == PdInit /\ req = NoRequest

(***************************************************************************)
(* calculate_versions.  An empty buffer counts as committed; a block that  *)
(* is not seen yet is an error, a timestamp that is not is the latest.     *)
(***************************************************************************)
Status(v) ==
    IF v = Now THEN (IF pending = <<>> THEN "None" ELSE "Unseen")
    ELSE CommitStatus(pending, v)

ReadsLatest(v) == Status(v) = "Uncommitted" \/ (Status(v) = "Unseen" /\ v = Now)

CalculateVersions ==
    /\ req.st = "idle"
    /\ \E v \in Versions :
          /\ Status(v) # "Unseen" \/ v = Now
          /\ req' = [NoRequest EXCEPT !.st = "read", !.v = v, !.latest = ReadsLatest(v)]
    /\ UNCHANGED pdVars

(***************************************************************************)
(* The database read, at the latest version when deltas are to be merged.  *)
(***************************************************************************)
ReadDb ==
    /\ req.st = "read" /\ req.latest
    /\ req' = [req EXCEPT !.st = "merge", !.blocks = db]
    /\ UNCHANGED pdVars

(***************************************************************************)
(* The answer, with which the request ends.  Without a deltas version it   *)
(* is the database at the requested version, which for a block number      *)
(* needs that block; otherwise merge_native_states, with                   *)
(* update_native_state, puts the buffered blocks up to the version on top, *)
(* all of them for a timestamp beyond the last one.                        *)
(***************************************************************************)
StoredUpTo(v) ==
    IF v = Now THEN db ELSE SubSeq(db, 1, FindNumber(db, v))

UpdateFails(v) == IF v = Now THEN pending = <<>> ELSE RangeFails(pending, v)

Updated(blocks, v) ==
    blocks \o (IF v = Now THEN pending ELSE BlockRange(pending, v))

Answers ==
    CASE req.st = "idle" -> FALSE
      [] req.st = "read" -> ~req.latest /\ (req.v = Now \/ FindNumber(db, req.v) # 0)
      [] req.st = "merge" -> ~UpdateFails(req.v)

Answer == IF req.st = "read" THEN StoredUpTo(req.v) ELSE Updated(req.blocks, req.v)

\* The answer, or an error.
Respond ==
    /\ (req.st = "read" /\ ~req.latest) \/ req.st = "merge"
    /\ req' = NoRequest
    /\ UNCHANGED pdVars

\* What a step of another part means for the request.
Watch ==
    req' = IF req.st = "idle" THEN req
           ELSE [req EXCEPT !.calm = @ /\ <<db, seen, pending>>' = <<db, seen, pending>>]

-----------------------------------------------------------------------------
\* The response is exact for a request during which nothing was written and the
\* pending deltas did not change, while no block is staged or lost, for a version
\* not older than the stored one or one served from the database alone: it shows the
\* blocks of the branch up to the version, with no gap, nothing newer and nothing of
\* another branch (calculate_versions, merge_native_states).
Exact(blocks, hist, v) ==
    Elements(blocks) = {b \in Elements(hist) : v = Now \/ b.number <= v}

ResponseIsVersionAtRest ==
    /\ Answers /\ req.calm
    /\ openTx = <<>> /\ task.state # "failed"
    /\ Elements(db) \subseteq Elements(seen)
    /\ req.latest /\ req.v # Now => PersistedHeight <= req.v
    => Exact(Answer, seen, req.v)

=============================================================================
