----------------------- MODULE DynamicContractIndexer -----------------------
(***************************************************************************)
(* What the dynamic contract indexer (dynamic_contract_indexer/dci.rs)     *)
(* does with a block: it traces entry points with their params, learns     *)
(* from the traces which accounts and slots to index and which slot, when  *)
(* it changes, makes the trace out of date, and emits the storage.         *)
(*                                                                         *)
(* There is one entry point, used by several components.  Its call reads   *)
(* the slot Pointer, an address, and then the slots Access[p][t] that      *)
(* params p read in the account t pointed at.  A trace result is the set   *)
(* of the accounts it was pointed at; a failed trace has the result {}.    *)
(* (The database merges the results of one params, so what is loaded from  *)
(* it may have more than one.)  A blacklisted address is treated as a      *)
(* token is, so tokens stand for both.  The order of transactions within a *)
(* block is left out: what is emitted for a slot is its last value.        *)
(*                                                                         *)
(* Variables: cache, as in VersionedCache; chain, the blocks delivered,    *)
(* each with what holds after it; final, the final height; stored, the     *)
(* number of blocks the database is known to hold; nextHash; running.      *)
(***************************************************************************)
EXTENDS Integers, Sequences

CONSTANTS
    Params, Comps, Slots, Targets, Pointer,
    Account,        \* the account of a slot
    Access,         \* Access[p][t]: the slots of account t that params p read
    MaxRetryCount,
    Events,         \* the contents of blocks
    MaxHash,        \* bound on the blocks delivered
    None

VARIABLES cache, chain, final, stored, nextHash, running

vars == <<cache, chain, final, stored, nextHash, running>>

Accounts == {Account[s] : s \in Slots}

EntryKey == <<"entry", "e">>
LinksKey == <<"links", "e">>
RetriggersKey == <<"retriggers", "ptr">>
SetKeys ==
    {LinksKey, RetriggersKey} \cup ({"tracked"} \X Accounts) \cup ({"params"} \X Comps)
Keys ==
    SetKeys \cup {EntryKey} \cup ({"result", "count"} \X Params)
    \cup ({"erc20"} \X Accounts)

C == INSTANCE VersionedCache

(***************************************************************************)
(* The chain.  What holds after a block: the storage; view, the storage    *)
(* as emitted, None for a slot that was never emitted; the components that *)
(* were paused; the params whose last trace failed; and what the database  *)
(* holds once the block is stored.                                         *)
(***************************************************************************)
Genesis ==
    [block |-> [hash |-> 0, parent |-> 0, number |-> 0],
     store |-> [s \in Slots |-> IF s = Pointer THEN CHOOSE t \in Targets : TRUE ELSE 0],
     view |-> [s \in Slots |-> None],
     paused |-> {},
     failed |-> {},
     db |-> [links |-> {}, params |-> {}, tokens |-> {}, results |-> [p \in Params |-> {}]]]

At(i) == IF i = 0 THEN Genesis ELSE chain[i]

Tip == At(Len(chain))

Written(store, slots) ==
    [s \in Slots |-> CASE s \notin slots -> store[s]
                       [] s \in slots /\ s = Pointer -> CHOOSE t \in Targets : t # store[s]
                       [] s \in slots /\ s # Pointer -> 1 - store[s]]

(***************************************************************************)
(* Reading and writing the cache.  A map m is written into the newest      *)
(* layer, where it is not None.                                            *)
(***************************************************************************)
Get(c, k) == C!Get(c, Len(c.pending), k)

Members(v) == IF v = None THEN {} ELSE v

GetAll(c, k) == Members(C!GetAll(c, Len(c.pending), k))

ContainsKey(c, k) == C!GetAll(c, Len(c.pending), k) # None

PutAll(c, m) ==
    [c EXCEPT !.pending[Len(c.pending)].data =
        [k \in Keys |-> IF m[k] = None THEN @[k] ELSE C!Joined(k, @[k], m[k])]]

Result(c, p) == Get(c, <<"result", p>>)

Traced(c, p) == Result(c, p) # None /\ Result(c, p) # {}

Count(c, p) == IF Get(c, <<"count", p>>) = None THEN 0 ELSE Get(c, <<"count", p>>)

ShouldSkipFullIndexing(c, a) == Get(c, <<"erc20", a>>) = TRUE

(***************************************************************************)
(* process_block_update.  A block's content e: links, the components that  *)
(* are linked to the entry point; params, pairs of params and the          *)
(* component they are for; tokens; updated, components whose state or      *)
(* balance changes; slots, which change their value.                       *)
(***************************************************************************)
Seen(e, b) ==
    PutAll(C!EnsureLayer(cache, b),
           [k \in Keys |->
               CASE k = LinksKey /\ e.links # {} -> e.links
                 [] k[1] = "erc20" /\ k[2] \in e.tokens -> TRUE
                 [] OTHER -> None])

ExtractParamsToRetry(c, e) ==
    {p \in Params :
        /\ \E comp \in e.updated : p \in GetAll(c, <<"params", comp>>)
        /\ Result(c, p) = {}
        /\ Count(c, p) < MaxRetryCount}

NewParams(e) == {x[1] : x \in e.params}

Unknown(c, e) ==
    /\ NewParams(e) \cup ExtractParamsToRetry(c, e) # {}
    /\ e.links = {} /\ Get(c, EntryKey) = None

\* Params that are new and not yet traced.
Untraced(c, e) == {p \in NewParams(e) : ~Traced(c, p)}

\* Mutant: only the newest layer that has the location is looked at.
DetectRetriggersNewest(c, e) ==
    IF Pointer \in e.slots THEN Members(Get(c, RetriggersKey)) ELSE {}

DetectRetriggers(c, e) == IF Pointer \in e.slots THEN GetAll(c, RetriggersKey) ELSE {}

ToAnalyze(c, e) == Untraced(c, e) \cup ExtractParamsToRetry(c, e) \cup DetectRetriggers(c, e)

\* The slots that the traces of the params ps access, with the pointer at t.
AccessedSlots(ps, t) ==
    IF ps = {} THEN {} ELSE {Pointer} \cup UNION {Access[p][t] : p \in ps}

SlotsOf(a, slots) == {s \in slots : Account[s] = a}

\* Mutant: slots are only requested for accounts that are new.
StorageRequestNewAccounts(c, accessed) ==
    {s \in Slots :
        LET a == Account[s]
        IN  /\ SlotsOf(a, accessed) # {} /\ ~ContainsKey(c, <<"tracked", a>>)
            /\ ShouldSkipFullIndexing(c, a) => s \in accessed}

\* The slots whose values are requested: all slots of a new account, but of a
\* token only those accessed that the newest layer with the token does not have.
StorageRequest(c, accessed) ==
    {s \in Slots :
        LET a == Account[s]
            newSlots == SlotsOf(a, accessed) \ Members(Get(c, <<"tracked", a>>))
        IN  /\ SlotsOf(a, accessed) # {}
            /\ \/ ~ContainsKey(c, <<"tracked", a>>)
               \/ newSlots # {} /\ ShouldSkipFullIndexing(c, a)
            /\ ShouldSkipFullIndexing(c, a) => s \in newSlots}

\* Mutant: only the components of the newest layer are paused.
ComponentsToPauseNewest(c, bad) == IF bad = {} THEN {} ELSE Members(Get(c, LinksKey))

ComponentsToPause(c, bad) == IF bad = {} THEN {} ELSE GetAll(c, LinksKey)

\* Mutant: the components that this block links.
LinkedComponentsOfBlock(c, e) == e.links

\* The components that new params are noted for: those that the newest layer
\* with links has.
LinkedComponents(c, e) == Members(Get(c, LinksKey))

\* The new params by component, update_cache, and the entry point.
UpdateCache(c, e, good, bad, t) ==
    LET accessed == AccessedSlots(good, t)
    IN  PutAll(c,
               [k \in Keys |->
                   CASE k = EntryKey /\ e.links # {} -> TRUE
                     [] k = RetriggersKey /\ good # {} -> good
                     [] k[1] = "params" /\ k[2] \in LinkedComponents(c, e)
                        /\ Untraced(c, e) # {} -> Untraced(c, e)
                     [] k[1] = "tracked" /\ SlotsOf(k[2], accessed) # {} ->
                           SlotsOf(k[2], accessed)
                     [] k[1] = "result" /\ k[2] \in good -> {t}
                     [] k[1] = "result" /\ k[2] \in bad -> {}
                     [] k[1] = "count" /\ k[2] \in bad -> Count(c, k[2]) + 1
                     [] OTHER -> None])

ExtractTrackedUpdates(c, slots) ==
    {s \in slots :
        LET a == Account[s]
        IN  /\ ContainsKey(c, <<"tracked", a>>)
            /\ ShouldSkipFullIndexing(c, a) => s \in GetAll(c, <<"tracked", a>>)}

\* The database once the block is stored: results are merged, never removed.
Stored(db, e, good, t) ==
    [links |-> db.links \cup e.links,
     params |-> db.params \cup e.params,
     tokens |-> db.tokens \cup e.tokens,
     results |-> [p \in Params |-> db.results[p] \cup (IF p \in good THEN {t} ELSE {})]]

ProcessBlockUpdate(e, b, f) ==
    LET seen == Seen(e, b)
        store == Written(Tip.store, e.slots)
        t == store[Pointer]
    IN  \E bad \in SUBSET ToAnalyze(seen, e) :
          LET good == ToAnalyze(seen, e) \ bad
              updated == UpdateCache(seen, e, good, bad, t)
              emitted == StorageRequest(seen, AccessedSlots(good, t))
                         \cup ExtractTrackedUpdates(updated, e.slots)
          IN  /\ ~C!FinalityFails(updated, f)
              /\ cache' = C!HandleFinality(updated, f)
              /\ chain' = Append(chain,
                    [block |-> b,
                     store |-> store,
                     view |-> [s \in Slots |-> IF s \in emitted THEN store[s] ELSE Tip.view[s]],
                     paused |-> Tip.paused \cup ComponentsToPause(seen, bad),
                     failed |-> (Tip.failed \ good) \cup bad,
                     db |-> Stored(Tip.db, e, good, t)])

Smaller(m, n) == IF m < n THEN m ELSE n

Init ==
    /\ cache = C!NewCache
    /\ chain = <<>>
    /\ final = 0 /\ stored = 0 /\ nextHash = 1
    /\ running = TRUE

\* Params are for a component that is linked, and a link is new.  The final
\* height never goes back; after a start it may be above the block's number.
Block ==
    /\ running /\ nextHash <= MaxHash
    /\ \E e \in Events, f \in {final} \cup (final .. Len(chain) + 1) :
          LET n == Len(chain) + 1
              b == [hash |-> nextHash, parent |-> Tip.block.hash, number |-> n]
          IN  /\ \A x \in e.params : x[2] \in Tip.db.links \cup e.links
              /\ e.links \cap Tip.db.links = {}
              /\ nextHash' = nextHash + 1
              /\ IF Unknown(Seen(e, b), e)
                 THEN running' = FALSE /\ UNCHANGED <<cache, chain, final, stored>>
                 ELSE /\ ProcessBlockUpdate(e, b, Smaller(f, n))
                      /\ final' = f
                      /\ UNCHANGED <<stored, running>>

\* process_revert, and the extractor takes back what it emitted.
Revert ==
    /\ running
    /\ \E i \in final .. Len(chain) - 1 :
          /\ cache' = C!RevertTo(cache, At(i).block.hash)
          /\ chain' = SubSeq(chain, 1, i)
    /\ UNCHANGED <<final, stored, nextHash, running>>

\* initialize: the entry points that have params, their links, the params by
\* component, no result for any params and then the results stored.
Initialize(db) ==
    LET loaded == {p \in NewParams(db) : db.results[p] # {}}
        AccessedBy(p) == UNION {AccessedSlots({p}, t) : t \in db.results[p]}
        ParamsOf(comp) == {p \in Params : <<p, comp>> \in db.params}
        Loaded(set) == IF set = {} THEN None ELSE set
    IN  [permanent |->
            [k \in Keys |->
                CASE k = EntryKey -> IF db.params = {} THEN None ELSE TRUE
                  [] k = LinksKey -> Loaded(db.links)
                  [] k = RetriggersKey -> Loaded(loaded)
                  [] k[1] = "params" -> Loaded(ParamsOf(k[2]))
                  [] k[1] = "tracked" ->
                        Loaded(SlotsOf(k[2], UNION {AccessedBy(p) : p \in loaded}))
                  [] k[1] = "result" ->
                        IF k[2] \in NewParams(db) THEN db.results[k[2]] ELSE None
                  [] k[1] = "count" -> None
                  [] k[1] = "erc20" -> IF k[2] \in db.tokens THEN TRUE ELSE None],
         pending |-> <<>>]

\* The process is started again, after an error or at any time, with what the
\* database holds: some of the final blocks.
Restart ==
    /\ \E i \in stored .. Smaller(final, Len(chain)) :
          /\ cache' = Initialize(At(i).db)
          /\ chain' = SubSeq(chain, 1, i)
          /\ stored' = i
    /\ running' = TRUE
    /\ UNCHANGED <<final, nextHash>>

Next == Block \/ Revert \/ Restart

Spec == Init /\ [][Next]_vars

-----------------------------------------------------------------------------
(* Properties *)

\* Params with a trace result have one for the current storage, unless the last
\* attempt to trace them failed: whenever the pointer that decided over a trace
\* changes, in whichever layers it was registered, the trace is repeated, and a
\* revert takes back both together.
Current == {p \in Params \ Tip.failed : Traced(cache, p)}

Fresh == running => \A p \in Current : Tip.store[Pointer] \in Result(cache, p)

\* What the current trace of params reads was emitted and is up to date:
\* whoever simulates the call has the storage it needs, also where the account
\* is a token of which single slots are indexed, became a token later, or was
\* first accessed by the traces of other params in another layer.
Indexed ==
    running =>
        \A s \in AccessedSlots(Current, Tip.store[Pointer]) : Tip.view[s] = Tip.store[s]

\* As long as the trace of params has failed, every component that the params
\* are for is paused: whether it was linked before the failure or after it, in
\* whichever layer.
FailedPauses ==
    running =>
        \A x \in Tip.db.params : Result(cache, x[1]) = {} => x[2] \in Tip.paused

\* Params whose trace has failed belong to some component whose updates make
\* the indexer try again.
FailedHasRetrier ==
    running =>
        \A p \in Params :
           Result(cache, p) = {} => \E comp \in Comps : p \in GetAll(cache, <<"params", comp>>)

=============================================================================
