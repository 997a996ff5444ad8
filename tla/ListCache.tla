------------------------------ MODULE ListCache ------------------------------
(***************************************************************************)
(* The cache-aside lists of GET /projects and GET /tags: readers that fill *)
(* Redis from PostgreSQL, and writers that invalidate it before their      *)
(* transaction commits.                                                    *)
(*                                                                         *)
(* One instance is one namespace: the pages of one owner's project list,   *)
(* invalidated by pattern (SCAN and batches of DEL), or the single key     *)
(* tags:all.  What a list shows is abstracted to the set of writes it      *)
(* reflects.                                                               *)
(***************************************************************************)
EXTENDS Naturals, FiniteSets

CONSTANTS Keys,           \* cache keys of the namespace
          Writers,        \* create, update and delete requests; each runs once
          Readers,        \* slots for list requests
          ByPattern,      \* TRUE: cache_delete_pattern; FALSE: cache_delete
          Batch,          \* keys per DEL (500 in the code)
          ResponseFirst   \* the response leaves before get_db commits

ASSUME ByPatternAssumption == ByPattern \in BOOLEAN
ASSUME BatchAssumption == Batch \in Nat \ {0}
ASSUME ResponseFirstAssumption == ResponseFirst \in BOOLEAN

VARIABLES
    db,         \* writes committed to PostgreSQL
    entry,      \* Redis: the writes that each cached list reflects
    wpc,        \* where each writer is
    pending,    \* keys SCAN still owes the writer: there since it began
    batch,      \* keys collected for the next DEL
    survivors,  \* history: entries there since before the writer's flush
    rpc,        \* where each reader is
    rkey,       \* the page it reads
    snap        \* the list it has in hand

cache == <<entry, pending, survivors>>
reader == <<rpc, rkey, snap>>
vars == <<db, entry, wpc, pending, batch, survivors, rpc, rkey, snap>>

Present == DOMAIN entry

AtCommit == IF ResponseFirst THEN "responded" ELSE "invalidated"
AtRespond == IF ResponseFirst THEN "invalidated" ELSE "committed"

WriterPcs == {"idle", "flushed", "scan", "invalidated", "committed", "responded",
              "done", "failed"}

TypeOK ==
    /\ db \subseteq Writers
    /\ Present \subseteq Keys
    /\ entry \in [Present -> SUBSET Writers]
    /\ wpc \in [Writers -> WriterPcs]
    /\ pending \in [Writers -> SUBSET Keys]
    /\ batch \in [Writers -> SUBSET Keys]
    /\ survivors \in [Writers -> SUBSET Keys]
    /\ rpc \in [Readers -> {"idle", "query", "fill", "answered"}]
    /\ rkey \in [Readers -> Keys]
    /\ snap \in [Readers -> SUBSET Writers]

Init ==
    /\ db = {}
    /\ entry = [k \in {} |-> {}]
    /\ wpc = [w \in Writers |-> "idle"]
    /\ pending = [w \in Writers |-> {}]
    /\ batch = [w \in Writers |-> {}]
    /\ survivors = [w \in Writers |-> {}]
    /\ rpc = [r \in Readers |-> "idle"]
    /\ rkey \in [Readers -> Keys]
    /\ snap = [r \in Readers |-> {}]

WGoto(w, where) == wpc' = [wpc EXCEPT ![w] = where]
RGoto(r, where) == rpc' = [rpc EXCEPT ![r] = where]

\* Keys leave Redis, by DEL or by their TTL: SCAN owes them to nobody any more.
Drop(ks) ==
    /\ entry' = [k \in Present \ ks |-> entry[k]]
    /\ pending' = [w \in Writers |-> pending[w] \ ks]
    /\ survivors' = [w \in Writers |-> survivors[w] \ ks]

-----------------------------------------------------------------------------
\* repo.create, repo.update or repo.delete: flushed, not committed.
Flush(w) ==
    /\ wpc[w] = "idle"
    /\ survivors' = [survivors EXCEPT ![w] = Present]
    /\ WGoto(w, "flushed")
    /\ UNCHANGED <<db, entry, pending, batch, reader>>

\* cache_delete of the namespace's single key
DeleteKey(w) ==
    /\ ~ ByPattern
    /\ wpc[w] = "flushed"
    /\ Drop(Keys)
    /\ WGoto(w, "invalidated")
    /\ UNCHANGED <<db, batch, reader>>

\* cache_delete_pattern.  SCAN returns every key that is there from its beginning
\* to its end, and may return one that comes meanwhile.
ScanStart(w) ==
    /\ ByPattern
    /\ wpc[w] = "flushed"
    /\ pending' = [pending EXCEPT ![w] = Present]
    /\ WGoto(w, "scan")
    /\ UNCHANGED <<db, entry, survivors, batch, reader>>

ScanKey(w, k) ==
    /\ wpc[w] = "scan"
    /\ Cardinality(batch[w]) < Batch
    /\ k \in Present \ batch[w]
    /\ batch' = [batch EXCEPT ![w] = @ \cup {k}]
    /\ pending' = [pending EXCEPT ![w] = @ \ {k}]
    /\ UNCHANGED <<db, entry, wpc, survivors, reader>>

DeleteBatch(w) ==
    /\ wpc[w] = "scan"
    /\ Cardinality(batch[w]) >= Batch
    /\ Drop(batch[w])
    /\ batch' = [batch EXCEPT ![w] = {}]
    /\ UNCHANGED <<db, wpc, reader>>

\* The keys of an incomplete last batch are deleted after the loop.
BugLastBatch(w) == {}
LastBatch(w) == batch[w]
ScanEnd(w) ==
    /\ wpc[w] = "scan"
    /\ pending[w] = {}
    /\ Cardinality(batch[w]) < Batch
    /\ Drop(LastBatch(w))
    /\ batch' = [batch EXCEPT ![w] = {}]
    /\ WGoto(w, "invalidated")
    /\ UNCHANGED <<db, reader>>

Commit(w) ==
    /\ wpc[w] = AtCommit
    /\ db' = db \cup {w}
    /\ WGoto(w, IF ResponseFirst THEN "done" ELSE "committed")
    /\ UNCHANGED <<cache, batch, reader>>

Respond(w) ==
    /\ wpc[w] = AtRespond
    /\ WGoto(w, IF ResponseFirst THEN "responded" ELSE "done")
    /\ UNCHANGED <<db, cache, batch, reader>>

\* Redis or PostgreSQL fails, the worker is killed: what was not committed is
\* rolled back, what was deleted from the cache stays deleted.
WriterFail(w) ==
    /\ wpc[w] \in WriterPcs \ {"idle", "done", "failed"}
    /\ WGoto(w, "failed")
    /\ pending' = [pending EXCEPT ![w] = {}]
    /\ batch' = [batch EXCEPT ![w] = {}]
    /\ UNCHANGED <<db, entry, survivors, reader>>

-----------------------------------------------------------------------------
\* list_for_user and list_all: GET, and on a miss SELECT, then SETEX.
Hit(r, k) ==
    /\ rpc[r] \in {"idle", "answered"}
    /\ k \in Present
    /\ RGoto(r, "answered")
    /\ rkey' = [rkey EXCEPT ![r] = k]
    /\ snap' = [snap EXCEPT ![r] = entry[k]]
    /\ UNCHANGED <<db, cache, wpc, batch>>

Miss(r, k) ==
    /\ rpc[r] \in {"idle", "answered"}
    /\ k \notin Present
    /\ RGoto(r, "query")
    /\ rkey' = [rkey EXCEPT ![r] = k]
    /\ snap' = [snap EXCEPT ![r] = {}]
    /\ UNCHANGED <<db, cache, wpc, batch>>

\* PostgreSQL's READ COMMITTED, taken as given.
BugNested == {db}
Visible == db
Query(r) ==
    /\ rpc[r] = "query"
    /\ snap' = [snap EXCEPT ![r] = Visible]
    /\ RGoto(r, "fill")
    /\ UNCHANGED <<db, cache, wpc, batch, rkey>>

\* cache_set replaces the entry; for SCAN the key has been there all along.
Fill(r) ==
    /\ rpc[r] = "fill"
    /\ entry' = [k \in Present \cup {rkey[r]} |->
                    IF k = rkey[r] THEN snap[r] ELSE entry[k]]
    /\ survivors' = [w \in Writers |-> survivors[w] \ {rkey[r]}]
    /\ RGoto(r, "answered")
    /\ UNCHANGED <<db, wpc, pending, batch, rkey, snap>>

ReaderFail(r) ==
    /\ rpc[r] \in {"query", "fill"}
    /\ RGoto(r, "idle")
    /\ snap' = [snap EXCEPT ![r] = {}]
    /\ UNCHANGED <<db, cache, wpc, batch, rkey>>

\* CACHE_TTL_SECONDS after the SETEX, or an eviction.
BugNoTtl(k) == FALSE
HasTtl(k) == TRUE
Expire(k) ==
    /\ k \in Present
    /\ HasTtl(k)
    /\ Drop({k})
    /\ UNCHANGED <<db, wpc, batch, reader>>

WriterStep(w) ==
    \/ Flush(w) \/ DeleteKey(w) \/ ScanStart(w) \/ DeleteBatch(w) \/ ScanEnd(w)
    \/ Commit(w) \/ Respond(w)
    \/ \E k \in Keys : ScanKey(w, k)

ReaderStep(r) == Query(r) \/ Fill(r)

Next ==
    \/ \E w \in Writers : WriterStep(w) \/ WriterFail(w)
    \/ \E r \in Readers : ReaderStep(r) \/ ReaderFail(r)
    \/ \E r \in Readers, k \in Keys : Hit(r, k) \/ Miss(r, k)
    \/ \E k \in Keys : Expire(k)

Spec == Init /\ [][Next]_vars

\* A reader that missed goes on, and every entry has a TTL.  Nothing is assumed of
\* writers: one may hang for ever between its invalidation and its commit.
FairSpec ==
    /\ Spec
    /\ \A r \in Readers : WF_vars(ReaderStep(r))
    /\ \A k \in Keys : WF_vars(Expire(k))

-----------------------------------------------------------------------------
\* No write commits while an entry from before the write is still cached,
\* whatever other writers delete, readers fill and SCAN happens to return.
NoSurvivors == \A w \in db : survivors[w] = {}

\* A stale list does not outlive its TTL: when the writers are done, the cache
\* ends up with fresh lists only.
EventuallyFresh == <>[](\A k \in Present : entry[k] = db)
=============================================================================
