--------------------------- MODULE ListCacheProofs ---------------------------
(***************************************************************************)
(* Proofs about ListCache for any keys, writers and readers, any batch     *)
(* size, and both kinds of invalidation.                                   *)
(*                                                                         *)
(* NoSurvivors speaks of committed writes only; the argument is about the  *)
(* scan in progress: an entry that was there before the write is either    *)
(* still owed by SCAN or already in the batch to be deleted (Invalidating).*)
(***************************************************************************)
EXTENDS ListCache, TLAPS

Invalidating(w) ==
    /\ wpc[w] = "flushed" => survivors[w] \subseteq Present
    /\ wpc[w] = "scan" => survivors[w] \subseteq pending[w] \cup batch[w]
    /\ wpc[w] \in {"invalidated", "committed", "responded", "done"} => survivors[w] = {}
    /\ wpc[w] \in {"idle", "flushed", "scan"} => w \notin db

IInv ==
    /\ TypeOK
    /\ \A w \in Writers : Invalidating(w)
    /\ NoSurvivors

-----------------------------------------------------------------------------
LEMMA InitInv == Init => IInv
BY DEF Init, IInv, TypeOK, Present, Invalidating, NoSurvivors, WriterPcs

\* Keys leave the cache; the writers' other state stays.
LEMMA DropInv ==
    ASSUME IInv, NEW ks, Drop(ks), UNCHANGED <<db, reader>>,
           batch' \in [Writers -> SUBSET Keys], wpc' \in [Writers -> WriterPcs],
           \A w \in Writers :
               \/ wpc'[w] = wpc[w] /\ batch[w] \subseteq batch'[w] \cup ks
               \/ wpc[w] \in {"flushed", "scan"} /\ wpc'[w] = "invalidated" /\ survivors[w] \subseteq ks
    PROVE  IInv'
<1> USE DEF Drop, Present
<1>1. TypeOK'
  <2>1. DOMAIN entry' = DOMAIN entry \ ks /\ \A k \in DOMAIN entry' : entry'[k] = entry[k]
    OBVIOUS
  <2>2. entry' \in [DOMAIN entry' -> SUBSET Writers] /\ DOMAIN entry' \subseteq Keys
    BY <2>1 DEF IInv, TypeOK
  <2> QED
    BY <2>2 DEF IInv, TypeOK, reader
<1>2. \A w \in Writers : Invalidating(w)'
  BY DEF IInv, TypeOK, Invalidating, WriterPcs
<1>3. NoSurvivors'
  BY DEF IInv, TypeOK, NoSurvivors
<1> QED
  BY <1>1, <1>2, <1>3 DEF IInv

LEMMA FlushInv == ASSUME IInv, NEW w \in Writers, Flush(w) PROVE IInv'
<1> USE DEF Flush, WGoto, Present
<1>1. TypeOK'
  BY DEF IInv, TypeOK, WriterPcs, reader
<1>2. \A v \in Writers : Invalidating(v)'
  BY DEF IInv, TypeOK, Invalidating
<1>3. NoSurvivors'
  BY DEF IInv, TypeOK, NoSurvivors, Invalidating
<1> QED
  BY <1>1, <1>2, <1>3 DEF IInv

LEMMA ScanStartInv == ASSUME IInv, NEW w \in Writers, ScanStart(w) PROVE IInv'
<1> USE DEF ScanStart, WGoto, Present
<1>1. TypeOK'
  BY DEF IInv, TypeOK, WriterPcs, reader
<1>2. \A v \in Writers : Invalidating(v)'
  BY DEF IInv, TypeOK, Invalidating
<1> QED
  BY <1>1, <1>2 DEF IInv, NoSurvivors

LEMMA ScanKeyInv ==
    ASSUME IInv, NEW w \in Writers, NEW k \in Keys, ScanKey(w, k) PROVE IInv'
<1> USE DEF ScanKey, Present
<1>1. TypeOK'
  BY DEF IInv, TypeOK, reader
<1>2. \A v \in Writers : Invalidating(v)'
  BY DEF IInv, TypeOK, Invalidating
<1> QED
  BY <1>1, <1>2 DEF IInv, NoSurvivors

\* The writer's own entries go with its batch, or with the single key.
LEMMA DeleteInv ==
    ASSUME IInv, NEW w \in Writers, DeleteKey(w) \/ DeleteBatch(w) \/ ScanEnd(w)
    PROVE  IInv'
<1> USE DEF WGoto, IInv, TypeOK
<1>1. CASE DeleteKey(w)
  BY <1>1, DropInv DEF DeleteKey, WriterPcs
<1>2. CASE DeleteBatch(w)
  BY <1>2, DropInv DEF DeleteBatch
<1>3. CASE ScanEnd(w)
  <2>1. survivors[w] \subseteq batch[w]
    BY <1>3 DEF ScanEnd, Invalidating
  <2> QED
    BY <1>3, <2>1, DropInv DEF ScanEnd, LastBatch, WriterPcs
<1> QED
  BY <1>1, <1>2, <1>3

LEMMA FinishInv ==
    ASSUME IInv, NEW w \in Writers, Commit(w) \/ Respond(w) \/ WriterFail(w)
    PROVE  IInv'
<1> USE DEF Commit, Respond, WriterFail, WGoto, Present, cache, reader, AtCommit, AtRespond
<1>1. TypeOK'
  BY DEF IInv, TypeOK, WriterPcs
<1>2. \A v \in Writers : Invalidating(v)'
  BY DEF IInv, TypeOK, Invalidating, WriterPcs
<1>3. NoSurvivors'
  BY DEF IInv, TypeOK, NoSurvivors, Invalidating
<1> QED
  BY <1>1, <1>2, <1>3 DEF IInv

\* A reader that does not touch the cache.
LEMMA ReaderInv ==
    ASSUME IInv, NEW r \in Readers,
           Query(r) \/ ReaderFail(r) \/ \E k \in Keys : Hit(r, k) \/ Miss(r, k)
    PROVE  IInv'
<1> USE DEF Query, ReaderFail, Hit, Miss, RGoto, cache, Visible, Present
<1>1. UNCHANGED <<db, cache, wpc, batch>>
  OBVIOUS
<1>2. \A k \in Keys : k \in Present => entry[k] \subseteq Writers
  BY DEF IInv, TypeOK
<1>3. TypeOK'
  BY <1>2 DEF IInv, TypeOK
<1>4. (\A w \in Writers : Invalidating(w)') /\ NoSurvivors'
  BY <1>1 DEF IInv, Invalidating, NoSurvivors
<1> QED
  BY <1>3, <1>4 DEF IInv

LEMMA FillInv == ASSUME IInv, NEW r \in Readers, Fill(r) PROVE IInv'
<1> USE DEF Fill, RGoto, Present
<1>1. TypeOK'
  <2>1. entry' \in [DOMAIN entry' -> SUBSET Writers] /\ DOMAIN entry' \subseteq Keys
    BY DEF IInv, TypeOK
  <2> QED
    BY <2>1 DEF IInv, TypeOK
<1>2. \A w \in Writers : Invalidating(w)'
  BY DEF IInv, TypeOK, Invalidating
<1>3. NoSurvivors'
  BY DEF IInv, TypeOK, NoSurvivors
<1> QED
  BY <1>1, <1>2, <1>3 DEF IInv

LEMMA StepInv == IInv /\ [Next]_vars => IInv'
<1> SUFFICES ASSUME IInv, [Next]_vars PROVE IInv'
  OBVIOUS
<1>1. ASSUME NEW w \in Writers, WriterStep(w) \/ WriterFail(w) PROVE IInv'
  BY <1>1, FlushInv, ScanStartInv, ScanKeyInv, DeleteInv, FinishInv DEF WriterStep
<1>2. ASSUME NEW r \in Readers, ReaderStep(r) \/ ReaderFail(r) PROVE IInv'
  BY <1>2, ReaderInv, FillInv DEF ReaderStep
<1>3. ASSUME NEW r \in Readers, NEW k \in Keys, Hit(r, k) \/ Miss(r, k) PROVE IInv'
  BY <1>3, ReaderInv
<1>4. ASSUME NEW k \in Keys, Expire(k) PROVE IInv'
  BY <1>4, DropInv DEF Expire, IInv, TypeOK
<1>5. CASE UNCHANGED vars
  BY <1>5 DEF vars, IInv, TypeOK, Present, Invalidating, NoSurvivors
<1> QED
  BY <1>1, <1>2, <1>3, <1>4, <1>5 DEF Next

\* The strengthened invariant: where an entry older than a write can still be.
THEOREM Invariance == Spec => []IInv
BY InitInv, StepInv, PTL DEF Spec

\* Every variable keeps its type.
THEOREM TypeCorrect == Spec => []TypeOK
<1>1. IInv => TypeOK
  BY DEF IInv
<1> QED
  BY <1>1, Invariance, PTL

\* When a write commits, no list cached before it is left, for any number of keys
\* and any batch size.
THEOREM InvalidationComplete == Spec => []NoSurvivors
<1>1. IInv => NoSurvivors
  BY DEF IInv
<1> QED
  BY <1>1, Invariance, PTL

=============================================================================
