------------------------------- MODULE DataScope -------------------------------
(***************************************************************************)
(* The data scope of a GraphQL operation (graphql/src/scope.ts): the loads *)
(* resolvers ask for in one turn are flushed together in a microtask, by   *)
(* batch and in chunks; loads of a parent that is being loaded share its   *)
(* promise; aborting the operation rejects all that have not settled.      *)
(*                                                                         *)
(* A batch is named by its key (definition, arguments and selection); a    *)
(* load whose arguments or selection have no key is a batch of its own.    *)
(***************************************************************************)
EXTENDS Naturals, Sequences, SequencesExt

CONSTANTS
    MaxLoads,      \* bound: calls of load()
    Keys,          \* keys of batches
    Parents,       \* parent values
    Primitives,    \* those that are no objects
    MaxBatchSize

Loads   == 1 .. MaxLoads
NoLoad  == 0
Batches == Keys \union Loads

VARIABLES
    called,    \* calls of load()
    parent,    \* the parent of each
    batch,     \* its batch
    shares,    \* the request whose promise it has got: its own or another load's
    waiting,   \* the requests of a batch that have not been flushed
    flushes,   \* the batches with a flush queued as a microtask
    flight,    \* what a flush has left to do, by its first request
    loading,   \* the flushes with a chunk given to the definition's load
    dedup,     \* the request by which a batch loads an object
    pending,   \* #pending
    settled,   \* a request: unsettled, rejected or the parent whose value it has
    aborting   \* the signal is aborted, or the scope closed

vars == <<called, parent, batch, shares, waiting, flushes, flight, loading, dedup,
          pending, settled, aborting>>

NoParent == "none"

Init ==
    /\ called = 0
    /\ parent = [l \in Loads |-> NoParent] /\ batch = [l \in Loads |-> l]
    /\ shares = [l \in Loads |-> NoLoad]
    /\ waiting = [b \in Batches |-> <<>>] /\ flushes = {}
    /\ flight = [l \in Loads |-> <<>>] /\ loading = {}
    /\ dedup = [b \in Batches |-> [p \in Parents |-> NoLoad]]
    /\ pending = {}
    /\ settled = [l \in Loads |-> "unsettled"]
    /\ aborting = FALSE

-----------------------------------------------------------------------------
\* Fault: a flush is queued with the first load of a batch only.
FlushOnCreation(l, b) ==
    flushes' = IF \E m \in Loads : m < l /\ batch[m] = b THEN flushes ELSE flushes \union {b}

\* A flush is queued by the first load since the last one.
QueueFlush(l, b) == flushes' = IF waiting[b] = <<>> THEN flushes \union {b} ELSE flushes

\* load(): throws when aborted, shares the promise of its object, or waits.
Load(p, b) ==
    LET l == called + 1 IN
    /\ called < MaxLoads /\ called' = l
    /\ b \in Keys \union {l}
    /\ parent' = [parent EXCEPT ![l] = p]
    /\ batch' = [batch EXCEPT ![l] = b]
    /\ IF aborting
       THEN /\ settled' = [settled EXCEPT ![l] = "rejected"]
            /\ shares' = [shares EXCEPT ![l] = l]
            /\ UNCHANGED <<waiting, flushes, dedup, pending>>
       ELSE IF dedup[b][p] # NoLoad
       THEN /\ shares' = [shares EXCEPT ![l] = dedup[b][p]]
            /\ UNCHANGED <<waiting, flushes, dedup, pending, settled>>
       ELSE /\ shares' = [shares EXCEPT ![l] = l]
            /\ pending' = pending \union {l}
            /\ QueueFlush(l, b)
            /\ waiting' = [waiting EXCEPT ![b] = Append(@, l)]
            /\ dedup' = IF p \in Primitives THEN dedup ELSE [dedup EXCEPT ![b][p] = l]
            /\ UNCHANGED settled
    /\ UNCHANGED <<flight, loading, aborting>>

\* The promise of an object's load has settled: it is shared no more.
Forget(l) ==
    LET b == batch[l]  p == parent[l] IN
    /\ settled[l] # "unsettled"
    /\ p # NoParent /\ dedup[b][p] = l
    /\ dedup' = [dedup EXCEPT ![b][p] = NoLoad]
    /\ UNCHANGED <<called, parent, batch, shares, waiting, flushes, flight, loading,
                   pending, settled, aborting>>

\* Requests settle; a promise that has settled stays as it is.
Settle(requests, Result(_)) ==
    /\ settled' = [l \in Loads |->
           IF l \in requests /\ settled[l] = "unsettled" THEN Result(l) ELSE settled[l]]
    /\ pending' = pending \ requests

Rejected(l) == "rejected"

\* flush(): what waits is taken, and the flush goes through it in chunks.
Flush(b) ==
    /\ b \in flushes /\ flushes' = flushes \ {b}
    /\ flight' = [flight EXCEPT ![Head(waiting[b])] = waiting[b]]
    /\ waiting' = [waiting EXCEPT ![b] = <<>>]
    /\ UNCHANGED <<called, parent, batch, shares, loading, dedup, pending, settled,
                   aborting>>

ChunkOf(f) == SubSeq(flight[f], 1, IF Len(flight[f]) < MaxBatchSize THEN Len(flight[f]) ELSE MaxBatchSize)
Rest(f)    == SubSeq(flight[f], Len(ChunkOf(f)) + 1, Len(flight[f]))

\* The next chunk: once aborted, chunks are rejected instead.
NextChunk(f) ==
    /\ flight[f] # <<>> /\ f \notin loading
    /\ IF aborting
       THEN /\ Settle(ToSet(flight[f]), Rejected)
            /\ flight' = [flight EXCEPT ![f] = <<>>] /\ UNCHANGED loading
       ELSE loading' = loading \union {f} /\ UNCHANGED <<flight, settled, pending>>
    /\ UNCHANGED <<called, parent, batch, shares, waiting, flushes, dedup, aborting>>

\* The definition's load is over: with a value or an error for each parent of the
\* chunk, or in vain (it threw, its result is no such array, or the signal aborted).
ChunkLoaded(f) ==
    /\ f \in loading /\ loading' = loading \ {f}
    /\ \/ \E errors \in SUBSET ToSet(ChunkOf(f)) :
              /\ ~aborting
              /\ LET Result(l) == IF l \in errors THEN "rejected" ELSE parent[l]
                 IN  Settle(ToSet(ChunkOf(f)), Result)
       \/ Settle(ToSet(ChunkOf(f)), Rejected)
    /\ flight' = [flight EXCEPT ![f] = Rest(f)]
    /\ UNCHANGED <<called, parent, batch, shares, waiting, flushes, dedup, aborting>>

\* The operation's signal aborts, or its view is closed.
Abort ==
    /\ ~aborting /\ aborting' = TRUE
    /\ Settle(pending, Rejected)
    /\ UNCHANGED <<called, parent, batch, shares, waiting, flushes, flight, loading,
                   dedup>>

-----------------------------------------------------------------------------
Microtask ==
    \/ \E b \in Batches : Flush(b)
    \/ \E l \in Loads : Forget(l) \/ NextChunk(l)

ChunkStep == \E l \in Loads : ChunkLoaded(l)

Next ==
    \/ \E p \in Parents, b \in Batches : Load(p, b)
    \/ Microtask \/ ChunkStep \/ Abort

Spec == Init /\ [][Next]_vars

FairSpec == Spec /\ WF_vars(Microtask) /\ WF_vars(ChunkStep)

-----------------------------------------------------------------------------
TypeOK ==
    /\ called \in 0 .. MaxLoads
    /\ parent \in [Loads -> Parents \union {NoParent}]
    /\ batch \in [Loads -> Batches]
    /\ shares \in [Loads -> 0 .. MaxLoads]
    /\ \A b \in Batches : waiting[b] \in Seq(Loads)
    /\ flushes \subseteq Batches /\ loading \subseteq Loads /\ pending \subseteq Loads
    /\ \A l \in Loads : flight[l] \in Seq(Loads)
    /\ dedup \in [Batches -> [Parents -> 0 .. MaxLoads]]
    /\ settled \in [Loads -> Parents \union {"unsettled", "rejected"}]
    /\ aborting \in BOOLEAN

Asked(l)    == l <= called
Outcome(l)  == settled[shares[l]]
Answered(l) == Asked(l) => Outcome(l) # "unsettled"

\* A load has no value but that of its own parent, whatever is flushed or loading when
\* it comes; aborting answers all loads at once; and an object is never loaded twice at
\* a time by one batch.
AnsweredWithOwn ==
    /\ \A l \in Loads : Asked(l) => Outcome(l) \in {"unsettled", "rejected", parent[l]}
    /\ aborting => \A l \in Loads : Answered(l)
    /\ \A l, m \in pending :
           l # m /\ batch[l] = batch[m] /\ parent[l] = parent[m] => parent[l] \in Primitives

\* And every load is answered.
LoadsAreAnswered ==
    /\ []AnsweredWithOwn
    /\ []<>(\A l \in Loads : Answered(l))

=============================================================================
