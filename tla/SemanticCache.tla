---------------------------- MODULE SemanticCache ----------------------------
(***************************************************************************)
(* pkg/cache/semantic_cache.go: the prompt cache and its vectors.          *)
(*                                                                         *)
(* Entries change under the lock of the cache; their vectors live in a     *)
(* store outside, are written before the entry is and deleted by           *)
(* goroutines some time after the entry has gone.  The store may fail at   *)
(* any call.  Which entries are the least recently used ones is left open, *)
(* and so is how similar two prompts are: a search may return any vectors. *)
(***************************************************************************)
EXTENDS Naturals, FiniteSets, Sequences, SequencesExt

CONSTANTS Lookers, Janitor,   \* the callers, and the eviction loop of the cache
          Keys, ToolOf,       \* the prompts, each with the tool it is for
          MaxEntries, MaxJobs

ASSUME SemanticCacheAssumption == /\ Janitor \notin Lookers /\ MaxEntries \in Nat \ {0}
                                  /\ DOMAIN ToolOf = Keys

VARIABLES entry,     \* each prompt's entry: "none", "fresh" or "expired"
          vectors,   \* the prompts that have a vector in the store
          jobs,      \* background deletes that have not reached the store
          cache,     \* "on", "stopping" or "stopped"
          at,        \* each goroutine: what it does next, the prompt it is about, the
                     \* candidates it has yet to look at, the vectors it is to delete
          same,      \* the goroutines whose expired entry is still the one in the map
          leaked     \* vectors a failed, or suppressed, delete has left behind

cacheVars == <<entry, vectors, jobs, cache, at, same, leaked>>

Goroutines == Lookers \cup {Janitor}
NoPrompt == "none"
SCTypeOK == /\ entry \in [Keys -> {"none", "fresh", "expired"}]
            /\ leaked \subseteq vectors /\ vectors \subseteq Keys
            /\ jobs \in Seq(SUBSET Keys) /\ cache \in {"on", "stopping", "stopped"}
            /\ at \in [Goroutines -> [op : {"idle", "remove", "search", "try", "upsert", "insert", "delete"},
                                      key : Keys \cup {NoPrompt}, cands : SUBSET Keys, doomed : SUBSET Keys]]
            /\ same \subseteq Goroutines

Idle == [op |-> "idle", key |-> NoPrompt, cands |-> {}, doomed |-> {}]
SCInit == /\ entry = [k \in Keys |-> "none"] /\ vectors = {} /\ leaked = {} /\ jobs = <<>> /\ cache = "on"
          /\ at = [g \in Goroutines |-> Idle] /\ same = {}

Present == {k \in Keys : entry[k] # "none"}
IsAt(g, op) == at[g].op = op
Becomes(g, state) == at' = [at EXCEPT ![g] = state]
Doing(op, k) == [Idle EXCEPT !.op = op, !.key = k]
\* A search goes on with these candidates, or is over.
Trying(k, ks) == IF ks = {} THEN Idle ELSE [Doing("try", k) EXCEPT !.cands = ks]
\* ... after these vectors are on their way out.
Deleting(k, ks, rest) == [Doing("delete", k) EXCEPT !.cands = rest, !.doomed = ks]
Removes(ks) == /\ entry' = [k \in Keys |-> IF k \in ks THEN "none" ELSE entry[k]]
               /\ same' = {g \in same : at[g].key \notin ks}

-----------------------------------------------------------------------------
\* Get: the exact entry, which answers if it is fresh; without one, a search of the
\* vectors, if the prompt was embedded.
Get(g, k) == /\ IsAt(g, "idle")
             /\ \/ entry[k] = "fresh" /\ UNCHANGED <<at, same>>
                \/ entry[k] = "expired" /\ Becomes(g, Doing("remove", k)) /\ same' = same \cup {g}
                \/ entry[k] = "none" /\ Becomes(g, Doing("search", k)) /\ UNCHANGED same
             /\ UNCHANGED <<entry, vectors, jobs, cache, leaked>>

\* An expired entry is removed unless it has been replaced meanwhile.
RemoveExpired(g) ==
  /\ IsAt(g, "remove")
  /\ IF g \in same THEN Removes({at[g].key}) /\ Becomes(g, Deleting(at[g].key, {at[g].key}, {}))
                   ELSE Becomes(g, Idle) /\ UNCHANGED <<entry, same>>
  /\ UNCHANGED <<vectors, jobs, cache, leaked>>

Search(g) == /\ IsAt(g, "search")
             /\ \E found \in SUBSET vectors : Becomes(g, Trying(at[g].key, found))
             /\ UNCHANGED <<entry, vectors, jobs, cache, same, leaked>>

\* trySemanticHit, for the next candidate: a vector without an entry, or with an expired
\* one, is to be deleted; one of another tool is passed over; a fresh one answers.
TryHit(g, c) ==
  LET k == at[g].key
      rest == at[g].cands \ {c}
  IN  /\ IsAt(g, "try") /\ c \in at[g].cands
      /\ \/ /\ \/ entry[c] = "none"
               \/ entry[c] = "expired" /\ ToolOf[c] = ToolOf[k]
            /\ Removes({c}) /\ Becomes(g, Deleting(k, {c}, rest))
         \/ /\ entry[c] # "none" /\ ToolOf[c] # ToolOf[k]
            /\ Becomes(g, Trying(k, rest)) /\ UNCHANGED <<entry, same>>
         \/ /\ entry[c] = "fresh" /\ ToolOf[c] = ToolOf[k]
            /\ Becomes(g, Idle) /\ UNCHANGED <<entry, same>>
      /\ UNCHANGED <<vectors, jobs, cache, leaked>>

\* Set: the vector first, unless the prompt is not embedded or the store fails ...
Set(g, k) == /\ IsAt(g, "idle")
             /\ \E op \in {"upsert", "insert"} : Becomes(g, Doing(op, k))
             /\ UNCHANGED <<entry, vectors, jobs, cache, same, leaked>>
Upsert(g) == /\ IsAt(g, "upsert") /\ Becomes(g, Doing("insert", at[g].key))
             /\ vectors' = vectors \cup {at[g].key} /\ leaked' = leaked \ {at[g].key}
             /\ UNCHANGED <<entry, jobs, cache, same>>

\* ... then the entry, which makes room if there are too many.
Insert(g) ==
  LET k == at[g].key
      present == Present \cup {k}
      excess == IF Cardinality(present) <= MaxEntries THEN 0
                ELSE Cardinality(present) - MaxEntries + MaxEntries \div 10
  IN  /\ IsAt(g, "insert")
      /\ \E victims \in SUBSET present :
           /\ Cardinality(victims) = excess
           /\ entry' = [j \in Keys |-> IF j \in victims THEN "none" ELSE IF j = k THEN "fresh" ELSE entry[j]]
           /\ same' = {h \in same : at[h].key \notin victims \cup {k}}
           /\ Becomes(g, IF victims = {} THEN Idle ELSE Deleting(k, victims, {}))
      /\ UNCHANGED <<vectors, jobs, cache, leaked>>

\* PurgeTool and PurgeAll.
Purge(g, ks) == /\ IsAt(g, "idle") /\ ks \cap Present # {}
                /\ Removes(ks) /\ Becomes(g, Deleting(NoPrompt, ks \cap Present, {}))
                /\ UNCHANGED <<vectors, jobs, cache, leaked>>

\* An entry reaches its time to live.
Expire(k) == /\ entry[k] = "fresh" /\ entry' = [entry EXCEPT ![k] = "expired"]
             /\ UNCHANGED <<vectors, jobs, cache, at, same, leaked>>

\* Mutant: the loop forgets the vectors of what it evicts.
EvictEntries == /\ cache = "on" /\ IsAt(Janitor, "idle") /\ Removes({k \in Keys : entry[k] = "expired"})
                /\ UNCHANGED <<vectors, jobs, cache, at, leaked>>

\* The loop removes the entries that have expired.
EvictExpired == LET old == {k \in Keys : entry[k] = "expired"}
                IN  /\ cache = "on" /\ IsAt(Janitor, "idle") /\ old # {}
                    /\ Removes(old) /\ Becomes(Janitor, Deleting(NoPrompt, old, {}))
                    /\ UNCHANGED <<vectors, jobs, cache, leaked>>

\* asyncDeleteVector: a goroutine of its own, none once the cache has been stopped ...
AsyncDelete(g) == /\ IsAt(g, "delete") /\ Len(jobs) < MaxJobs
                  /\ Becomes(g, Trying(at[g].key, at[g].cands))
                  /\ IF cache = "on"
                     THEN jobs' = Append(jobs, at[g].doomed) /\ UNCHANGED leaked
                     ELSE leaked' = leaked \cup (at[g].doomed \cap vectors) /\ UNCHANGED jobs
                  /\ UNCHANGED <<entry, vectors, cache, same>>

\* ... which the store serves in any order, or not at all.
Delete(i) == /\ i \in DOMAIN jobs /\ jobs' = RemoveAt(jobs, i)
             /\ \/ vectors' = vectors \ jobs[i] /\ leaked' = leaked \ jobs[i]
                \/ leaked' = leaked \cup (jobs[i] \cap vectors) /\ UNCHANGED vectors
             /\ UNCHANGED <<entry, cache, at, same>>

\* Stop blocks new deletes, then waits for the loop and for the deletes under way.
Stop == /\ cache = "on" /\ cache' = "stopping"
        /\ UNCHANGED <<entry, vectors, jobs, at, same, leaked>>
Stopped == /\ cache = "stopping" /\ IsAt(Janitor, "idle") /\ jobs = <<>> /\ cache' = "stopped"
           /\ UNCHANGED <<entry, vectors, jobs, at, same, leaked>>

SCNext == \/ \E g \in Lookers : \/ \E k \in Keys : Get(g, k) \/ Set(g, k) \/ TryHit(g, k)
                                \/ RemoveExpired(g) \/ Search(g) \/ Upsert(g) \/ Insert(g)
                                \/ \E tool \in {ToolOf[k] : k \in Keys} :
                                     Purge(g, {k \in Keys : ToolOf[k] = tool})
                                \/ Purge(g, Keys)
          \/ \E g \in Goroutines : AsyncDelete(g)
          \/ \E k \in Keys : Expire(k)
          \/ EvictExpired \/ (\E i \in 1..MaxJobs : Delete(i)) \/ Stop \/ Stopped
SCSpec == SCInit /\ [][SCNext]_cacheVars

-----------------------------------------------------------------------------
\* No vector is forgotten: one in the store has an entry, or somebody is about to insert
\* its entry or to delete it, unless the store failed or the cache was being stopped.
VectorsHaveOwners ==
  \A k \in vectors : \/ entry[k] # "none" \/ k \in leaked
                     \/ \E g \in Goroutines : at[g].op = "insert" /\ at[g].key = k
                     \/ \E g \in Goroutines : k \in at[g].doomed
                     \/ \E i \in DOMAIN jobs : k \in jobs[i]

\* Once Stop has returned nothing reaches the store for the cache's own sake, so that it
\* may be closed.
StopDrains == cache = "stopped" => jobs = <<>>

VectorsAreTended == VectorsHaveOwners /\ StopDrains
=============================================================================
