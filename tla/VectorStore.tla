---------------------------- MODULE VectorStore ----------------------------
(***************************************************************************)
(* pkg/cache/vectordb/sqlite.go: the store of vectors behind the prompt    *)
(* cache.  Processes that share the default path share one database: a     *)
(* table of rows and, in processes that could load the vec0 extension, an  *)
(* index beside it.  SQLite, which is outside, has one write transaction   *)
(* at a time, lets readers see what is committed, and may fail at any      *)
(* statement; a process may be killed at any moment.                       *)
(*                                                                         *)
(* Vectors are known by how similar and how distant they are to the one    *)
(* that is searched for.                                                   *)
(***************************************************************************)
EXTENDS Integers, Sequences, FiniteSets, SequencesExt, FiniteSetsExt, Functions

CONSTANTS StoreUsers,      \* the processes
          Ids, Vecs,       \* the names of records, and their vectors
          Distance,        \* [Vecs -> as the index measures it]
          NoVec, NoTx,     \* no record of this name; no transaction
          Similarities,    \* what cosines there are, 0 among them
          MaxRows          \* bound: the rows a search by hand goes through

ASSUME VectorStoreAssumption == /\ NoVec \notin Vecs /\ MaxRows \in Nat
                                /\ Similarities \subseteq Int
                                /\ Distance \in [Vecs -> Int]

VARIABLES mode,      \* each process: "off", "manual", or "vec0" if it has the extension
          vecRows,   \* the committed rows of `vectors'
          vecIndex,  \* those of `vec_vectors'
          behind,    \* the names whose index row was not written with their last row
          tx         \* the write transaction: whose it is, and what it is to commit

vecVars == <<mode, vecRows, vecIndex, behind, tx>>

Table == [Ids -> Vecs \cup {NoVec}]
VSTypeOK == /\ mode \in [StoreUsers -> {"off", "manual", "vec0"}]
            /\ vecRows \in Table /\ vecIndex \in Table /\ behind \subseteq Ids
            /\ tx \in {NoTx} \cup [by : StoreUsers, rows : Table, index : Table, behind : SUBSET Ids]

VSInit == /\ mode = [p \in StoreUsers |-> "off"] /\ tx = NoTx
          /\ vecRows = [id \in Ids |-> NoVec] /\ vecIndex = [id \in Ids |-> NoVec] /\ behind = {}

Begins(p, rows, index, late) == tx' = [by |-> p, rows |-> rows, index |-> index, behind |-> late]

-----------------------------------------------------------------------------
\* A process opens the store, with the extension or without; the tables are made if need be,
\* and nothing fills the index from the rows.
OpenStore(p) == /\ mode[p] = "off" /\ (tx # NoTx => tx.by # p)
                /\ \E m \in {"manual", "vec0"} : mode' = [mode EXCEPT ![p] = m]
                /\ UNCHANGED <<vecRows, vecIndex, behind, tx>>

\* A batch is written in its order, so that the last of two records of a name counts, to both
\* tables in one transaction.
BeginUpsert(p, batch) ==
  LET ids == {batch[i].id : i \in DOMAIN batch}
      Written(table) == FoldLeft(LAMBDA t, rec : [t EXCEPT ![rec.id] = rec.vec], table, batch)
  IN  /\ mode[p] # "off" /\ tx = NoTx
      /\ \/ mode[p] = "vec0" /\ Begins(p, Written(vecRows), Written(vecIndex), behind \ ids)
         \/ mode[p] = "manual" /\ Begins(p, Written(vecRows), vecIndex, behind \cup ids)
      /\ UNCHANGED <<mode, vecRows, vecIndex, behind>>

\* Rows are deleted, or the transaction fails; a row of the index that cannot be deleted
\* is logged and left.
BeginDelete(p, ids) ==
  LET Without(table, gone) == [id \in Ids |-> IF id \in gone THEN NoVec ELSE table[id]]
  IN  /\ mode[p] # "off" /\ tx = NoTx
      /\ \E stays \in SUBSET ids :
           /\ mode[p] = "manual" => stays = ids
           /\ Begins(p, Without(vecRows, ids), Without(vecIndex, ids \ stays),
                     (behind \ ids) \cup {id \in stays : vecIndex[id] # NoVec})
      /\ UNCHANGED <<mode, vecRows, vecIndex, behind>>

\* Mutant: the rows are committed before the index is written.
CommitRows == /\ tx # NoTx /\ vecRows' = tx.rows
              /\ IF tx.rows # vecRows
                 THEN UNCHANGED <<vecIndex, behind, tx>>
                 ELSE vecIndex' = tx.index /\ behind' = tx.behind /\ tx' = NoTx
              /\ UNCHANGED mode
Commit == /\ tx # NoTx /\ tx' = NoTx
          /\ vecRows' = tx.rows /\ vecIndex' = tx.index /\ behind' = tx.behind /\ UNCHANGED mode

\* A statement, or the commit, fails.
Rollback == tx # NoTx /\ tx' = NoTx /\ UNCHANGED <<mode, vecRows, vecIndex, behind>>

\* No new statement after Close; a transaction that has begun may still end.
CloseStore(p) == /\ mode[p] # "off" /\ mode' = [mode EXCEPT ![p] = "off"]
                 /\ UNCHANGED <<vecRows, vecIndex, behind, tx>>

KillStore(p) == /\ mode[p] # "off" \/ (tx # NoTx /\ tx.by = p)
                /\ mode' = [mode EXCEPT ![p] = "off"]
                /\ tx' = IF tx # NoTx /\ tx.by = p THEN NoTx ELSE tx
                /\ UNCHANGED <<vecRows, vecIndex, behind>>

Records == [id : Ids, vec : Vecs]
VSNext == \/ \E p \in StoreUsers :
               \/ OpenStore(p) \/ CloseStore(p) \/ KillStore(p)
               \/ \E batch \in BoundedSeq(Records, 2) \ {<<>>} : BeginUpsert(p, batch)
               \/ \E ids \in SUBSET Ids \ {{}} : BeginDelete(p, ids)
          \/ Commit \/ Rollback

VSSpec == VSInit /\ [][VSNext]_vecVars

-----------------------------------------------------------------------------
\* Searches change nothing.  Ten results, unless told how many.
ResultsWanted(k) == IF k <= 0 THEN 10 ELSE k

Live == {id \in Ids : vecRows[id] # NoVec}

\* What a search by the index may return: the nearest rows of the index, ties as they fall,
\* as far as they have a record.
SearchVec0(k) ==
  LET indexed == {id \in Ids : vecIndex[id] # NoVec}
      nearest == {s \in kSubset(Min({ResultsWanted(k), Cardinality(indexed)}), indexed) :
                    \A near \in s, far \in indexed \ s :
                      Distance[vecIndex[near]] <= Distance[vecIndex[far]]}
  IN  {s \cap Live : s \in nearest}

\* The search by hand goes through the rows in the order the database gives them and keeps
\* the k best so far, best first.  Rows are known by their place, and `score' is the cosine,
\* or 0 where there is none.
KeepBest(best, row, score, k) ==
  IF Len(best) = k /\ score[row] <= score[best[k]] THEN best
  ELSE LET pos == Max({i \in 0 .. Len(best) : i = 0 \/ score[best[i]] >= score[row]})
       IN  SubSeq(InsertAt(best, pos + 1, row), 1, Min({k, Len(best) + 1}))

SearchManual(score, k) ==
  FoldLeft(LAMBDA best, row : KeepBest(best, row, score, ResultsWanted(k)),
           <<>>, [i \in 1 .. Len(score) |-> i])

-----------------------------------------------------------------------------
\* Whoever is killed and whatever fails, row and index change together: they differ only
\* where a process without the extension, or a failed delete, was the last to write.
IndexFollows == \A id \in Ids : vecIndex[id] = vecRows[id] \/ id \in behind

\* An index with nothing behind finds as many records as there are, up to what was asked
\* for, and none that was left out is nearer.
NearestAreFound ==
  behind = {} => \A k \in 0 .. Cardinality(Ids) : \A found \in SearchVec0(k) :
    /\ Cardinality(found) = Min({ResultsWanted(k), Cardinality(Live)})
    /\ \A near \in found, far \in Live \ found : Distance[vecRows[near]] <= Distance[vecRows[far]]

\* The search by hand returns what sorting all rows would: the best come first, rows of one
\* score stay in the order of the scan, and no row that was left out belongs before one that
\* was returned.
BestAreFound ==
  \A score \in BoundedSeq(Similarities, MaxRows), k \in 0 .. MaxRows :
    LET found == SearchManual(score, k)
        Before(i, j) == score[i] > score[j] \/ (score[i] = score[j] /\ i < j)
    IN  /\ Len(found) = Min({ResultsWanted(k), Len(score)})
        /\ \A i, j \in DOMAIN found : i < j => Before(found[i], found[j])
        /\ \A i \in DOMAIN found, j \in DOMAIN score \ Range(found) : Before(found[i], j)

VectorsAreKept == IndexFollows /\ NearestAreFound /\ BestAreFound

\* A search by the index that asks for as many records as there are returns all of them.
SearchesAreComplete ==
  (\E p \in StoreUsers : mode[p] = "vec0") /\ Live # {} =>
    \A found \in SearchVec0(Cardinality(Live)) : found = Live
=============================================================================
