------------------------------- MODULE MCStores -------------------------------
(***************************************************************************)
(* What the proxy keeps, in memory and on disk: the budgets, the prompt    *)
(* cache and its vectors, the tool lists, the distilled manifests, the status file and the *)
(* usage record, checked side by side.  `part' says which of them a        *)
(* behaviour is about, and the others stay as they began.                  *)
(***************************************************************************)
EXTENDS Budget, SemanticCache, VectorStore, ToolStore, DistilledCache, RecordFiles

VARIABLE part

fileVars == <<storeVars, distilledVars, statusVars, usageVars>>
mcVars == <<part, budgetVars, cacheVars, vecVars, fileVars>>

MCInit == /\ part \in {"budget", "prompts", "vectors", "tools", "manifests", "status", "usage"}
          /\ BInit /\ SCInit /\ VSInit /\ TSInit /\ DCInit /\ SFInit /\ UFInit

MCNext ==
  /\ UNCHANGED part
  /\ \/ /\ part = "budget" /\ BNext
        /\ UNCHANGED <<cacheVars, vecVars, fileVars>>
     \/ /\ part = "prompts" /\ SCNext
        /\ UNCHANGED <<budgetVars, vecVars, fileVars>>
     \/ /\ part = "vectors" /\ VSNext
        /\ UNCHANGED <<budgetVars, cacheVars, fileVars>>
     \/ /\ part = "tools" /\ TSNext
        /\ UNCHANGED <<budgetVars, cacheVars, vecVars, distilledVars, statusVars, usageVars>>
     \/ /\ part = "manifests" /\ DCNext
        /\ UNCHANGED <<budgetVars, cacheVars, vecVars, storeVars, statusVars, usageVars>>
     \/ /\ part = "status" /\ SFNext
        /\ UNCHANGED <<budgetVars, cacheVars, vecVars, storeVars, distilledVars, usageVars>>
     \/ /\ part = "usage" /\ UFNext
        /\ UNCHANGED <<budgetVars, cacheVars, vecVars, storeVars, distilledVars, statusVars>>

\* Only the status file has fair steps, none of which it can take as it begins.
MCSpec == MCInit /\ [][MCNext]_mcVars /\ SFFairness

\* The caches agree with what is beside them: the prompt cache with the vectors in the store,
\* the rows of the store with its index, and a reader's view of a file with what was written, whoever is killed in between.
CachesAreTended == VectorsAreTended /\ VectorsAreKept /\ WritesAreAtomic

\* The prompts, the processes and the names of the instance.
PromptTools == [k \in {"ask", "plan"} |-> IF k = "ask" THEN "search" ELSE "write"]
OneEach == [g \in {"g1", "g2"} |-> IF g = "g1" THEN "p1" ELSE "p2"]
Names == {<<"a">>, <<"a", "_", "b">>, <<"a", " ", "b">>}
VecDistance == [x \in {"near", "far"} |-> IF x = "near" THEN 1 ELSE 2]
Cosines == {-1, 0, 1}
=============================================================================
