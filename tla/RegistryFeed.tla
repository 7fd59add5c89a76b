----------------------------- MODULE RegistryFeed -----------------------------
(***************************************************************************)
(* The feed of pkg/registry: the index of the marketplace that `serve'     *)
(* fetches every hour and `marketplace sync' on demand, the one file where *)
(* every process of the user keeps it, and what `add' makes of the trust   *)
(* score of an entry.                                                      *)
(*                                                                         *)
(* A version of the feed stands for its entries; one of them, the server   *)
(* that `add' asks for, is Listing[v].                                     *)
(***************************************************************************)
EXTENDS Integers, FiniteSets

CONSTANTS Readers,      \* the processes, each with a FeedFetcher
          MaxFeed,      \* bound: versions of the feed
          Listing,      \* the entry of a version
          NoListing     \* the version does not list the server

ASSUME FeedAssumption ==
  /\ MaxFeed \in Nat \ {0} /\ DOMAIN Listing = 1 .. MaxFeed
  /\ \A v \in 1 .. MaxFeed :
       \/ Listing[v] = NoListing
       \/ Listing[v] \in [trust : Int, days : Int, issues : Int, downloads : Int, described : BOOLEAN]

Unread == MaxFeed + 2     \* loadOnce has not run, or has been reset
NoIndex == 0            \* there was no file
TornIndex == MaxFeed + 1

VARIABLES
  upstream,   \* external: the version the marketplace serves
  index, tmp, \* what is in the file and in index.json.tmp: nothing, a version, or torn
  sync,       \* Sync of each process
  memo,       \* cached: what LoadCache gives
  purged,     \* the version for which the hook last purged the prompt cache
  collided,   \* history: a process wrote while another was between writing and renaming
  added       \* the scores of the servers that `add' has let through unasked

feedVars == <<upstream, index, tmp, sync, memo, purged, collided, added>>

NotSyncing == [step |-> "idle"]

RFInit == /\ upstream = 1 /\ index = NoIndex /\ tmp = NoIndex
          /\ sync = [p \in Readers |-> NotSyncing] /\ memo = [p \in Readers |-> Unread]
          /\ purged = [p \in Readers |-> NoIndex] /\ collided = FALSE /\ added = {}

Writing(p) == sync[p].step \in {"write", "rename"}

\* External.
Publish == /\ upstream < MaxFeed /\ upstream' = upstream + 1
           /\ UNCHANGED <<index, tmp, sync, memo, purged, collided, added>>

SyncIs(p, next) == sync' = [sync EXCEPT ![p] = next]

-----------------------------------------------------------------------------
\* Sync, by the ticker of serve or by `marketplace sync'; a fetch that fails changes nothing.
Fetch(p) == /\ sync[p].step = "idle"
            /\ SyncIs(p, [step |-> "compare", version |-> upstream])
            /\ UNCHANGED <<upstream, index, tmp, memo, purged, collided, added>>

\* The feed has changed if the file says so; a file that cannot be read says so.
Compare(p) ==
  /\ sync[p].step = "compare"
  /\ SyncIs(p, [step |-> "open", version |-> sync[p].version,
                changed |-> index # sync[p].version])
  /\ UNCHANGED <<upstream, index, tmp, memo, purged, collided, added>>

\* The file that a process writes: it has the name `at', or none any more.
Opened(p, at) == [step |-> "write", version |-> sync[p].version, changed |-> sync[p].changed,
                  at |-> at]

\* Mutant: the index is written in place.
OpenInPlace(p) ==
  /\ sync[p].step = "open"
  /\ index' = TornIndex /\ SyncIs(p, Opened(p, "index"))
  /\ collided' = (collided \/ \E q \in Readers : Writing(q))
  /\ UNCHANGED <<upstream, tmp, memo, purged, added>>

\* store: WriteFile opens index.json.tmp, which every process shares, and truncates it ...
Open(p) ==
  /\ sync[p].step = "open"
  /\ tmp' = TornIndex /\ SyncIs(p, Opened(p, "tmp"))
  /\ collided' = (collided \/ \E q \in Readers : Writing(q))
  /\ UNCHANGED <<upstream, index, memo, purged, added>>

\* ... and writes, or fails to; two that write one file may leave a mixture in it.
Store(p) ==
  /\ sync[p].step = "write"
  /\ \/ SyncIs(p, NotSyncing) /\ UNCHANGED <<index, tmp>>
     \/ /\ SyncIs(p, [sync[p] EXCEPT !.step = "rename"])
        /\ \E written \in {sync[p].version} \cup (IF collided THEN {TornIndex} ELSE {}) :
             /\ index' = IF sync[p].at = "index" THEN written ELSE index
             /\ tmp' = IF sync[p].at = "tmp" THEN written ELSE tmp
  /\ UNCHANGED <<upstream, memo, purged, collided, added>>

\* The files that others write go with their names.
Moved(p, names) == [q \in Readers |-> IF q = p THEN NotSyncing
                                      ELSE IF Writing(q) THEN [sync[q] EXCEPT !.at = names[@]]
                                      ELSE sync[q]]

\* Rename takes whatever is under the name by now; if nothing is, or if it fails, what is
\* there is removed.  The hook of serve purges the prompt cache if the feed has changed.
RenameIndex(p) ==
  /\ sync[p].step = "rename"
  /\ tmp' = NoIndex
  /\ \/ /\ tmp # NoIndex /\ index' = tmp
        /\ sync' = Moved(p, [tmp |-> "index", index |-> "none", none |-> "none"])
        /\ memo' = [memo EXCEPT ![p] = sync[p].version]
        /\ purged' = IF sync[p].changed THEN [purged EXCEPT ![p] = sync[p].version] ELSE purged
     \/ /\ sync' = Moved(p, [tmp |-> "none", index |-> "index", none |-> "none"])
        /\ UNCHANGED <<index, memo, purged>>
  /\ UNCHANGED <<upstream, collided, added>>

\* LoadCache reads the file once; after an error it will read it again.
LoadCache(p) ==
  /\ memo[p] = Unread /\ sync[p].step = "idle"
  /\ memo' = [memo EXCEPT ![p] = IF index = TornIndex THEN Unread ELSE index]
  /\ UNCHANGED <<upstream, index, tmp, sync, purged, collided, added>>

\* The process exits, or is killed in the middle of a sync.
Leaves(p) == /\ memo' = [memo EXCEPT ![p] = Unread] /\ purged' = [purged EXCEPT ![p] = NoIndex]
             /\ SyncIs(p, NotSyncing)
             /\ UNCHANGED <<upstream, index, tmp, collided, added>>

-----------------------------------------------------------------------------
(* The trust score: the one the marketplace gives, or what the age of the   *)
(* last release (in days), the open issues and the downloads are worth.     *)

\* What n is worth, by the first bound it is below.
Worth(n, steps, rest) ==
  IF \E i \in DOMAIN steps : n < steps[i][1]
    THEN steps[CHOOSE i \in DOMAIN steps : n < steps[i][1]
                                           /\ \A j \in 1 .. i - 1 : n >= steps[j][1]][2]
    ELSE rest

ReleaseRecencyScore(days) == Worth(days, << <<31, 30>>, <<91, 20>>, <<366, 10>> >>, 0)
IssueScore(n) == Worth(n, << <<5, 25>>, <<20, 15>>, <<100, 5>> >>, 0)
DownloadScore(n) ==
  Worth(n, << <<100, 5>>, <<1000, 10>>, <<10000, 15>>, <<100000, 20>> >>, 25)

\* An entry without open issues gets nothing for that; one of which nothing at all is known
\* is trusted.  `days' is -1 when there is no date.
CalculateTrustScore(e) ==
  IF e.trust > 0 THEN e.trust
  ELSE IF e.days < 0 /\ e.issues = 0 /\ e.downloads = 0 /\ ~ e.described THEN 100
  ELSE (IF e.days >= 0 THEN ReleaseRecencyScore(e.days) ELSE 0)
         + (IF e.issues > 0 THEN IssueScore(e.issues) ELSE 0)
         + (IF e.downloads > 0 THEN DownloadScore(e.downloads) ELSE 0)

IsLowTrust(score) == score < 40

\* Mutant: an entry that is not found passes.
PassesUnknown(entry, acknowledged) ==
  entry = NoListing \/ acknowledged \/ ~ IsLowTrust(CalculateTrustScore(entry))

\* runAdd: an entry with a low score, or without one, must be acknowledged.
Passes(entry, acknowledged) ==
  acknowledged \/ (entry # NoListing /\ ~ IsLowTrust(CalculateTrustScore(entry)))

\* `add' takes what LoadCache has given.
AddFromIndex(p) ==
  /\ memo[p] \in 1 .. MaxFeed
  /\ \E acknowledged \in BOOLEAN :
       /\ Passes(Listing[memo[p]], acknowledged)
       /\ added' = IF acknowledged THEN added ELSE added \cup {Listing[memo[p]]}
  /\ UNCHANGED <<upstream, index, tmp, sync, memo, purged, collided>>

RFNext == \/ Publish
          \/ \E p \in Readers : \/ Fetch(p) \/ Compare(p) \/ Open(p) \/ Store(p) \/ RenameIndex(p)
                                \/ LoadCache(p) \/ Leaves(p) \/ AddFromIndex(p)

RFSpec == RFInit /\ [][RFNext]_feedVars

-----------------------------------------------------------------------------
\* The index is whole, whoever stops in the middle of writing it, unless two processes have
\* used the temporary file at a time; nobody keeps a torn one in memory; and a server that
\* nobody vouched for has a score that is not low, and at most 100 where it was computed.
FeedIsSound ==
  /\ index = TornIndex => collided
  /\ \A p \in Readers : memo[p] # TornIndex
  /\ \A e \in added : /\ e # NoListing /\ CalculateTrustScore(e) >= 40
                      /\ e.trust <= 0 => CalculateTrustScore(e) <= 100

\* The prompt cache is purged whenever the feed that a process works with is another.
HookSeesChanges ==
  [][\A p \in Readers :
       memo[p] \in 1 .. MaxFeed /\ memo'[p] \in 1 .. MaxFeed /\ memo'[p] # memo[p]
         => memo'[p] = purged'[p]]_feedVars
=============================================================================
