------------------------------ MODULE ToolStore ------------------------------
(***************************************************************************)
(* The tool list of one server as the proxies on a machine keep it: what   *)
(* the server offers, the list each process shows (mcp.ToolCache), its     *)
(* memory of the store (toolstore.FileCache), and the file they all share, *)
(* written by cachefile.WriteAtomic.                                       *)
(*                                                                         *)
(* A list is the number of the version it was fetched at, None is no list  *)
(* and Torn the beginning of one.  A list that has expired is as good as   *)
(* none, and so is a file that cannot be read.  A process may be killed at *)
(* any step; what it was writing stays behind.                             *)
(***************************************************************************)
EXTENDS Naturals, FiniteSets

CONSTANTS Fetchers,           \* the goroutines that fill the caches
          Proxies, ProxyOf,   \* the processes, and the one each goroutine belongs to
          MaxVersion

ASSUME ToolStoreAssumption == /\ MaxVersion \in Nat \ {0}
                              /\ ProxyOf \in [Fetchers -> Proxies]

None == 0
Torn == MaxVersion + 1
Lists == 0..MaxVersion

VARIABLES offered,  \* the version the server has now
          shown, memory, up,  \* of each process
          file,     \* the file of the server
          temps,    \* temporary files: whose, what is in them, abandoned for an hour
          doing, list \* where each goroutine is, and the list it carries

storeVars == <<offered, shown, memory, up, file, temps, doing, list>>

TSTypeOK == /\ offered \in 1..MaxVersion /\ file \in Lists \cup {Torn}
            /\ shown \in [Proxies -> Lists \cup {Torn}] /\ memory \in [Proxies -> Lists \cup {Torn}]
            /\ up \in [Proxies -> BOOLEAN]
            /\ temps \subseteq [of : Fetchers, has : Lists \cup {Torn}, old : BOOLEAN, orphan : BOOLEAN]
            /\ doing \in [Fetchers -> {"idle", "load", "read", "show", "fetch", "persist", "write", "rename",
                                       "failed", "robbed"}]
            /\ list \in [Fetchers -> Lists \cup {Torn}]

TSInit == /\ offered = 1 /\ file = None /\ temps = {}
          /\ shown = [p \in Proxies |-> None] /\ memory = [p \in Proxies |-> None]
          /\ up = [p \in Proxies |-> TRUE]
          /\ doing = [g \in Fetchers |-> "idle"] /\ list = [g \in Fetchers |-> None]

Turns(g, here, there) == up[ProxyOf[g]] /\ doing[g] = here /\ doing' = [doing EXCEPT ![g] = there]
Carries(g, v) == list' = [list EXCEPT ![g] = v]
Keeps(f, g) == [f EXCEPT ![ProxyOf[g]] = list[g]]
TempOf(g) == {t \in temps : t.of = g /\ ~t.orphan}

-----------------------------------------------------------------------------
\* PopulateToolCache begins with the persistent list: GetTools looks into its memory ...
Populate(g) == /\ Turns(g, "idle", "load")
               /\ UNCHANGED <<offered, shown, memory, up, file, temps, list>>
\* Mutant: ... or does not.
LoadFile(g) == /\ Turns(g, "load", "read")
               /\ UNCHANGED <<offered, shown, memory, up, file, temps, list>>
LoadMemory(g) ==
  /\ IF memory[ProxyOf[g]] # None THEN Turns(g, "load", "show") /\ Carries(g, memory[ProxyOf[g]])
                                  ELSE Turns(g, "load", "read") /\ UNCHANGED list
  /\ UNCHANGED <<offered, shown, memory, up, file, temps>>

\* ... then into the file, which it reads without the lock and remembers under it.
ReadFile(g) == /\ Turns(g, "read", IF file = None THEN "fetch" ELSE "show")
               /\ Carries(g, file)
               /\ UNCHANGED <<offered, shown, memory, up, file, temps>>
ShowLoaded(g) == /\ Turns(g, "show", "fetch")
                 /\ memory' = Keeps(memory, g) /\ shown' = Keeps(shown, g) /\ Carries(g, None)
                 /\ UNCHANGED <<offered, up, file, temps>>

\* refreshToolCacheFromServers asks the server, which may not answer; the answer is shown
\* at once and SetTools remembers it ...
Fetch(g) == /\ \/ Turns(g, "fetch", "persist") /\ Carries(g, offered)
               \/ Turns(g, "fetch", "idle") /\ Carries(g, None)
            /\ UNCHANGED <<offered, shown, memory, up, file, temps>>
SetTools(g) == /\ Turns(g, "persist", "write")
               /\ shown' = Keeps(shown, g) /\ memory' = Keeps(memory, g)
               /\ UNCHANGED <<offered, up, file, temps, list>>

\* ... and writes the file: WriteAtomic fills a temporary file, or fails half way ...
WriteTemp(g) == /\ \/ /\ Turns(g, "write", "rename")
                      /\ temps' = temps \cup {[of |-> g, has |-> list[g], old |-> FALSE, orphan |-> FALSE]}
                   \/ /\ Turns(g, "write", "failed")
                      /\ temps' = temps \cup {[of |-> g, has |-> Torn, old |-> FALSE, orphan |-> FALSE]}
                /\ UNCHANGED <<offered, shown, memory, up, file, list>>

\* ... and renames it, if it is still there.
Rename(g) == /\ \/ /\ TempOf(g) # {} /\ Turns(g, "rename", "idle") /\ Carries(g, None)
                   /\ \E t \in TempOf(g) : file' = t.has
                   /\ temps' = temps \ TempOf(g)
                \/ /\ TempOf(g) # {} /\ Turns(g, "rename", "failed")
                   /\ UNCHANGED <<file, temps, list>>
                \/ /\ TempOf(g) = {} /\ Turns(g, "rename", "robbed")
                   /\ UNCHANGED <<file, temps, list>>
             /\ UNCHANGED <<offered, shown, memory, up>>

\* The deferred clean-up after an error.
FailWrite(g) == /\ (Turns(g, "failed", "idle") \/ Turns(g, "robbed", "idle")) /\ Carries(g, None)
                /\ temps' = temps \ TempOf(g)
                /\ UNCHANGED <<offered, shown, memory, up, file>>

\* Invalidate of another process, whose memory is its own.
Clear == /\ file # None /\ file' = None
         /\ UNCHANGED <<offered, shown, memory, up, temps, doing, list>>

-----------------------------------------------------------------------------
\* A process is killed; one that starts sweeps the temporary files an hour old.
Kill(p) == LET dead == {g \in Fetchers : ProxyOf[g] = p}
           IN  /\ up[p] /\ up' = [up EXCEPT ![p] = FALSE]
               /\ shown' = [shown EXCEPT ![p] = None] /\ memory' = [memory EXCEPT ![p] = None]
               /\ doing' = [g \in Fetchers |-> IF g \in dead THEN "idle" ELSE doing[g]]
               /\ list' = [g \in Fetchers |-> IF g \in dead THEN None ELSE list[g]]
               /\ temps' = {IF t.of \in dead THEN [t EXCEPT !.orphan = TRUE, !.has = Torn] ELSE t : t \in temps}
               /\ UNCHANGED <<offered, file>>

\* Mutant: the sweep takes every temporary file.
SweepAll(p) == /\ ~up[p] /\ up' = [up EXCEPT ![p] = TRUE] /\ temps' = {}
               /\ UNCHANGED <<offered, shown, memory, file, doing, list>>

SweepTemp(p) == /\ ~up[p] /\ up' = [up EXCEPT ![p] = TRUE] /\ temps' = {t \in temps : ~t.old}
                /\ UNCHANGED <<offered, shown, memory, file, doing, list>>

\* An hour passes: writes take less.  A day passes: what was stored before has expired.
HourPasses == /\ \E t \in temps : t.orphan /\ ~t.old
              /\ temps' = {[t EXCEPT !.old = t.orphan] : t \in temps}
              /\ UNCHANGED <<offered, shown, memory, up, file, doing, list>>
DayPasses == /\ \A g \in Fetchers : doing[g] = "idle"
             /\ file' = None /\ memory' = [p \in Proxies |-> None]
             /\ UNCHANGED <<offered, shown, up, temps, doing, list>>
ServerChanges == /\ offered < MaxVersion /\ offered' = offered + 1
                 /\ UNCHANGED <<shown, memory, up, file, temps, doing, list>>

TSNext == \/ \E g \in Fetchers : \/ Populate(g) \/ LoadMemory(g) \/ ReadFile(g) \/ ShowLoaded(g) \/ Fetch(g)
                                 \/ SetTools(g) \/ WriteTemp(g) \/ Rename(g) \/ FailWrite(g)
          \/ \E p \in Proxies : Kill(p) \/ SweepTemp(p)
          \/ Clear \/ HourPasses \/ DayPasses \/ ServerChanges
TSSpec == TSInit /\ [][TSNext]_storeVars

-----------------------------------------------------------------------------
\* Wherever a writer is killed or fails, nobody ever reads the beginning of a list.
ReadsAreWhole == /\ file # Torn
                 /\ \A g \in Fetchers : doing[g] \in {"show", "fetch"} => list[g] # Torn

\* A write fails only because the disk did: no other process takes its file away.
WritesAreUndisturbed == \A g \in Fetchers : doing[g] # "robbed"

\* A temporary file is being written, or its writer was killed, and it is swept when a
\* process starts an hour later.
TempsHaveWriters == \A t \in temps : t.orphan \/ doing[t.of] \in {"rename", "failed"}

\* What WriteAtomic and SweepTemp promise each other and the readers.
WritesAreAtomic == ReadsAreWhole /\ WritesAreUndisturbed /\ TempsHaveWriters

\* A process whose refreshes do not overlap never replaces a list by an older one,
\* although the file may hold what another process fetched earlier and wrote later.
ListsGoForward == [][\A p \in Proxies : up'[p] => shown'[p] >= shown[p]]_storeVars
=============================================================================
