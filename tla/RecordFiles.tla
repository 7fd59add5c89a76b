----------------------------- MODULE RecordFiles -----------------------------
(***************************************************************************)
(* The two files a proxy keeps up to date while it runs.                   *)
(*                                                                         *)
(* The status file (pkg/statusfile and its callers in cmd): the one that   *)
(* every proxy of a user writes, in place, when it starts and every five   *)
(* seconds until it exits, and removes when it is told to stop.            *)
(*                                                                         *)
(* The usage record (pkg/mcp/adaptive.go): when each tool was offered and  *)
(* used, which adaptive stubs decide from, written aside and renamed.      *)
(* Time is counted in ticks; stubDemoted compares them with the window.    *)
(***************************************************************************)
EXTENDS Naturals, FiniteSets

CONSTANTS Instances, NoFile, TornFile,       \* the status file
          Tools, Window, Interval, MaxTime   \* the usage record

ASSUME StatusFileAssumption == NoFile # TornFile /\ {NoFile, TornFile} \cap Instances = {}
ASSUME UsageAssumption == Window \in Nat /\ Interval \in Nat /\ MaxTime \in Nat \ {0}

-----------------------------------------------------------------------------
\* The status file.
VARIABLES status,   \* whose status the file holds
          life,     \* each proxy: "off", "up", "closing" (the file removed, the pools being
                    \* closed), "exited" or "killed"
          writing,  \* the proxies that have truncated the file and not yet filled it ...
          linked    \* ... and those whose open file is still the one with that name

statusVars == <<status, life, writing, linked>>

SFTypeOK == /\ status \in Instances \cup {NoFile, TornFile}
            /\ life \in [Instances -> {"off", "up", "closing", "exited", "killed"}]
            /\ linked \subseteq writing /\ writing \subseteq Instances

SFInit == /\ status = NoFile /\ life = [i \in Instances |-> "off"]
          /\ writing = {} /\ linked = {}

Lives(i, here, there) == life[i] = here /\ life' = [life EXCEPT ![i] = there]
Running == {i \in Instances : life[i] \in {"up", "closing"}}

-----------------------------------------------------------------------------
\* A proxy starts; one that has exited or was killed may be started again.
Launch(i) == /\ \E here \in {"off", "exited", "killed"} : Lives(i, here, "up")
             /\ UNCHANGED <<status, writing, linked>>

\* Mutant: a proxy leaves the file of another one alone.
TickOwn(i) == /\ i \in Running \ writing /\ status \in {i, NoFile} /\ status' = TornFile
              /\ writing' = writing \cup {i} /\ linked' = linked \cup {i} /\ UNCHANGED life

\* UpdateServers, at once or from the ticker: WriteFile truncates the file ...
Tick(i) == /\ i \in Running \ writing /\ status' = TornFile
           /\ writing' = writing \cup {i} /\ linked' = linked \cup {i} /\ UNCHANGED life

\* ... and fills it, over what another proxy may have filled in meanwhile, or fills a file
\* that has been removed.
Fill(i) == /\ i \in writing
           /\ status' \in IF i \notin linked THEN {status}
                          ELSE IF status = TornFile THEN {i} ELSE {i, TornFile}
           /\ writing' = writing \ {i} /\ linked' = linked \ {i} /\ UNCHANGED life

\* The handler of the signal removes the file, closes the pools and exits; the ticker
\* runs until the process has gone.
RemoveFile(i) == /\ Lives(i, "up", "closing") /\ status' = NoFile /\ linked' = {}
                 /\ UNCHANGED writing
Gone(i) == writing' = writing \ {i} /\ linked' = linked \ {i}
Exit(i) == Lives(i, "closing", "exited") /\ Gone(i) /\ UNCHANGED status
KillInstance(i) == /\ i \in Running /\ life' = [life EXCEPT ![i] = "killed"] /\ Gone(i)
                   /\ UNCHANGED status

SFNext == \E i \in Instances : \/ Launch(i) \/ Tick(i) \/ Fill(i) \/ RemoveFile(i)
                               \/ Exit(i) \/ KillInstance(i)

\* The ticker of a running proxy goes on; none of this can happen before one is launched.
SFFairness == \A i \in Instances : WF_statusVars(Tick(i)) /\ WF_statusVars(Fill(i))
SFSpec == SFInit /\ [][SFNext]_statusVars /\ SFFairness

-----------------------------------------------------------------------------
\* While some proxy stays up the file, whoever removed it or died writing it, comes back
\* to the status of a proxy that is running, once the others have stopped coming and going.
StatusHeals ==
  \A i \in Instances :
    <>[](life[i] = "up" /\ \A j \in Instances \ {i} : life[j] \in {"off", "exited", "killed"})
      => []<>(status = i)

\* docs/commands.md of the file: removed when the server shuts down gracefully.
GracefulExitLeavesNoFile ==
  \A i \in Instances : life[i] = "exited" => status # i

-----------------------------------------------------------------------------
\* The usage record.
Never == 0
NoRecord == [seen |-> Never, used |-> Never]

VARIABLES now, records, dirty, lastSave,  \* the clock and the tracker
          saving, snapshot,               \* a save on its way to the disk, and what it writes
          usageFile, unsaved              \* the file; tools touched since what it holds
                                          \* because the disk failed

usageVars == <<now, records, dirty, lastSave, saving, snapshot, usageFile, unsaved>>

Histories == [Tools -> [seen : 0..MaxTime, used : 0..MaxTime]]
UFTypeOK == /\ now \in 1..MaxTime /\ lastSave \in 0..MaxTime /\ {dirty, saving, unsaved} \subseteq BOOLEAN
            /\ {records, snapshot, usageFile} \subseteq Histories

UFInit == /\ now = 1 /\ dirty = FALSE /\ lastSave = Never /\ saving = FALSE /\ unsaved = FALSE
          /\ records = [t \in Tools |-> NoRecord] /\ snapshot = records /\ usageFile = records

\* touchUsed, when a tool is called, whether a save is under way or not.
TouchUsed(t) == /\ records' = [records EXCEPT ![t] = [seen |-> IF @.seen = Never THEN now ELSE @.seen,
                                                      used |-> now]]
                /\ dirty' = TRUE
                /\ UNCHANGED <<now, lastSave, saving, snapshot, usageFile, unsaved>>

Demoted(r) == r.seen # Never /\ now - (IF r.used # Never THEN r.used ELSE r.seen) > Window

\* stubDemoted, when the tools are listed: one that was never seen is touched instead.
Offer(t) == /\ records[t] = NoRecord
            /\ records' = [records EXCEPT ![t].seen = now] /\ dirty' = TRUE
            /\ UNCHANGED <<now, lastSave, saving, snapshot, usageFile, unsaved>>

\* maybeSave: a copy under the lock, at once when the tools have been listed, and not
\* within the interval after a call ...
MaybeSave(force) == /\ dirty /\ ~saving /\ (force \/ now - lastSave >= Interval)
                    /\ snapshot' = records /\ dirty' = FALSE /\ lastSave' = now /\ saving' = TRUE
                    /\ UNCHANGED <<now, records, usageFile, unsaved>>

\* Mutant: the mark is cleared when the file has been written.
WriteClears == /\ saving /\ saving' = FALSE /\ dirty' = FALSE
               /\ usageFile' = snapshot /\ unsaved' = FALSE
               /\ snapshot' = [t \in Tools |-> NoRecord]
               /\ UNCHANGED <<now, records, lastSave>>

\* ... and a temporary file and a rename without it, or an error that is only logged.
Write == /\ saving /\ saving' = FALSE
         /\ \/ usageFile' = snapshot /\ unsaved' = FALSE
            \/ unsaved' = TRUE /\ UNCHANGED usageFile
         /\ snapshot' = [t \in Tools |-> NoRecord]
         /\ UNCHANGED <<now, records, dirty, lastSave>>

\* The process ends at any step; the next one loads the file.
Reload == /\ records' = usageFile /\ dirty' = FALSE /\ lastSave' = Never /\ unsaved' = FALSE
          /\ saving' = FALSE /\ snapshot' = [t \in Tools |-> NoRecord]
          /\ UNCHANGED <<now, usageFile>>
UsageTick == /\ now < MaxTime /\ now' = now + 1
             /\ UNCHANGED <<records, dirty, lastSave, saving, snapshot, usageFile, unsaved>>

UFNext == \/ \E t \in Tools : TouchUsed(t) \/ Offer(t)
          \/ MaybeSave(TRUE) \/ MaybeSave(FALSE) \/ Write \/ Reload \/ UsageTick
UFSpec == UFInit /\ [][UFNext]_usageVars

-----------------------------------------------------------------------------
\* A tracker with nothing to save has saved everything: a tool touched while the file was
\* being written is not forgotten.
QuietMeansSaved == ~dirty /\ ~saving /\ ~unsaved => usageFile = records
=============================================================================
