------------------------------ MODULE ConfigFile ------------------------------
(***************************************************************************)
(* leanproxy_servers.yaml: the configuration the proxy starts from, and    *)
(* the commands that rewrite it, each a process of its own and none of     *)
(* them locking the file.  `server add', `remove', `enable', `disable' and *)
(* `migrate' read it, change what they read and write it in place; `add'   *)
(* installs a server of the marketplace: it asks whether a server of that  *)
(* name may be replaced, reads the file again and renames a new file over  *)
(* it.  A process that is killed between the truncation and the write      *)
(* leaves an empty file, which reads as a configuration without servers.   *)
(*                                                                         *)
(* A server is its name, whether LoadConfig accepts its entry, and whether *)
(* it is enabled; `extra' stands for every other block of the file.        *)
(***************************************************************************)
EXTENDS Naturals, Sequences, SequencesExt

CONSTANTS Commanders,    \* the processes that run a command
          ServerNames,
          Alias,         \* Alias[n]: the name `migrate' gives to n when n is taken
          MaxServers

ASSUME ConfigAssumption == Alias \in [ServerNames -> ServerNames] /\ MaxServers \in Nat

VARIABLES file, run

configVars == <<file, run>>

Config(servers, extra) == [kind |-> "whole", servers |-> servers, extra |-> extra]
Absent == [kind |-> "absent", servers |-> <<>>, extra |-> FALSE]
Torn == [kind |-> "torn", servers |-> <<>>, extra |-> FALSE]
NoCommand == [step |-> "idle"]

\* What a user may ask for.  `ok' is whether the entry the command writes passes Validate:
\* `server add --transport http' writes one without a url, and `migrate' writes the servers
\* it found whatever the validator says of them; `how' is what `add' is told beforehand.
Commands ==
  [op : {"add", "import"}, name : ServerNames, ok : BOOLEAN, how : {"ask"}]
    \cup [op : {"remove", "enable", "disable"}, name : ServerNames, ok : {TRUE}, how : {"ask"}]
    \cup [op : {"install"}, name : ServerNames, ok : {TRUE}, how : {"ask", "yes", "force"}]

NewEntry(c, n) == [name |-> n, ok |-> c.ok, on |-> TRUE]

\* LoadConfig refuses a file as soon as one of its servers does not pass Validate.
Loadable == \A i \in DOMAIN file.servers : file.servers[i].ok

Index(n) == SelectInSeq(file.servers, LAMBDA s : s.name = n)    \* 0 if there is none

CFInit == /\ file \in {Absent} \cup
                      {Config(<<[name |-> n, ok |-> TRUE, on |-> TRUE]>>, TRUE) : n \in ServerNames}
          /\ run = [p \in Commanders |-> NoCommand]

Type(p) ==
  /\ run[p].step = "idle"
  /\ \E c \in Commands :
       run' = [run EXCEPT ![p] = [step |-> IF c.op = "install" THEN "look" ELSE "load", cmd |-> c]]
  /\ UNCHANGED file

\* The command has failed, was told no, or is over.
Leave(p) == run' = [run EXCEPT ![p] = NoCommand]

\* The command has read the file and made its change in memory, or refuses to.  `fresh' holds
\* as long as nobody else writes the file.
Ready(p, applies, step, servers, extra) ==
  /\ IF applies /\ Len(servers) <= MaxServers
       THEN run' = [run EXCEPT ![p] = [step |-> step, cmd |-> @.cmd, fresh |-> TRUE,
                                       next |-> Config(servers, extra)]]
       ELSE Leave(p)
  /\ UNCHANGED file

Loads(p, ops) == run[p].step = "load" /\ run[p].cmd.op \in ops

AddServer(p) ==
  /\ Loads(p, {"add"})
  /\ LET c == run[p].cmd
     IN Ready(p, Loadable /\ Index(c.name) = 0, "truncate",
              Append(file.servers, NewEntry(c, c.name)), file.extra)

\* The question whether to remove comes after the file has been read.
RemoveServer(p) ==
  /\ Loads(p, {"remove"})
  /\ LET i == Index(run[p].cmd.name)
     IN Ready(p, Loadable /\ i > 0, "truncate", RemoveAt(file.servers, i), file.extra)

SwitchServer(p) ==
  /\ Loads(p, {"enable", "disable"})
  /\ LET c == run[p].cmd
         i == Index(c.name)
     IN Ready(p, Loadable /\ i > 0, "truncate",
              [file.servers EXCEPT ![i].on = (c.op = "enable")], file.extra)

\* `migrate' adds to the servers of the file, whether LoadConfig would accept them or not,
\* and leaves out every other block.
Import(p) ==
  /\ Loads(p, {"import"})
  /\ LET c == run[p].cmd
         n == IF Index(c.name) > 0 THEN Alias[c.name] ELSE c.name
     IN Ready(p, TRUE, "truncate", Append(file.servers, NewEntry(c, n)), FALSE)

\* runAdd looks whether the server is installed; if it is, and neither --force nor --yes was
\* given, it asks.  The answer does not reach Install: Force is set by the flags alone.
Look(p) ==
  /\ run[p].step = "look"
  /\ LET c == run[p].cmd
         force == c.how = "force" \/ (Index(c.name) > 0 /\ c.how = "yes")
     IN IF Loadable
          THEN run' = [run EXCEPT
                         ![p] = [step |-> "install",
                                 cmd |-> [c EXCEPT !.how = IF force THEN "force" ELSE "ask"]]]
          ELSE Leave(p)
  /\ UNCHANGED file

Installed(c) == IF Index(c.name) > 0
                  THEN [file.servers EXCEPT ![Index(c.name)] = NewEntry(c, c.name)]
                  ELSE Append(file.servers, NewEntry(c, c.name))

\* Mutant: Install replaces a server whether Force is set or not.
InstallAnyway(p) ==
  /\ run[p].step = "install"
  /\ Ready(p, Loadable, "rename", Installed(run[p].cmd), file.extra)

\* Install reads the file again, and refuses to replace a server without Force.
Install(p) ==
  /\ run[p].step = "install"
  /\ LET c == run[p].cmd
     IN Ready(p, Loadable /\ (Index(c.name) = 0 \/ c.how = "force"), "rename",
              Installed(c), file.extra)

\* The file changes under everyone who has read it.
Write(p, content, then) ==
  /\ file' = content
  /\ run' = [q \in Commanders |-> IF q = p THEN then
                                  ELSE IF run[q].step \in {"truncate", "rename", "fill"}
                                         THEN [run[q] EXCEPT !.fresh = FALSE]
                                         ELSE run[q]]

\* saveConfig and Import: os.WriteFile truncates the file and then writes it,
Truncate(p) == /\ run[p].step = "truncate"
               /\ Write(p, Torn, [run[p] EXCEPT !.step = "fill"])
Fill(p) == /\ run[p].step = "fill"
           /\ Write(p, run[p].next, NoCommand)
\* SaveConfig writes a file of its own and renames it.
Rename(p) == /\ run[p].step = "rename"
             /\ Write(p, run[p].next, NoCommand)

\* A prompt is answered with no, a write fails, or the process is killed.
GiveUp(p) == /\ run[p].step # "idle"
             /\ Leave(p)
             /\ UNCHANGED file

CFNext == \E p \in Commanders :
            \/ Type(p) \/ AddServer(p) \/ RemoveServer(p) \/ SwitchServer(p) \/ Import(p)
            \/ Look(p) \/ Install(p) \/ Truncate(p) \/ Fill(p) \/ Rename(p)
            \/ GiveUp(p)

CFSpec == CFInit /\ [][CFNext]_configVars

-----------------------------------------------------------------------------
Keeps(old, new, c) ==
  \A i \in DOMAIN old :
    \/ \E j \in DOMAIN new : new[j] = old[i]
    \/ /\ old[i].name = c.name
       /\ \/ c.op = "remove"
          \/ c.op = "install" /\ c.how = "force"
          \/ /\ c.op \in {"enable", "disable"}
             /\ \E j \in DOMAIN new : new[j] = [old[i] EXCEPT !.on = (c.op = "enable")]

\* A command loses no server but the one it is about, unless another command has written the
\* file since it was read or the file was left empty by a write that did not finish.  For
\* `add' the time that counts begins after its question has been answered.
OnlyOverlapsLose ==
  [][\A p \in Commanders :
       /\ run[p].step \in {"truncate", "rename"} /\ run[p].fresh
       /\ file.kind = "whole" /\ file' # file /\ run'[p] # run[p]
       => Keeps(file.servers, run[p].next.servers, run[p].cmd)]_configVars

\* Every file that a command leaves can be loaded again.
StaysLoadable == file.kind = "whole" => Loadable
=============================================================================
