---------------------------- MODULE ServerRegistry ----------------------------
(***************************************************************************)
(* pkg/registry: the registry of servers with its two indexes, its file    *)
(* and its subscribers, every operation under its lock.  Save encodes the  *)
(* entries after it has given the lock back, so that the health in the     *)
(* file may be a later one.  The time stamps of an entry are left out, and *)
(* the number of its requests, a ten-thousandth of a point each.           *)
(***************************************************************************)
EXTENDS Naturals, Sequences, SequencesExt, FiniteSets, FiniteSetsExt

CONSTANTS Ids, Capabilities, Transports,
          Entries,                    \* the entries that are registered
          Subscribers, ChannelSize

Healths == {"healthy", "unhealthy", "unknown"}

ASSUME RegistryAssumption ==
  /\ ChannelSize \in Nat
  /\ Entries \subseteq [caps : SUBSET Capabilities, trans : Transports, health : Healths,
                       load : 0 .. 100]      \* a percentage

VARIABLES
  entries,     \* the servers: a function on the registered identifiers
  byCap, byTrans,
  channel,     \* the events that a subscriber has not read; absent: not subscribed
  saved        \* the file

registryVars == <<entries, byCap, byTrans, channel, saved>>
serverVars == <<entries, byCap, byTrans>>

SRInit == /\ entries = <<>> /\ channel = <<>> /\ saved = {}
          /\ byCap = [c \in Capabilities |-> {}] /\ byTrans = [t \in Transports |-> {}]

\* emitEvent: a subscriber whose channel is full loses the event.
Emit(event) == channel' = [s \in DOMAIN channel |-> IF Len(channel[s]) < ChannelSize
                                                      THEN Append(channel[s], event)
                                                      ELSE channel[s]]

With(f, id, e) == [i \in DOMAIN f \cup {id} |-> IF i = id THEN e ELSE f[i]]

\* unindexLocked, indexLocked: out of the sets of the old entry, into those of the new one.
Indexed(id, old, new) ==
  /\ byCap' = [c \in Capabilities |->
                 (byCap[c] \ (IF c \in old.caps THEN {id} ELSE {}))
                    \cup (IF c \in new.caps THEN {id} ELSE {})]
  /\ byTrans' = [t \in Transports |->
                   (byTrans[t] \ (IF t \in old.trans THEN {id} ELSE {}))
                      \cup (IF t \in new.trans THEN {id} ELSE {})]

Nothing == [caps |-> {}, trans |-> {}]
Keys(e) == [caps |-> e.caps, trans |-> {e.trans}]

Register(id, e) ==
  /\ id \notin DOMAIN entries
  /\ entries' = With(entries, id, e)
  /\ Indexed(id, Nothing, Keys(e))
  /\ Emit("registered")
  /\ UNCHANGED <<saved>>

Unregister(id) ==
  /\ id \in DOMAIN entries
  /\ entries' = [i \in DOMAIN entries \ {id} |-> entries[i]]
  /\ Indexed(id, Keys(entries[id]), Nothing)
  /\ Emit("unregistered")
  /\ UNCHANGED <<saved>>

\* Mutant: the entry stays in the index of what it offered.
UpdateInPlace(id, e) ==
  /\ id \in DOMAIN entries
  /\ entries' = With(entries, id, e)
  /\ Indexed(id, Nothing, Keys(e))
  /\ UNCHANGED <<channel, saved>>

\* Update tells the subscribers nothing.
Update(id, e) ==
  /\ id \in DOMAIN entries
  /\ entries' = With(entries, id, e)
  /\ Indexed(id, Keys(entries[id]), Keys(e))
  /\ UNCHANGED <<channel, saved>>

UpdateHealth(id, h) ==
  /\ id \in DOMAIN entries
  /\ entries' = [entries EXCEPT ![id].health = h]
  /\ Emit("health")
  /\ UNCHANGED <<byCap, byTrans, saved>>

\* Save writes over the file; a process that ends meanwhile leaves one that Load refuses.
Save == /\ saved' \in {{}, {<<id, entries[id]>> : id \in DOMAIN entries}}
        /\ UNCHANGED <<serverVars, channel>>

\* Load puts the entries of the file over those there are: the indexes follow, and nobody is
\* told.
Load ==
  /\ saved # {}
  /\ LET loaded(id) == {s[2] : s \in {x \in saved : x[1] = id}}
         new == [id \in DOMAIN entries \cup {s[1] : s \in saved} |->
                   IF loaded(id) # {} THEN CHOOSE e \in loaded(id) : TRUE ELSE entries[id]]
         stale(id) == id \in DOMAIN entries /\ loaded(id) # {}
     IN /\ entries' = new
        /\ byCap' = [c \in Capabilities |->
                       {id \in byCap[c] : ~ (stale(id) /\ c \in entries[id].caps)}
                          \cup {s[1] : s \in {x \in saved : c \in x[2].caps}}]
        /\ byTrans' = [t \in Transports |->
                         {id \in byTrans[t] : ~ (stale(id) /\ t = entries[id].trans)}
                            \cup {s[1] : s \in {x \in saved : t = x[2].trans}}]
  /\ UNCHANGED <<channel, saved>>

Subscribe(s) == /\ channel' = IF s \in DOMAIN channel
                                THEN [x \in DOMAIN channel \ {s} |-> channel[x]]
                                ELSE With(channel, s, <<>>)
                /\ UNCHANGED <<serverVars, saved>>

ReadEvent(s) == /\ s \in DOMAIN channel /\ channel[s] # <<>>
                /\ channel' = [channel EXCEPT ![s] = Tail(@)]
                /\ UNCHANGED <<serverVars, saved>>

-----------------------------------------------------------------------------
(* Questions.                                                               *)

\* FindBest: the candidates are those in the index of every wanted capability.  The score is
\* 1 - load, and half a point for health; the server that is kept depends on the order of a
\* map where scores are equal.
Candidates(caps) == IF caps = {} THEN DOMAIN entries
                    ELSE {id \in UNION {byCap[c] : c \in caps} :
                            /\ \A c \in caps : id \in byCap[c]
                            /\ id \in DOMAIN entries}
Suits(e, want) == /\ want.health = "any" \/ e.health \in {want.health, "healthy"}
                  /\ want.load > 0 => e.load <= want.load
                  /\ want.trans = "any" \/ e.trans = want.trans
Score(e) == 100 - e.load + (IF e.health = "healthy" THEN 50 ELSE 0)
FindBest(want) ==
  LET suited == {id \in Candidates(want.caps) : Suits(entries[id], want)}
  IN {id \in suited : \A other \in suited : Score(entries[other]) <= Score(entries[id])}

Wanted == [caps : SUBSET Capabilities, health : {"any", "unknown"}, load : {0, 50},
           trans : Transports \cup {"any"}]

-----------------------------------------------------------------------------
SRNext ==
  \/ \E id \in Ids : \/ \E e \in Entries : Register(id, e) \/ Update(id, e)
                     \/ Unregister(id) \/ \E h \in Healths : UpdateHealth(id, h)
  \/ Save \/ Load
  \/ \E s \in Subscribers : Subscribe(s) \/ ReadEvent(s)

SRSpec == SRInit /\ [][SRNext]_registryVars

-----------------------------------------------------------------------------
\* Whatever was registered, updated, loaded over or removed, and in whatever order: the
\* indexes say what the entries say, so that FindBest, which looks into the indexes, finds
\* the best of the servers that suit, and finds one whenever there is one.
BestIsFound ==
  \A want \in Wanted :
    LET suited == {id \in DOMAIN entries : want.caps \subseteq entries[id].caps
                                           /\ Suits(entries[id], want)}
    IN /\ FindBest(want) \subseteq suited
       /\ suited # {} => /\ FindBest(want) # {}
                         /\ \A id \in FindBest(want), other \in suited :
                              Score(entries[other]) <= Score(entries[id])

\* The indexes by capability and by transport name the servers of the table that have it, all
\* of them and no others.
IndexesAreExact ==
  /\ \A c \in Capabilities : byCap[c] = {id \in DOMAIN entries : c \in entries[id].caps}
  /\ \A t \in Transports : byTrans[t] = {id \in DOMAIN entries : entries[id].trans = t}
=============================================================================
