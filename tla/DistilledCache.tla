---------------------------- MODULE DistilledCache ----------------------------
(***************************************************************************)
(* pkg/compactor/cache.go: the distilled manifests of all servers in one   *)
(* directory.  A name is a sequence of characters; the names of the files  *)
(* are made of sanitized names, which several servers may share, and of a  *)
(* key, a hash of fixed width over the name and the hash of the original   *)
(* manifest, taken here for the pair itself.                               *)
(***************************************************************************)
EXTENDS Naturals, FiniteSets, Sequences, SequencesExt

CONSTANTS Servers,  \* the names in the configuration
          Hashes    \* of their manifests

VARIABLES files,     \* of the directory: name, and the owner its content states
          inMemory,  \* the keys of the map
          sweeping,  \* the server an Invalidate is about, or the empty name
          doomed     \* the files it has found and has yet to remove

distilledVars == <<files, inMemory, sweeping, doomed>>

Letters == {"a", "b", "c", "-", "_"}
Unreadable == <<"?">>

SanitizeName(name) == [i \in DOMAIN name |-> IF name[i] \in Letters THEN name[i] ELSE "_"]
cacheKey(s, h) == <<s, h>>
filePrefix(s) == Append(SanitizeName(s), "_")
fileName(s, h) == [stem |-> filePrefix(s), key |-> cacheKey(s, h)]
memKey(s, h) == <<s, "NUL", h>>

AllFiles == {[name |-> fileName(s, h), owner |-> o] :
               s \in Servers, h \in Hashes, o \in Servers \cup {Unreadable}}
DCTypeOK == /\ files \subseteq AllFiles /\ doomed \subseteq AllFiles
            /\ inMemory \subseteq {memKey(s, h) : s \in Servers, h \in Hashes}
            /\ sweeping \in Servers \cup {<<>>}

DCInit == files = {} /\ inMemory = {} /\ sweeping = <<>> /\ doomed = {}

-----------------------------------------------------------------------------
\* Set: the map under its lock, and the file, written whole or not at all.  (The two
\* steps are one here: Get does not find in the map what Set has put there.)
Store(s, h) == /\ inMemory' = inMemory \cup {memKey(s, h)}
               /\ \/ files' = {f \in files : f.name # fileName(s, h)}
                              \cup {[name |-> fileName(s, h), owner |-> s]}
                  \/ UNCHANGED files
               /\ UNCHANGED <<sweeping, doomed>>

\* Get: the map is asked for the bare concatenation, which is never a key of it, so it is
\* the file that answers, and the map is filled.
Load(s, h) == /\ <<s, h>> \notin inMemory
              /\ \E f \in files : f.name = fileName(s, h) /\ f.owner # Unreadable
              /\ inMemory' = inMemory \cup {memKey(s, h)}
              /\ UNCHANGED <<files, sweeping, doomed>>

\* A file is damaged by something else.
Damage(f) == /\ f \in files /\ files' = (files \ {f}) \cup {[f EXCEPT !.owner = Unreadable]}
             /\ UNCHANGED <<inMemory, sweeping, doomed>>

\* Is what follows the prefix the key and nothing else?
HasKeyOnly(s, name) == IsPrefix(filePrefix(s), name.stem) /\ Len(name.stem) = Len(filePrefix(s))

\* Mutant: the name tells whose a file is, and not what the file says.
filesByName(s) == {f \in files : HasKeyOnly(s, f.name)}
\* filesFor: those with a key after the prefix that state the owner, or state nothing.
filesFor(s) == {f \in files : HasKeyOnly(s, f.name) /\ f.owner \in {s, Unreadable}}

\* Invalidate: the map, then the directory, then each file, which may be gone or refuse.
Invalidate(s) == /\ sweeping = <<>> /\ sweeping' = s
                 /\ inMemory' = {k \in inMemory : k[1] # s}
                 /\ doomed' = filesFor(s)
                 /\ UNCHANGED files
RemoveFound(f) == /\ f \in doomed /\ doomed' = doomed \ {f}
                  /\ \/ files' = {g \in files : g.name # f.name}
                     \/ UNCHANGED files
                  /\ UNCHANGED <<inMemory, sweeping>>
Swept == /\ sweeping # <<>> /\ doomed = {} /\ sweeping' = <<>>
         /\ UNCHANGED <<files, inMemory, doomed>>

DCNext == \/ \E s \in Servers : Invalidate(s) \/ \E h \in Hashes : Store(s, h) \/ Load(s, h)
          \/ \E f \in files : Damage(f)
          \/ \E f \in doomed : RemoveFound(f)
          \/ Swept
DCSpec == DCInit /\ [][DCNext]_distilledVars

-----------------------------------------------------------------------------
\* Invalidating a server takes no file from another one, whatever their names have in
\* common once they are sanitized, except one that could not be read when it looked.
OthersKeepTheirFiles ==
  [][\A f \in files : (\A g \in files' : g.name # f.name)
        => \E d \in doomed : d.name = f.name /\ d.owner \in {sweeping, Unreadable}]_distilledVars
=============================================================================
