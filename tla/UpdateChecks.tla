---------------------------- MODULE UpdateChecks ----------------------------
(* The update checker of a process: a conditional request for the release   *)
(* manifest, the answer (a manifest, 304, an error), the result in memory   *)
(* and the cache file, which all processes of a host share.  The publisher  *)
(* moves the manifest between a request and its answer, and may publish one *)
(* that does not validate.                                                  *)
EXTENDS Integers

CONSTANTS
    Hosts,          \* processes with a checker and one shared cache file
    Manifests,      \* contents the server may hold; an ETag names one of them
    Invalid,        \* contents from_json refuses (schema, channel, digest...)
    NoManifest,     \* nothing known
    MaxUpdateFaults \* bound: cache files that cannot be written

ASSUME UpdateCheckAssumption ==
    Invalid \subseteq Manifests /\ NoManifest \notin Manifests /\ MaxUpdateFaults \in Nat

VARIABLES
    served,         \* what the server holds (external)
    etag,           \* per process: ETag for the next request
    known,          \* per process: the manifest of the last result
    asked,          \* per process: the ETag of the request under way
    phase,          \* per process: "idle", "asking" or "failed" (error in the result)
    cache,          \* the cache file: a pair, or nothing
    writeFaults     \* failed writes so far, bounded

checkVars == <<served, etag, known, asked, phase, cache, writeFaults>>
NoCache == [etag |-> NoManifest, manifest |-> NoManifest]
Optional == Manifests \cup {NoManifest}

ChecksTypeOK ==
    /\ served \in Manifests
    /\ {etag, known, asked} \subseteq [Hosts -> Optional]
    /\ phase \in [Hosts -> {"idle", "asking", "failed"}]
    /\ cache \in [etag : Optional, manifest : Optional]
    /\ writeFaults \in 0..MaxUpdateFaults

ChecksInit ==
    /\ served \in Manifests
    /\ etag = [h \in Hosts |-> NoManifest] /\ known = etag /\ asked = etag
    /\ phase = [h \in Hosts |-> "idle"]
    /\ cache = NoCache /\ writeFaults = 0

Serve == \E m \in Manifests : m # served /\ served' = m
         /\ UNCHANGED <<etag, known, asked, phase, cache, writeFaults>>

\* check() holds a lock: one request at a time per process.
AskServer(h) ==
    /\ phase[h] # "asking"
    /\ phase' = [phase EXCEPT ![h] = "asking"]
    /\ asked' = [asked EXCEPT ![h] = etag[h]]
    /\ UNCHANGED <<served, etag, known, cache, writeFaults>>

\* The cache file is replaced as a whole; a failure is not reported.
WriteCache(h) ==
    \/ /\ cache' = [etag |-> etag'[h], manifest |-> known'[h]]
       /\ UNCHANGED writeFaults
    \/ /\ writeFaults < MaxUpdateFaults /\ writeFaults' = writeFaults + 1
       /\ UNCHANGED cache

\* 304: the manifest of the last result is the answer.
NotModified(h) ==
    /\ phase[h] = "asking" /\ asked[h] = served /\ known[h] # NoManifest
    /\ phase' = [phase EXCEPT ![h] = "idle"]
    /\ etag' = [etag EXCEPT ![h] = asked[h]]
    /\ UNCHANGED <<served, known, asked>>
    /\ WriteCache(h)

\* Seeded fault: the ETag is remembered before the manifest is validated.
AnsweredEarly(h) ==
    /\ phase[h] = "asking" /\ asked[h] # served
    /\ etag' = [etag EXCEPT ![h] = served]
    /\ known' = IF served \in Invalid THEN known ELSE [known EXCEPT ![h] = served]
    /\ phase' = [phase EXCEPT ![h] = "idle"]
    /\ UNCHANGED <<served, asked, cache, writeFaults>>

\* 200: a valid manifest becomes the result, with its ETag, and the cache.
Answered(h) ==
    /\ phase[h] = "asking" /\ asked[h] # served /\ served \notin Invalid
    /\ etag' = [etag EXCEPT ![h] = served]
    /\ known' = [known EXCEPT ![h] = served]
    /\ phase' = [phase EXCEPT ![h] = "idle"]
    /\ UNCHANGED <<served, asked>>
    /\ WriteCache(h)

\* An unreachable server or an invalid manifest: the old result, and an error.
CheckFails(h) ==
    /\ phase[h] = "asking"
    /\ phase' = [phase EXCEPT ![h] = "failed"]
    /\ UNCHANGED <<served, etag, known, asked, cache, writeFaults>>

\* A process starts: it takes the cache file over, whoever wrote it.
LoadCache(h) ==
    /\ etag' = [etag EXCEPT ![h] = cache.etag]
    /\ known' = [known EXCEPT ![h] = cache.manifest]
    /\ phase' = [phase EXCEPT ![h] = "idle"]
    /\ UNCHANGED <<served, asked, cache, writeFaults>>

ChecksNext ==
    \/ Serve
    \/ \E h \in Hosts : \/ AskServer(h) \/ NotModified(h) \/ Answered(h)
                        \/ CheckFails(h) \/ LoadCache(h)
ChecksSpec == ChecksInit /\ [][ChecksNext]_checkVars

-----------------------------------------------------------------------------
\* The ETag of the next request belongs to the manifest a 304 would confirm,
\* in every process and in the file they share: otherwise an invalid or
\* unreadable answer hides every later release (updates.py:541).
EtagNamesManifest ==
    /\ \A h \in Hosts : etag[h] = known[h]
    /\ cache.etag = cache.manifest
=============================================================================
