----------------------------- MODULE FileWrites -----------------------------
(***************************************************************************)
(* writeFile, editFile and deleteFile of files/file-service.ts, with the   *)
(* write locks: one chain of promises for each resolved path.              *)
(*                                                                         *)
(* A path with a symbolic link to a directory in it is another name of a   *)
(* file: RealPath.  A write locks the path as it was given, an edit and a  *)
(* delete lock the real one (security/sandbox.ts).  (A link that is itself *)
(* the last component is replaced by a write, hence a file of its own.)    *)
(***************************************************************************)
EXTENDS ToolCalls

CONSTANTS RealPath,     \* RealPath[p]: the file of path p
          Original,     \* the content a file has at first
          Absent

ASSUME FileAssumption ==
    /\ RealPath \in [Path -> Path]
    /\ \A p \in Path : RealPath[RealPath[p]] = RealPath[p]
    /\ Original \notin Call /\ Absent \notin Call \cup {Original}

VARIABLES content,      \* of each file: the call that wrote it
          seen,         \* what the client of an edit has read: expected_sha256
          tail,         \* writeLocks: the last call in the chain of each path
          after,        \* the call whose promise a call awaits
          temps         \* temporary files, by the call that made them

fileVars == <<content, seen, tail, after, temps>>

FileTypeOK ==
    /\ content \in [Path -> Call \cup {Original, Absent}]
    /\ seen \in [Call -> Call \cup {Original, Absent}]
    /\ tail \in [Path -> Call \cup {NoCall}]
    /\ after \in [Call -> Call \cup {NoCall}]
    /\ temps \subseteq Call

FileInit ==
    /\ content = [p \in Path |-> Original]
    /\ seen = [c \in Call |-> Original]
    /\ tail = [p \in Path |-> NoCall]
    /\ after = [c \in Call |-> NoCall]
    /\ temps = {}

File(c) == RealPath[work[c].path]

LockPath(c) == IF work[c].kind = "write" THEN work[c].path ELSE File(c)

\* readFileSnapshot, before the call.
Look(c) ==
    /\ up
    /\ pc[c] = "new" /\ work[c].kind = "edit"
    /\ content[File(c)] # Absent
    /\ seen' = [seen EXCEPT ![c] = content[File(c)]]
    /\ UNCHANGED <<callVars, content, tail, after, temps>>

\* withWriteLock up to its await: the last promise of the chain is awaited and
\* the own one takes its place.
Enqueue(c) ==
    /\ up
    /\ pc[c] = "new" /\ work[c].kind \in FileWrite
    /\ work[c].kind # "write" => content[File(c)] # Absent
    /\ after' = [after EXCEPT ![c] = tail[LockPath(c)]]
    /\ tail' = [tail EXCEPT ![LockPath(c)] = c]
    /\ GoOn(c, "queued")
    /\ UNCHANGED <<now, up, crashes, work, content, seen, temps>>

Enter(c) ==
    /\ pc[c] = "queued"
    /\ after[c] # NoCall => pc[after[c]] \in Over
    /\ GoOn(c, "entered")
    /\ UNCHANGED <<now, up, crashes, work, fileVars>>

\* Mutant: the entry is removed whoever is queued behind.
UnlockedAnyway(c) == [tail EXCEPT ![LockPath(c)] = NoCall]

\* The finally block: the entry of the map goes with the last of the chain.
Unlocked(c) ==
    [tail EXCEPT ![LockPath(c)] = IF @ = c THEN NoCall ELSE @]

Leave(c, done) ==
    /\ tail' = Unlocked(c)
    /\ Answered(c, done)
    /\ UNCHANGED <<now, up, crashes, work, seen, after>>

Checks(c) ==
    /\ pc[c] = "entered" /\ work[c].kind = "edit"
    /\ content[File(c)] = seen[c]
    /\ GoOn(c, "checked")
    /\ UNCHANGED <<now, up, crashes, work, fileVars>>

\* atomicWrite.
WriteTemp(c) ==
    /\ \/ pc[c] = "entered" /\ work[c].kind = "write"
       \/ pc[c] = "checked"
    /\ temps' = temps \cup {c}
    /\ GoOn(c, "written")
    /\ UNCHANGED <<now, up, crashes, work, content, seen, tail, after>>

ChecksAgain(c) ==
    /\ pc[c] = "written" /\ work[c].kind = "edit"
    /\ content[File(c)] = seen[c]
    /\ GoOn(c, "rechecked")
    /\ UNCHANGED <<now, up, crashes, work, fileVars>>

Rename(c) ==
    /\ \/ pc[c] = "written" /\ work[c].kind = "write"
       \/ pc[c] = "rechecked"
    /\ content' = [content EXCEPT ![File(c)] = c]
    /\ temps' = temps \ {c}
    /\ Leave(c, TRUE)

Delete(c) ==
    /\ pc[c] = "entered" /\ work[c].kind = "delete"
    /\ content[File(c)] # Absent
    /\ content' = [content EXCEPT ![File(c)] = Absent]
    /\ Leave(c, TRUE)
    /\ UNCHANGED temps

\* A failed test or file operation.  The temporary file is removed, unless that
\* fails as well.
FileFails(c) ==
    /\ pc[c] \in {"entered", "checked", "written", "rechecked"}
    /\ work[c].kind \in FileWrite
    /\ temps' \in {temps, temps \ {c}}
    /\ Leave(c, FALSE)
    /\ UNCHANGED content

FileStep(c) ==
    \/ Enter(c) \/ Checks(c) \/ WriteTemp(c) \/ ChecksAgain(c)
    \/ Rename(c) \/ Delete(c) \/ FileFails(c)

FileCrash ==
    /\ tail' = [p \in Path |-> NoCall]
    /\ UNCHANGED <<content, seen, after, temps>>

(***************************************************************************)
(* Properties.                                                             *)
(***************************************************************************)

\* edit_file "refuses stale edits" (docs/mcp-tools.md): an edit replaces the
\* very content its client has read.  What may slip in between its last test
\* and its rename is a write that holds another lock, under another name of
\* the file.
NoLostEdit ==
    [][\A c \in Call :
          work[c].kind = "edit" /\ content'[File(c)] = c /\ content[File(c)] # c
          => \/ content[File(c)] = seen[c]
             \/ /\ content[File(c)] \in Call
                /\ LockPath(content[File(c)]) # LockPath(c)]_<<content, work>>

=============================================================================
