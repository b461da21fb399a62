---------------------------- MODULE InitPublish ----------------------------
(***************************************************************************)
(* `codebroker init`: an index is built in codebroker.db.tmp and published *)
(* by renaming that file over codebroker.db, while sessions reindex files  *)
(* through connections to codebroker.db and the user edits.                *)
(*                                                                         *)
(* What matters here is which FILE a name, a connection and a write-ahead  *)
(* log belong to.  A name is bound to an inode; a connection keeps the     *)
(* inode and the log it opened whatever becomes of their names; a log is   *)
(* found by name, and its frames only make sense over the inode they were  *)
(* written for.  A database is abstracted to what init and reindex_paths   *)
(* decide on: the content each path is indexed as, whether its rows were   *)
(* written by an older pipeline, whether pass 2 has linked the rows, and   *)
(* the pipeline_version stamp.  How reindex_paths itself interleaves is    *)
(* the subject of Reindex; here a call is two commits, rows and links.     *)
(***************************************************************************)
EXTENDS Naturals, FiniteSets

CONSTANTS
    Path, Content, Parses, NoContent,
    Session,      \* processes that reindex
    Disks,        \* disk images a behaviour may start from
    MaxInits, MaxOpens, MaxEdits, MaxFaults   \* bounds of a behaviour

ASSUME InitPublishAssumption ==
    /\ Parses \subseteq Content
    /\ NoContent \notin Content
    /\ Disks \subseteq [Path -> Content \union {NoContent}]
    /\ {MaxInits, MaxOpens, MaxEdits, MaxFaults} \subseteq Nat

VARIABLES
    disk,      \* disk[p]: content of file p
    main,      \* main[n]: what inode n holds, without any log
    finalAt,   \* inode named codebroker.db, 0 when there is none
    tmpAt,     \* inode named codebroker.db.tmp
    log,       \* log[k]: a codebroker.db-wal file
    logAt,     \* the one named codebroker.db-wal, 0 when there is none
    conn,      \* conn[s]: inode and log of session s
    spc,       \* where session s is
    ipc,       \* where init is
    ino,       \* inode init has open
    prev,      \* has_previous_index
    old,       \* old_hashes: rows found in the temporary database
    trust,     \* trust_hashes
    todo,      \* files walked and not read yet
    gone,      \* deleted_file_ids
    touched,   \* parsed_files: content to insert
    edited,    \* has a file changed since init walked? (history)
    inodes,    \* inodes made so far
    inits, opens, edits, faults

names == <<finalAt, tmpAt>>
logs == <<log, logAt>>
session == <<conn, spc>>
build == <<ino, prev, old, trust, todo, gone, touched, edited>>
bounds == <<inits, opens, edits, faults>>
vars == <<disk, main, inodes, names, logs, session, ipc, build, bounds>>

NoRows == [p \in Path |-> NoContent]
Rows == [Path -> Content \union {NoContent}]
Db == [rows : Rows, outdated : SUBSET Path, linked : BOOLEAN, stamped : BOOLEAN]
EmptyDb == [rows |-> NoRows, outdated |-> {}, linked |-> TRUE, stamped |-> FALSE]
Recorded(c) == IF c \in Parses THEN c ELSE NoContent

Inode == 1 .. 1 + 2 * MaxInits
Log == 1 .. MaxOpens

(* A log: the inode its frames are for (0 when it has none) and the database *)
(* that inode is with the frames applied.                                    *)
NoFrames == [base |-> 0, db |-> EmptyDb]

(* What a connection to inode n through log k reads.  Frames of another       *)
(* inode make the connection useless.                                         *)
Usable(n, k) == log[k].base \in {0, n}
View(n, k) == IF log[k].base = n THEN log[k].db ELSE main[n]

(* What a process that opens codebroker.db now would read *)
Committed == IF logAt = 0 THEN main[finalAt] ELSE View(finalAt, logAt)

Fault == faults < MaxFaults /\ faults' = faults + 1

----------------------------------------------------------------------------
(* An index published earlier, by this pipeline or an older one, or none *)
Init ==
    /\ disk \in Disks
    /\ \E published \in BOOLEAN, current \in BOOLEAN :
         LET rows == [p \in Path |-> Recorded(disk[p])]
             db == [rows |-> rows, linked |-> TRUE, stamped |-> current,
                    outdated |-> IF current THEN {}
                                 ELSE {p \in Path : rows[p] # NoContent}]
         IN  /\ main = [n \in Inode |-> IF n = 1 /\ published THEN db ELSE EmptyDb]
             /\ finalAt = IF published THEN 1 ELSE 0
    /\ tmpAt = 0
    /\ log = [k \in Log |-> NoFrames] /\ logAt = 0
    /\ conn = [s \in Session |-> [ino |-> 0, log |-> 0]]
    /\ spc = [s \in Session |-> "closed"]
    /\ ipc = "idle"
    /\ ino = 0
    /\ prev = FALSE
    /\ old = NoRows
    /\ trust = FALSE
    /\ todo = {}
    /\ gone = {}
    /\ touched = NoRows
    /\ edited = FALSE
    /\ inodes = 1
    /\ inits = 0 /\ opens = 0 /\ edits = 0 /\ faults = 0

(* The user creates, edits or removes a file *)
Edit(p) ==
    /\ edits < MaxEdits /\ edits' = edits + 1
    /\ \E c \in (Content \union {NoContent}) \ {disk[p]} :
         disk' = [disk EXCEPT ![p] = c]
    /\ edited' = TRUE
    /\ UNCHANGED <<main, inodes, names, logs, session, ipc, ino, prev, old, trust, todo,
                   gone, touched, inits, opens, faults>>

----------------------------------------------------------------------------
(* Sessions.  SQLite finds the log by name, and creates it when there is none. *)
Open(s) ==
    /\ spc[s] = "closed" /\ finalAt # 0
    /\ opens < MaxOpens /\ opens' = opens + 1
    /\ LET k == IF logAt = 0 THEN opens' ELSE logAt IN
         /\ Usable(finalAt, k)
         /\ conn' = [conn EXCEPT ![s] = [ino |-> finalAt, log |-> k]]
         /\ logAt' = k
    /\ spc' = [spc EXCEPT ![s] = "open"]
    /\ UNCHANGED <<disk, main, inodes, names, log, ipc, build, inits, edits, faults>>

(* A commit appends frames to the log of the connection *)
Write(s, db) ==
    /\ Usable(conn[s].ino, conn[s].log)
    /\ log' = [log EXCEPT ![conn[s].log] = [base |-> conn[s].ino, db |-> db]]
    /\ UNCHANGED <<disk, main, inodes, names, logAt, conn, ipc, build, bounds>>

SessionView(s) == View(conn[s].ino, conn[s].log)

(* The first transaction of reindex_paths: the edges into the replaced files *)
(* go with their rows.                                                       *)
ReplaceRows(s) ==
    /\ spc[s] = "open"
    /\ \E ps \in SUBSET Path \ {{}} :
         LET db == SessionView(s) IN
         Write(s, [db EXCEPT
             !.rows = [p \in Path |-> IF p \in ps THEN Recorded(disk[p]) ELSE @[p]],
             !.outdated = @ \ ps,
             !.linked = FALSE])
    /\ spc' = [spc EXCEPT ![s] = "replaced"]

(* Its second pass restores them *)
LinkRows(s) ==
    /\ spc[s] = "replaced"
    /\ Write(s, [SessionView(s) EXCEPT !.linked = TRUE])
    /\ spc' = [spc EXCEPT ![s] = "done"]

Disconnect(s) ==
    /\ spc' = [spc EXCEPT ![s] = "closed"]
    /\ conn' = [conn EXCEPT ![s] = [ino |-> 0, log |-> 0]]
    /\ UNCHANGED <<disk, inodes, names, ipc, build, inits, opens, edits>>

(* The last connection to the database checkpoints its log and removes it,   *)
(* unless the file has been renamed away under the connection.               *)
LastOf(s) == /\ conn[s].ino = finalAt
             /\ \A t \in Session \ {s} : conn[t].ino # conn[s].ino

Close(s) ==
    /\ spc[s] \in {"open", "done"}
    /\ IF LastOf(s) /\ Usable(conn[s].ino, conn[s].log)
       THEN /\ main' = [main EXCEPT ![conn[s].ino] = SessionView(s)]
            /\ log' = [log EXCEPT ![conn[s].log] = NoFrames]
            /\ logAt' = 0
       ELSE UNCHANGED <<main, logs>>
    /\ UNCHANGED faults
    /\ Disconnect(s)

(* The process is killed: its log stays *)
Kill(s) ==
    /\ spc[s] # "closed"
    /\ Fault
    /\ UNCHANGED <<main, logs>>
    /\ Disconnect(s)

----------------------------------------------------------------------------
(* codebroker init, in the order of its statements *)

Goto(phase) == ipc' = phase

(* A leftover temporary database is removed *)
Start ==
    /\ ipc = "idle"
    /\ inits < MaxInits /\ inits' = inits + 1
    /\ tmpAt' = 0
    /\ Goto("cleaned")
    /\ UNCHANGED <<disk, main, inodes, finalAt, logs, session, build, opens, edits, faults>>

FirstIndex ==
    /\ ipc = "cleaned" /\ finalAt = 0
    /\ prev' = FALSE
    /\ Goto("copied")
    /\ UNCHANGED <<disk, main, inodes, names, logs, session, ino, old, trust, todo, gone,
                   touched, edited, bounds>>

(* PRAGMA wal_checkpoint(TRUNCATE) on the live database; its errors, busy     *)
(* among them, are ignored.                                                   *)
CheckpointLive ==
    /\ ipc = "cleaned" /\ finalAt # 0
    /\ prev' = TRUE
    /\ \/ /\ main' = [main EXCEPT ![finalAt] = Committed]
          /\ log' = IF logAt # 0 /\ Usable(finalAt, logAt)
                    THEN [log EXCEPT ![logAt] = NoFrames] ELSE log
          /\ UNCHANGED faults
       \/ Fault /\ UNCHANGED <<main, log>>
    /\ Goto("checkpointed")
    /\ UNCHANGED <<disk, inodes, names, logAt, session, ino, old, trust, todo, gone,
                   touched, edited, inits, opens, edits>>

(* The index built in place *)
TmpInode_Live == IF finalAt # 0 THEN finalAt ELSE IF tmpAt = 0 THEN inodes + 1 ELSE tmpAt

(* fs::copy truncates the file named codebroker.db.tmp, or makes one *)
TmpInode == IF tmpAt = 0 THEN inodes + 1 ELSE tmpAt

NameTmp ==
    /\ tmpAt' = TmpInode
    /\ inodes' = IF tmpAt = 0 THEN inodes + 1 ELSE inodes

CopyLive ==
    /\ ipc = "checkpointed"
    /\ main' = [main EXCEPT ![TmpInode] = main[finalAt]]
    /\ NameTmp
    /\ Goto("copied")
    /\ UNCHANGED <<disk, finalAt, logs, session, build, bounds>>

(* Open the temporary database, create it if the copy did not, and read its  *)
(* hashes and its stamp.                                                     *)
OpenTmp ==
    /\ ipc = "copied"
    /\ main' = IF tmpAt = 0 THEN [main EXCEPT ![TmpInode] = EmptyDb] ELSE main
    /\ NameTmp
    /\ ino' = TmpInode
    /\ old' = main'[TmpInode].rows
    /\ trust' = (prev /\ main'[TmpInode].stamped)
    /\ Goto("opened")
    /\ UNCHANGED <<disk, finalAt, logs, session, prev, todo, gone, touched,
                   edited, bounds>>

(* No deleted_file_ids *)
Walk_KeepDeleted ==
    /\ ipc = "opened"
    /\ todo' = {p \in Path : disk[p] # NoContent}
    /\ edited' = FALSE
    /\ Goto("reading")
    /\ UNCHANGED <<disk, main, inodes, names, logs, session, ino, prev, old, trust,
                   gone, touched, bounds>>

(* collect_files; old paths it did not list are the deleted ones *)
Walk ==
    /\ ipc = "opened"
    /\ todo' = {p \in Path : disk[p] # NoContent}
    /\ gone' = {p \in Path : disk[p] = NoContent /\ old[p] # NoContent}
    /\ edited' = FALSE
    /\ Goto("reading")
    /\ UNCHANGED <<disk, main, inodes, names, logs, session, ino, prev, old, trust,
                   touched, bounds>>

(* No trust_hashes gate *)
Classified_Trusting(p) ==
    IF old[p] = disk[p] THEN NoContent ELSE Recorded(disk[p])

(* An unchanged file handed on as if it had been parsed *)
Classified_Status(p) ==
    IF trust /\ old[p] = disk[p] THEN "unchanged" ELSE Recorded(disk[p])

(* classify_and_parse: unchanged files and files that do not parse are not   *)
(* touched.                                                                  *)
Classified(p) ==
    IF trust /\ old[p] = disk[p] THEN NoContent ELSE Recorded(disk[p])

ReadFile ==
    /\ ipc = "reading"
    /\ \E p \in todo :
         /\ todo' = todo \ {p}
         /\ touched' = [touched EXCEPT ![p] = Classified(p)]
    /\ UNCHANGED <<disk, main, inodes, names, logs, session, ipc, ino, prev, old, trust,
                   gone, edited, bounds>>

TouchedPaths == {p \in Path : touched[p] # NoContent}

(* Rows of the deleted and of the parsed files, replaced *)
Inserted(db) ==
    [db EXCEPT !.rows = [p \in Path |-> IF p \in TouchedPaths THEN touched[p]
                                        ELSE IF p \in gone THEN NoContent ELSE @[p]],
               !.outdated = @ \ (gone \union TouchedPaths),
               !.linked = @ /\ gone \union TouchedPaths = {}]

(* One transaction deletes and inserts.  The fast path goes on to publish    *)
(* when it had nothing to do and hashes were trusted.                        *)
InsertRows ==
    /\ ipc = "reading" /\ todo = {}
    /\ main' = [main EXCEPT ![ino] = Inserted(@)]
    /\ Goto(IF trust /\ gone \union TouchedPaths = {}
               THEN "linked" ELSE "inserted")
    /\ UNCHANGED <<disk, inodes, names, logs, session, build, bounds>>

(* Pass 2, interactions and features; unwrap_or_default swallows an error of *)
(* the incremental pass 2.                                                   *)
LinkTmp ==
    /\ ipc = "inserted"
    /\ \/ /\ main' = [main EXCEPT ![ino].linked = TRUE]
          /\ UNCHANGED faults
       \/ trust /\ Fault /\ UNCHANGED main
    /\ Goto("linked")
    /\ UNCHANGED <<disk, inodes, names, logs, session, build, inits, opens, edits>>

(* Stamp the pipeline version, checkpoint, close *)
Stamp ==
    /\ ipc = "linked"
    /\ main' = [main EXCEPT ![ino].stamped = TRUE]
    /\ Goto("built")
    /\ UNCHANGED <<disk, inodes, names, logs, session, build, bounds>>

(* The live database's log is removed by name ... *)
RemoveLog ==
    /\ ipc = "built"
    /\ logAt' = 0
    /\ Goto("unlogged")
    /\ UNCHANGED <<disk, main, inodes, names, log, session, build, bounds>>

Finish ==
    /\ Goto("idle")
    /\ ino' = 0
    /\ prev' = FALSE
    /\ old' = NoRows
    /\ trust' = FALSE
    /\ todo' = {}
    /\ gone' = {}
    /\ touched' = NoRows
    /\ UNCHANGED <<disk, main, inodes, logs, session, edited, inits, opens, edits>>

(* ... and whatever is called codebroker.db.tmp becomes codebroker.db. *)
Publish ==
    /\ ipc = "unlogged"
    /\ finalAt' = tmpAt
    /\ tmpAt' = 0
    /\ UNCHANGED faults
    /\ Finish

CrashInit ==
    /\ ipc # "idle"
    /\ Fault
    /\ UNCHANGED names
    /\ Finish

----------------------------------------------------------------------------
InitStep ==
    \/ Start \/ FirstIndex \/ CheckpointLive \/ CopyLive \/ OpenTmp
    \/ Walk \/ ReadFile \/ InsertRows \/ LinkTmp \/ Stamp
    \/ RemoveLog \/ Publish \/ CrashInit

SessionStep(s) ==
    Open(s) \/ ReplaceRows(s) \/ LinkRows(s) \/ Close(s) \/ Kill(s)

Next ==
    \/ \E p \in Path : Edit(p)
    \/ \E s \in Session : SessionStep(s)
    \/ InitStep

Spec == Init /\ [][Next]_vars

----------------------------------------------------------------------------
(* Properties *)

TypeOK ==
    /\ disk \in Rows
    /\ main \in [Inode -> Db]
    /\ inodes \in Inode
    /\ {finalAt, tmpAt} \subseteq Inode \union {0}
    /\ log \in [Log -> [base : Inode \union {0}, db : Db]]
    /\ logAt \in Log \union {0}
    /\ conn \in [Session -> [ino : Inode \union {0}, log : Log \union {0}]]
    /\ spc \in [Session -> {"closed", "open", "replaced", "done"}]
    /\ ipc \in {"idle", "cleaned", "checkpointed", "copied", "opened",
                          "reading", "inserted", "linked", "built", "unlogged"}
    /\ ino \in Inode \union {0}
    /\ {old, touched} \subseteq Rows
    /\ {todo, gone} \subseteq SUBSET Path

(* The database others open is never the one an init is still writing: until  *)
(* the rename, a crash of init leaves the previous index in place.            *)
NeverHalfBuilt == ino # 0 => ino # finalAt

Publishes == ipc = "unlogged" /\ ipc' = "idle" /\ finalAt' # finalAt

(* Whatever sessions commit to the live database while init copies it, and    *)
(* whatever init trusts of the copy: if no file has changed since the walk,   *)
(* the published rows are those of the files on disk, a file that no longer   *)
(* parses apart.                                                              *)
PublishedUpToDate ==
    [][(Publishes /\ ~edited) =>
         \A p \in Path : disk[p] \in Parses \union {NoContent} =>
             main'[finalAt'].rows[p] = disk[p]]_vars

(* An init that does not trust the hashes reparses every file: if no file has *)
(* changed since the walk, rows of an older pipeline are left only of files    *)
(* that no longer parse.                                                       *)
PublishedReparsed ==
    [][(Publishes /\ ~edited /\ ~trust) =>
         \A p \in main'[finalAt'].outdated : disk[p] \notin Parses \union {NoContent}]_vars

(* "unchanged files' rows are simply never touched, already sitting correctly  *)
(* in the copy": a published index is linked.                                  *)
PublishedLinked ==
    [][Publishes => main'[finalAt'].linked]_vars

(* "the temp file is a single self-contained snapshot before we publish it":   *)
(* the log found next to the published file has no frames of another file.     *)
PublishedSelfContained ==
    finalAt # 0 /\ logAt # 0 => Usable(finalAt, logAt)
=============================================================================
