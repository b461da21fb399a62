------------------------- MODULE InitPublish_proofs -------------------------
(***************************************************************************)
(* What InitPublish promises, for any number of inits, sessions, files,    *)
(* contents, edits and faults.                                             *)
(***************************************************************************)
EXTENDS InitPublish, TLAPS

(* The phases in which init has the temporary database open *)
Building == {"opened", "reading", "inserted", "linked", "built", "unlogged"}

(* An init makes at most one inode, and has none of its own while it works   *)
(* before the copy without a leftover file.                                  *)
InodesLeft ==
    /\ inits \in 0 .. MaxInits
    /\ opens \in 0 .. MaxOpens
    /\ inodes <= 1 + inits
    /\ ipc \in {"cleaned", "checkpointed", "copied"} /\ tmpAt = 0 => inodes <= inits

(* The two names are of different inodes, and init has the temporary one     *)
(* open, or none.                                                            *)
NamesApart ==
    /\ finalAt <= inodes /\ tmpAt <= inodes
    /\ tmpAt # 0 => tmpAt # finalAt
    /\ ipc \in Building => ino = tmpAt /\ tmpAt # 0
    /\ ipc \notin Building => ino = 0
    /\ ipc = "checkpointed" => finalAt # 0

(* A session that is at work has a database and a log open *)
Connected ==
    \A s \in Session : spc[s] # "closed" => conn[s].ino # 0 /\ conn[s].log # 0

NamesInv == TypeOK /\ InodesLeft /\ NamesApart /\ Connected

----------------------------------------------------------------------------
(* Databases and logs *)

LEMMA EmptyTyped == EmptyDb \in Db /\ NoRows \in Rows
BY DEF EmptyDb, Db, Rows, NoRows

LEMMA RecordedTyped ==
    ASSUME NEW r \in Rows, NEW p \in Path
    PROVE  Recorded(r[p]) \in Content \union {NoContent}
BY InitPublishAssumption DEF Recorded, Rows

LEMMA ViewTyped ==
    ASSUME TypeOK, NEW n \in Inode, NEW k \in Log
    PROVE  View(n, k) \in Db
BY DEF View, TypeOK

LEMMA CommittedTyped ==
    ASSUME TypeOK, finalAt # 0
    PROVE  Committed \in Db
<1>1. finalAt \in Inode
  BY DEF TypeOK
<1>2. CASE logAt = 0
  BY <1>1, <1>2 DEF Committed, TypeOK
<1>3. CASE logAt # 0
  <2>1. logAt \in Log
    BY <1>3 DEF TypeOK
  <2> QED
    BY <1>1, <1>3, <2>1, ViewTyped DEF Committed
<1> QED
  BY <1>2, <1>3

(* The numbers behind the two names *)
LEMMA NumbersTyped ==
    ASSUME TypeOK
    PROVE  /\ MaxInits \in Nat /\ MaxOpens \in Nat /\ MaxEdits \in Nat /\ MaxFaults \in Nat
           /\ finalAt \in Nat /\ tmpAt \in Nat
           /\ inodes \in Nat /\ inodes >= 1
BY InitPublishAssumption DEF TypeOK, Inode

(* The inode a temporary database gets is a new one or that of a leftover *)
LEMMA TmpInodeFresh ==
    ASSUME NamesInv, ipc \in {"checkpointed", "copied"}
    PROVE  /\ TmpInode \in Inode
           /\ TmpInode # finalAt
           /\ TmpInode <= 1 + inits
<1>1. TypeOK /\ InodesLeft /\ NamesApart
  BY DEF NamesInv
<1>2. tmpAt \in Inode \union {0}
  BY <1>1 DEF TypeOK
<1>3. CASE tmpAt = 0
  BY <1>1, <1>3, NumbersTyped DEF InodesLeft, NamesApart, TmpInode, Inode
<1>4. CASE tmpAt # 0
  BY <1>1, <1>2, <1>4, NumbersTyped DEF InodesLeft, NamesApart, TmpInode, Inode
<1> QED
  BY <1>3, <1>4

----------------------------------------------------------------------------
(* Names and types *)

LEMMA NamesInit ==
    ASSUME Init
    PROVE  NamesInv
<1> USE InitPublishAssumption
<1>1. PICK published \in BOOLEAN, current \in BOOLEAN :
        LET rows == [p \in Path |-> Recorded(disk[p])]
            db == [rows |-> rows, linked |-> TRUE, stamped |-> current,
                   outdated |-> IF current THEN {}
                                ELSE {p \in Path : rows[p] # NoContent}]
        IN  /\ main = [n \in Inode |-> IF n = 1 /\ published THEN db ELSE EmptyDb]
            /\ finalAt = IF published THEN 1 ELSE 0
  BY DEF Init
<1>2. disk \in Rows /\ \A p \in Path : Recorded(disk[p]) \in Content \union {NoContent}
  BY RecordedTyped DEF Init, Rows
<1>3. main \in [Inode -> Db]
  BY <1>1, <1>2, EmptyTyped DEF Db, Rows
<1>4. 1 \in Inode /\ 0 \in 0 .. MaxInits /\ 0 \in 0 .. MaxOpens
  BY DEF Inode
<1>5. log \in [Log -> [base : Inode \union {0}, db : Db]]
  BY EmptyTyped DEF Init, NoFrames
<1>6. TypeOK
  BY <1>1, <1>2, <1>3, <1>4, <1>5, EmptyTyped DEF Init, TypeOK
<1>7. InodesLeft /\ NamesApart /\ Connected
  BY <1>1, <1>4 DEF Init, InodesLeft, NamesApart, Connected, Building
<1> QED
  BY <1>6, <1>7 DEF NamesInv

(* Steps of the user and of sessions *)
LEMMA NamesOthers ==
    ASSUME NamesInv,
           \/ \E p \in Path : Edit(p)
           \/ \E s \in Session : SessionStep(s)
    PROVE  NamesInv'
<1> USE InitPublishAssumption DEF NamesInv
<1>0. TypeOK /\ InodesLeft /\ NamesApart /\ Connected
  OBVIOUS
<1>1. ASSUME NEW p \in Path, Edit(p) PROVE NamesInv'
  <2>1. disk' \in Rows
    BY <1>1 DEF Edit, TypeOK, Rows
  <2>2. TypeOK'
    BY <1>1, <2>1 DEF Edit, TypeOK, names, logs, session
  <2> QED
    BY <1>1, <2>2 DEF Edit, InodesLeft, NamesApart, Connected, names, session
<1>2. ASSUME NEW s \in Session, Open(s) PROVE NamesInv'
  <2>1. finalAt \in Inode /\ opens' \in Log /\ opens' \in 0 .. MaxOpens
    BY <1>2, NumbersTyped DEF Open, TypeOK, InodesLeft, Log
  <2>2. logAt' \in Log /\ conn' = [conn EXCEPT ![s] = [ino |-> finalAt, log |-> logAt']]
    BY <1>2, <2>1 DEF Open, TypeOK
  <2>3. TypeOK'
    BY <1>2, <2>1, <2>2 DEF Open, TypeOK, names, build
  <2>4. Connected'
    BY <1>2, <2>1, <2>2 DEF Open, Connected, TypeOK, Log, Inode
  <2> QED
    BY <1>2, <2>1, <2>3, <2>4 DEF Open, InodesLeft, NamesApart, names, build
<1>3. ASSUME NEW s \in Session, spc[s] # "closed"
      PROVE  /\ conn[s].ino \in Inode /\ conn[s].log \in Log
             /\ SessionView(s) \in Db
  <2>1. conn[s].ino \in Inode /\ conn[s].log \in Log
    BY <1>3 DEF Connected, TypeOK
  <2> QED
    BY <2>1, ViewTyped DEF SessionView
<1>4. ASSUME NEW s \in Session, spc[s] # "closed", NEW db \in Db, Write(s, db),
             NEW to \in {"replaced", "done"}, spc' = [spc EXCEPT ![s] = to]
      PROVE  NamesInv'
  <2>1. log' \in [Log -> [base : Inode \union {0}, db : Db]]
    BY <1>3, <1>4 DEF Write, TypeOK
  <2>2. TypeOK'
    BY <1>4, <2>1 DEF Write, TypeOK, names, build
  <2>3. Connected'
    BY <1>4 DEF Write, Connected, TypeOK
  <2> QED
    BY <1>4, <2>2, <2>3 DEF Write, InodesLeft, NamesApart, names, build, bounds
<1>5. ASSUME NEW s \in Session, ReplaceRows(s) PROVE NamesInv'
  <2> DEFINE replaced(ps) == [SessionView(s) EXCEPT
        !.rows = [p \in Path |-> IF p \in ps THEN Recorded(disk[p]) ELSE @[p]],
        !.outdated = @ \ ps,
        !.linked = FALSE]
  <2>1. PICK ps \in SUBSET Path \ {{}} : Write(s, replaced(ps))
    BY <1>5 DEF ReplaceRows
  <2>2. SessionView(s) \in Db
    BY <1>3, <1>5 DEF ReplaceRows
  <2>3. \A p \in Path : Recorded(disk[p]) \in Content \union {NoContent}
    BY RecordedTyped DEF TypeOK
  <2>4. replaced(ps) \in Db
    BY <2>2, <2>3 DEF Db, Rows
  <2> HIDE DEF replaced
  <2> QED
    BY <1>4, <1>5, <2>1, <2>4 DEF ReplaceRows
<1>6. ASSUME NEW s \in Session, LinkRows(s) PROVE NamesInv'
  <2>1. SessionView(s) \in Db
    BY <1>3, <1>6 DEF LinkRows
  <2>2. [SessionView(s) EXCEPT !.linked = TRUE] \in Db
    BY <2>1 DEF Db
  <2> QED
    BY <1>4, <1>6, <2>2 DEF LinkRows
<1>7. ASSUME NEW s \in Session, Disconnect(s), main' \in [Inode -> Db],
             log' \in [Log -> [base : Inode \union {0}, db : Db]],
             logAt' \in Log \union {0}
      PROVE  NamesInv'
  <2>1. TypeOK'
    BY <1>7 DEF Disconnect, TypeOK, names, build
  <2>2. Connected'
    BY <1>7 DEF Disconnect, Connected, TypeOK
  <2> QED
    BY <1>7, <2>1, <2>2 DEF Disconnect, InodesLeft, NamesApart, names, build
<1>8. ASSUME NEW s \in Session, Close(s) PROVE NamesInv'
  <2>1. spc[s] # "closed" /\ Disconnect(s)
    BY <1>8 DEF Close
  <2>2. main' \in [Inode -> Db]
    BY <1>3, <1>8, <2>1 DEF Close, TypeOK
  <2>3. log' \in [Log -> [base : Inode \union {0}, db : Db]] /\ logAt' \in Log \union {0}
    BY <1>3, <1>8, <2>1, EmptyTyped DEF Close, TypeOK, NoFrames, logs
  <2> QED
    BY <1>7, <2>1, <2>2, <2>3
<1>9. ASSUME NEW s \in Session, Kill(s) PROVE NamesInv'
  <2>1. main' \in [Inode -> Db] /\ log' \in [Log -> [base : Inode \union {0}, db : Db]]
        /\ logAt' \in Log \union {0}
    BY <1>9 DEF Kill, TypeOK, logs
  <2> QED
    BY <1>7, <1>9, <2>1 DEF Kill
<1> QED
  BY <1>1, <1>2, <1>5, <1>6, <1>8, <1>9 DEF SessionStep

(* Steps of init *)
LEMMA NamesInitStep ==
    ASSUME NamesInv, InitStep
    PROVE  NamesInv'
<1> USE InitPublishAssumption DEF NamesInv
<1>0. TypeOK /\ InodesLeft /\ NamesApart /\ Connected
  OBVIOUS
<1> USE NumbersTyped
<1>1. CASE Start
  <2>1. TypeOK'
    BY <1>1 DEF Start, Goto, TypeOK, logs, session, build
  <2>2. InodesLeft' /\ NamesApart'
    BY <1>1 DEF Start, Goto, InodesLeft, NamesApart, Building, build
  <2> QED
    BY <1>1, <2>1, <2>2 DEF Start, Connected, session
<1>2. CASE FirstIndex
  <2>1. TypeOK'
    BY <1>2 DEF FirstIndex, Goto, TypeOK, names, logs, session
  <2>2. InodesLeft' /\ NamesApart'
    BY <1>2 DEF FirstIndex, Goto, InodesLeft, NamesApart, Building, names, bounds
  <2> QED
    BY <1>2, <2>1, <2>2 DEF FirstIndex, Connected, session
<1>3. CASE CheckpointLive
  <2>1. Committed \in Db /\ NoFrames \in [base : Inode \union {0}, db : Db]
    BY <1>3, CommittedTyped, EmptyTyped DEF CheckpointLive, NoFrames
  <2>2. main' \in [Inode -> Db] /\ log' \in [Log -> [base : Inode \union {0}, db : Db]]
    BY <1>3, <2>1 DEF CheckpointLive, TypeOK
  <2>3. TypeOK'
    BY <1>3, <2>2 DEF CheckpointLive, Goto, TypeOK, names, session
  <2>4. InodesLeft' /\ NamesApart'
    BY <1>3 DEF CheckpointLive, Goto, InodesLeft, NamesApart, Building, names
  <2> QED
    BY <1>3, <2>3, <2>4 DEF CheckpointLive, Connected, session
<1>4. CASE CopyLive
  <2>1. TmpInode \in Inode /\ TmpInode # finalAt /\ TmpInode <= 1 + inits
        /\ finalAt \in Inode
    BY <1>4, TmpInodeFresh DEF CopyLive, TypeOK, NamesApart
  <2>2. main' \in [Inode -> Db]
    BY <1>4, <2>1 DEF CopyLive, TypeOK
  <2>3. inodes' \in Inode /\ inodes' <= 1 + inits /\ tmpAt' = TmpInode /\ tmpAt' <= inodes'
        /\ inodes <= inodes'
    BY <1>4, <2>1 DEF CopyLive, NameTmp, TmpInode, TypeOK, InodesLeft, NamesApart
  <2>4. TypeOK'
    BY <1>4, <2>1, <2>2, <2>3 DEF CopyLive, Goto, TypeOK, logs, session, build
  <2>5. InodesLeft' /\ NamesApart'
    BY <1>4, <2>1, <2>3
       DEF CopyLive, Goto, InodesLeft, NamesApart, Building, Inode, build, bounds
  <2> QED
    BY <1>4, <2>4, <2>5 DEF CopyLive, Connected, session
<1>5. CASE OpenTmp
  <2>1. TmpInode \in Inode /\ TmpInode # finalAt /\ TmpInode <= 1 + inits
    BY <1>5, TmpInodeFresh DEF OpenTmp
  <2>2. main' \in [Inode -> Db]
    BY <1>5, <2>1, EmptyTyped DEF OpenTmp, TypeOK
  <2>3. inodes' \in Inode /\ inodes' <= 1 + inits /\ tmpAt' = TmpInode /\ tmpAt' <= inodes'
        /\ inodes <= inodes'
    BY <1>5, <2>1 DEF OpenTmp, NameTmp, TmpInode, TypeOK, InodesLeft, NamesApart
  <2>4. old' \in Rows
    BY <1>5, <2>1, <2>2 DEF OpenTmp, Db
  <2>5. TypeOK'
    BY <1>5, <2>1, <2>2, <2>3, <2>4 DEF OpenTmp, Goto, TypeOK, logs, session
  <2>6. InodesLeft' /\ NamesApart'
    BY <1>5, <2>1, <2>3
       DEF OpenTmp, Goto, InodesLeft, NamesApart, Building, Inode, bounds
  <2> QED
    BY <1>5, <2>5, <2>6 DEF OpenTmp, Connected, session
<1>6. CASE Walk
  <2>1. TypeOK'
    BY <1>6 DEF Walk, Goto, TypeOK, names, logs, session
  <2>2. InodesLeft' /\ NamesApart'
    BY <1>6 DEF Walk, Goto, InodesLeft, NamesApart, Building, names, bounds
  <2> QED
    BY <1>6, <2>1, <2>2 DEF Walk, Connected, session
<1>7. CASE ReadFile
  <2>1. \A p \in Path : Classified(p) \in Content \union {NoContent}
    BY RecordedTyped DEF Classified, TypeOK
  <2>2. touched' \in Rows /\ todo' \in SUBSET Path
    BY <1>7, <2>1 DEF ReadFile, TypeOK, Rows
  <2>3. TypeOK'
    BY <1>7, <2>2 DEF ReadFile, TypeOK, names, logs, session
  <2>4. InodesLeft' /\ NamesApart'
    BY <1>7 DEF ReadFile, InodesLeft, NamesApart, Building, names, bounds
  <2> QED
    BY <1>7, <2>3, <2>4 DEF ReadFile, Connected, session
<1>8. CASE InsertRows
  <2>1. ino \in Inode /\ main[ino] \in Db
    BY <1>8 DEF InsertRows, TypeOK, NamesApart, Building
  <2>2. \A p \in Path : touched[p] \in Content \union {NoContent}
    BY DEF TypeOK, Rows
  <2>3. Inserted(main[ino]) \in Db
    BY <2>1, <2>2 DEF Inserted, Db, Rows
  <2>4. main' = [main EXCEPT ![ino] = Inserted(main[ino])]
    BY <1>8 DEF InsertRows
  <2>5. main' \in [Inode -> Db]
    BY <2>1, <2>3, <2>4 DEF TypeOK
  <2>6. ipc' \in {"linked", "inserted"}
    BY <1>8 DEF InsertRows, Goto
  <2>7. TypeOK'
    BY <1>8, <2>5, <2>6 DEF InsertRows, TypeOK, names, logs, session, build
  <2>8. InodesLeft' /\ NamesApart'
    BY <1>8, <2>6 DEF InsertRows, InodesLeft, NamesApart, Building, names, build, bounds
  <2> QED
    BY <1>8, <2>7, <2>8 DEF InsertRows, Connected, session
<1>9. CASE LinkTmp
  <2>0. ino \in Inode /\ main[ino] \in Db
    BY <1>9 DEF LinkTmp, TypeOK, NamesApart, Building
  <2>1. main' \in [Inode -> Db]
    <3>1. [main[ino] EXCEPT !.linked = TRUE] \in Db
      BY <2>0 DEF Db
    <3>2. main' = main \/ main' = [main EXCEPT ![ino] = [main[ino] EXCEPT !.linked = TRUE]]
      BY <1>9 DEF LinkTmp
    <3> QED
      BY <2>0, <3>1, <3>2 DEF TypeOK
  <2>2. TypeOK'
    BY <1>9, <2>1 DEF LinkTmp, Goto, TypeOK, names, logs, session, build
  <2>3. InodesLeft' /\ NamesApart'
    BY <1>9 DEF LinkTmp, Goto, InodesLeft, NamesApart, Building, names, build
  <2> QED
    BY <1>9, <2>2, <2>3 DEF LinkTmp, Connected, session
<1>10. CASE Stamp
  <2>0. ino \in Inode /\ main[ino] \in Db
    BY <1>10 DEF Stamp, TypeOK, NamesApart, Building
  <2>1. main' \in [Inode -> Db]
    <3>1. [main[ino] EXCEPT !.stamped = TRUE] \in Db
      BY <2>0 DEF Db
    <3>2. main' = [main EXCEPT ![ino] = [main[ino] EXCEPT !.stamped = TRUE]]
      BY <1>10 DEF Stamp
    <3> QED
      BY <2>0, <3>1, <3>2 DEF TypeOK
  <2>2. TypeOK'
    BY <1>10, <2>1 DEF Stamp, Goto, TypeOK, names, logs, session, build
  <2>3. InodesLeft' /\ NamesApart'
    BY <1>10 DEF Stamp, Goto, InodesLeft, NamesApart, Building, names, build, bounds
  <2> QED
    BY <1>10, <2>2, <2>3 DEF Stamp, Connected, session
<1>11. CASE RemoveLog
  <2>1. TypeOK'
    BY <1>11 DEF RemoveLog, Goto, TypeOK, names, session, build
  <2>2. InodesLeft' /\ NamesApart'
    BY <1>11 DEF RemoveLog, Goto, InodesLeft, NamesApart, Building, names, build, bounds
  <2> QED
    BY <1>11, <2>1, <2>2 DEF RemoveLog, Connected, session
<1>12. ASSUME Finish, {finalAt', tmpAt'} \subseteq {finalAt, tmpAt, 0},
              tmpAt' # 0 => tmpAt' # finalAt'
       PROVE  NamesInv'
  <2>1. TypeOK'
    BY <1>12, EmptyTyped DEF Finish, Goto, TypeOK, logs, session
  <2>2. InodesLeft' /\ NamesApart'
    BY <1>12 DEF Finish, Goto, InodesLeft, NamesApart, Building
  <2> QED
    BY <1>12, <2>1, <2>2 DEF Finish, Connected, session
<1>13. CASE Publish
  <2>1. {finalAt', tmpAt'} \subseteq {finalAt, tmpAt, 0} /\ tmpAt' = 0 /\ Finish
    BY <1>13 DEF Publish
  <2> QED
    BY <1>12, <2>1
<1>14. CASE CrashInit
  <2>1. {finalAt', tmpAt'} \subseteq {finalAt, tmpAt, 0} /\ Finish
        /\ (tmpAt' # 0 => tmpAt' # finalAt')
    BY <1>14 DEF CrashInit, names, NamesApart
  <2> QED
    BY <1>12, <2>1
<1> QED
  BY <1>1, <1>2, <1>3, <1>4, <1>5, <1>6, <1>7, <1>8, <1>9, <1>10, <1>11, <1>13, <1>14
     DEF InitStep

LEMMA NamesKept == NamesInv /\ [Next]_vars => NamesInv'
<1> SUFFICES ASSUME NamesInv, [Next]_vars
             PROVE  NamesInv'
  OBVIOUS
<1>1. CASE UNCHANGED vars
  BY <1>1 DEF vars, names, logs, session, build, bounds, NamesInv, TypeOK, InodesLeft,
              NamesApart, Connected
<1> QED
  BY <1>1, NamesOthers, NamesInitStep DEF Next

LEMMA NamesAlways == Spec => []NamesInv
<1>1. Init => NamesInv
  BY NamesInit
<1> QED
  BY <1>1, NamesKept, PTL DEF Spec

(* Every database, log and connection stays what the code takes it for, and   *)
(* the numbers of inodes and logs within their bounds.                        *)
THEOREM TypeCorrect == Spec => []TypeOK
<1>1. NamesInv => TypeOK
  BY DEF NamesInv
<1> QED
  BY <1>1, NamesAlways, PTL

(* An init never has the published database open, whatever crashes leave      *)
(* behind under the temporary name.                                           *)
THEOREM NeverHalfBuiltCorrect == Spec => []NeverHalfBuilt
<1>1. NamesInv => NeverHalfBuilt
  BY DEF NamesInv, NamesApart, NeverHalfBuilt
<1> QED
  BY <1>1, NamesAlways, PTL

----------------------------------------------------------------------------
(* What is published.  The argument is about the inode init has open: no      *)
(* session writes to it, and what init reads and inserts leaves in it the     *)
(* contents on disk, unless the user edits.                                   *)

(* A row an older pipeline wrote is a row *)
OutdatedRows(db) == \A p \in db.outdated : db.rows[p] # NoContent

Outdated ==
    /\ \A n \in Inode : OutdatedRows(main[n])
    /\ \A k \in Log : OutdatedRows(log[k].db)

(* What init has read and not inserted yet *)
Reading ==
    /\ ipc \in {"idle", "cleaned", "checkpointed", "copied", "opened"} => touched = NoRows
    /\ ipc \in {"opened", "reading"} => old = main[ino].rows
    /\ ipc = "reading" /\ ~edited =>
         /\ gone = {p \in Path : disk[p] = NoContent /\ old[p] # NoContent}
         /\ \A p \in Path \ todo : touched[p] = Classified(p)

(* Db describes the disk, as far as a file there is can be parsed *)
Describes(db) ==
    \A p \in Path : disk[p] \in Parses \union {NoContent} => db.rows[p] = disk[p]

Reparsed(db) ==
    \A p \in db.outdated : disk[p] \notin Parses \union {NoContent}

Inserting ==
    ipc \in {"inserted", "linked", "built", "unlogged"} /\ ~edited =>
        /\ Describes(main[ino])
        /\ ~trust => Reparsed(main[ino])

BuildInv == NamesInv /\ Outdated /\ Reading /\ Inserting

(* The heart of it: the rows init leaves alone, deletes and inserts *)
LEMMA InsertedDescribes ==
    ASSUME BuildInv, ipc = "reading", todo = {}, ~edited
    PROVE  /\ Describes(Inserted(main[ino]))
           /\ ~trust => Reparsed(Inserted(main[ino]))
<1> DEFINE db == main[ino]
<1>1. TypeOK /\ ino \in Inode /\ db \in Db
  BY DEF BuildInv, NamesInv, TypeOK, NamesApart, Building
<1>2. /\ old = db.rows
      /\ gone = {p \in Path : disk[p] = NoContent /\ old[p] # NoContent}
      /\ \A p \in Path : touched[p] = Classified(p)
  BY DEF BuildInv, Reading
<1>3. OutdatedRows(db)
  BY <1>1 DEF BuildInv, Outdated
<1> HIDE DEF db
<1>4. Describes(Inserted(db))
  <2> SUFFICES ASSUME NEW p \in Path, disk[p] \in Parses \union {NoContent}
               PROVE  Inserted(db).rows[p] = disk[p]
    BY DEF Describes
  <2>1. Inserted(db).rows[p] = IF touched[p] # NoContent THEN touched[p]
                               ELSE IF p \in gone THEN NoContent ELSE db.rows[p]
    BY <1>1 DEF Inserted, TouchedPaths, Db, Rows
  <2>2. CASE disk[p] = NoContent
    BY <1>2, <2>1, <2>2, InitPublishAssumption DEF Classified, Recorded
  <2>3. CASE disk[p] \in Parses
    BY <1>2, <2>1, <2>3, InitPublishAssumption DEF Classified, Recorded
  <2> QED
    BY <2>2, <2>3
<1>5. ASSUME ~trust PROVE Reparsed(Inserted(db))
  <2> SUFFICES ASSUME NEW p \in Inserted(db).outdated, disk[p] \in Parses \union {NoContent}
               PROVE  FALSE
    BY DEF Reparsed
  <2>1. p \in db.outdated /\ p \in Path /\ p \notin gone /\ touched[p] = NoContent
    BY <1>1 DEF Inserted, TouchedPaths, Db
  <2>2. db.rows[p] # NoContent
    BY <1>3, <2>1 DEF OutdatedRows
  <2>3. disk[p] # NoContent
    BY <1>2, <2>1, <2>2
  <2>4. touched[p] = disk[p]
    BY <1>2, <1>5, <2>1, <2>3 DEF Classified, Recorded
  <2> QED
    BY <2>1, <2>3, <2>4
<1> QED
  BY <1>4, <1>5 DEF db

(* No commit of a session, and no checkpoint, marks an empty row as outdated *)
LEMMA OutdatedView ==
    ASSUME Outdated, NEW n \in Inode, NEW k \in Log
    PROVE  OutdatedRows(View(n, k))
BY DEF Outdated, View

LEMMA OutdatedSession ==
    ASSUME NamesInv, Outdated, NEW s \in Session, SessionStep(s)
    PROVE  Outdated'
<1>1. TypeOK /\ Connected
  BY DEF NamesInv
<1>2. ASSUME spc[s] # "closed"
      PROVE  /\ conn[s].ino \in Inode /\ conn[s].log \in Log
             /\ SessionView(s) \in Db /\ OutdatedRows(SessionView(s))
  <2>1. conn[s].ino \in Inode /\ conn[s].log \in Log
    BY <1>1, <1>2 DEF Connected, TypeOK
  <2> QED
    BY <1>1, <2>1, ViewTyped, OutdatedView DEF SessionView
<1>3. ASSUME spc[s] # "closed", NEW db \in Db, OutdatedRows(db), Write(s, db)
      PROVE  Outdated'
  BY <1>1, <1>2, <1>3 DEF Write, Outdated, TypeOK, OutdatedRows
<1>4. CASE Open(s)
  BY <1>4 DEF Open, Outdated, OutdatedRows
<1>5. CASE ReplaceRows(s)
  <2> DEFINE replaced(ps) == [SessionView(s) EXCEPT
        !.rows = [p \in Path |-> IF p \in ps THEN Recorded(disk[p]) ELSE @[p]],
        !.outdated = @ \ ps,
        !.linked = FALSE]
  <2>1. PICK ps \in SUBSET Path \ {{}} : Write(s, replaced(ps))
    BY <1>5 DEF ReplaceRows
  <2>2. SessionView(s) \in Db /\ OutdatedRows(SessionView(s))
    BY <1>2, <1>5 DEF ReplaceRows
  <2>3. \A p \in Path : Recorded(disk[p]) \in Content \union {NoContent}
    BY <1>1, RecordedTyped DEF TypeOK
  <2>4. replaced(ps) \in Db
    BY <2>2, <2>3 DEF Db, Rows
  <2>5. OutdatedRows(replaced(ps))
    BY <2>2 DEF Db, OutdatedRows
  <2> HIDE DEF replaced
  <2> QED
    BY <1>3, <1>5, <2>1, <2>4, <2>5 DEF ReplaceRows
<1>6. CASE LinkRows(s)
  <2>1. SessionView(s) \in Db /\ OutdatedRows(SessionView(s))
    BY <1>2, <1>6 DEF LinkRows
  <2>2. [SessionView(s) EXCEPT !.linked = TRUE] \in Db
        /\ OutdatedRows([SessionView(s) EXCEPT !.linked = TRUE])
    BY <2>1 DEF Db, OutdatedRows
  <2> QED
    BY <1>3, <1>6, <2>2 DEF LinkRows
<1>7. CASE Close(s)
  <2>1. OutdatedRows(EmptyDb)
    BY DEF OutdatedRows, EmptyDb
  <2>2. spc[s] # "closed"
    BY <1>7 DEF Close
  <2>3. CASE UNCHANGED <<main, log>>
    BY <2>3 DEF Outdated, OutdatedRows
  <2>4. CASE /\ main' = [main EXCEPT ![conn[s].ino] = SessionView(s)]
             /\ log' = [log EXCEPT ![conn[s].log] = NoFrames]
    <3>1. \A n \in Inode : OutdatedRows(main'[n])
      BY <1>1, <1>2, <2>2, <2>4 DEF TypeOK, Outdated
    <3>2. \A k \in Log : OutdatedRows(log'[k].db)
      BY <1>1, <1>2, <2>1, <2>2, <2>4 DEF TypeOK, Outdated, NoFrames
    <3> QED
      BY <3>1, <3>2 DEF Outdated, OutdatedRows
  <2> QED
    BY <1>7, <2>3, <2>4 DEF Close, logs
<1>8. CASE Kill(s)
  BY <1>8 DEF Kill, Outdated, OutdatedRows, logs
<1> QED
  BY <1>4, <1>5, <1>6, <1>7, <1>8 DEF SessionStep

LEMMA OutdatedInit ==
    ASSUME NamesInv, Outdated, InitStep
    PROVE  Outdated'
<1>1. TypeOK /\ NamesApart
  BY DEF NamesInv
<1>2. OutdatedRows(EmptyDb)
  BY DEF OutdatedRows, EmptyDb
<1>3. ASSUME NEW n \in Inode, NEW db, OutdatedRows(db), main' = [main EXCEPT ![n] = db],
             UNCHANGED log
      PROVE  Outdated'
  <2>1. \A m \in Inode : OutdatedRows(main'[m])
    BY <1>1, <1>3 DEF TypeOK, Outdated
  <2> QED
    BY <1>3, <2>1 DEF Outdated, OutdatedRows
<1>4. CASE UNCHANGED <<main, log>>
  BY <1>4 DEF Outdated, OutdatedRows
<1>5. CASE CheckpointLive
  <2>1. finalAt \in Inode /\ OutdatedRows(Committed)
    <3>1. finalAt \in Inode
      BY <1>1, <1>5 DEF CheckpointLive, TypeOK
    <3>2. logAt # 0 => logAt \in Log
      BY <1>1 DEF TypeOK
    <3> QED
      BY <3>1, <3>2, OutdatedView DEF Committed, Outdated
  <2>2. CASE main' = [main EXCEPT ![finalAt] = Committed]
    <3>1. \A n \in Inode : OutdatedRows(main'[n])
      BY <1>1, <2>1, <2>2 DEF TypeOK, Outdated
    <3>2. log' = log \/ log' = [log EXCEPT ![logAt] = NoFrames]
      BY <1>5 DEF CheckpointLive
    <3>3. \A k \in Log : OutdatedRows(log'[k].db)
      BY <1>1, <1>2, <3>2 DEF TypeOK, Outdated, NoFrames
    <3> QED
      BY <3>1, <3>3 DEF Outdated, OutdatedRows
  <2> QED
    BY <1>4, <1>5, <2>2 DEF CheckpointLive
<1>6. CASE CopyLive
  <2>1. TmpInode \in Inode /\ finalAt \in Inode
    BY <1>1, <1>6, TmpInodeFresh DEF CopyLive, TypeOK, NamesApart
  <2>2. OutdatedRows(main[finalAt])
    BY <2>1 DEF Outdated
  <2> QED
    BY <1>3, <1>6, <2>1, <2>2 DEF CopyLive, logs
<1>7. CASE OpenTmp
  <2>1. TmpInode \in Inode
    BY <1>7, TmpInodeFresh DEF OpenTmp
  <2> QED
    BY <1>2, <1>3, <1>4, <1>7, <2>1 DEF OpenTmp, logs
<1>8. CASE InsertRows
  <2>1. ino \in Inode /\ main[ino] \in Db /\ OutdatedRows(main[ino])
    BY <1>1, <1>8 DEF InsertRows, TypeOK, NamesApart, Building, Outdated
  <2>2. OutdatedRows(Inserted(main[ino]))
    BY <2>1 DEF Inserted, OutdatedRows, Db
  <2>3. main' = [main EXCEPT ![ino] = Inserted(main[ino])] /\ UNCHANGED log
    BY <1>8 DEF InsertRows, logs
  <2> QED
    BY <1>3, <2>1, <2>2, <2>3
<1>9. CASE LinkTmp
  <2>1. ino \in Inode /\ main[ino] \in Db /\ OutdatedRows(main[ino])
    BY <1>1, <1>9 DEF LinkTmp, TypeOK, NamesApart, Building, Outdated
  <2>2. OutdatedRows([main[ino] EXCEPT !.linked = TRUE])
    BY <2>1 DEF OutdatedRows, Db
  <2>3. /\ UNCHANGED log
        /\ main' = main \/ main' = [main EXCEPT ![ino] = [main[ino] EXCEPT !.linked = TRUE]]
    BY <1>9 DEF LinkTmp, logs
  <2> QED
    BY <1>3, <1>4, <2>1, <2>2, <2>3
<1>10. CASE Stamp
  <2>1. ino \in Inode /\ main[ino] \in Db /\ OutdatedRows(main[ino])
    BY <1>1, <1>10 DEF Stamp, TypeOK, NamesApart, Building, Outdated
  <2>2. OutdatedRows([main[ino] EXCEPT !.stamped = TRUE])
    BY <2>1 DEF OutdatedRows, Db
  <2>3. main' = [main EXCEPT ![ino] = [main[ino] EXCEPT !.stamped = TRUE]] /\ UNCHANGED log
    BY <1>10 DEF Stamp, logs
  <2> QED
    BY <1>3, <2>1, <2>2, <2>3
<1>11. CASE Start \/ FirstIndex \/ Walk \/ ReadFile \/ RemoveLog \/ Publish \/ CrashInit
  BY <1>4, <1>11 DEF Start, FirstIndex, Walk, ReadFile, RemoveLog, Publish, CrashInit,
                     Finish, logs
<1> QED
  BY <1>5, <1>6, <1>7, <1>8, <1>9, <1>10, <1>11 DEF InitStep

(* The inode init has open is written by init only *)
LEMMA OwnInode ==
    ASSUME NamesInv, ipc \in Building, NEW s \in Session, SessionStep(s)
    PROVE  main'[ino] = main[ino] /\ UNCHANGED <<disk, ipc, build>>
<1>1. TypeOK /\ ino \in Inode /\ ino # finalAt
  BY DEF NamesInv, NamesApart, TypeOK
<1>2. CASE Close(s)
  <2>1. \/ main' = main
        \/ conn[s].ino = finalAt /\ main' = [main EXCEPT ![conn[s].ino] = SessionView(s)]
    BY <1>2 DEF Close, LastOf
  <2>2. main'[ino] = main[ino]
    BY <1>1, <2>1 DEF TypeOK
  <2>3. UNCHANGED <<disk, ipc, build>>
    BY <1>2 DEF Close, Disconnect
  <2> QED
    BY <2>2, <2>3
<1> QED
  BY <1>2 DEF SessionStep, Open, ReplaceRows, LinkRows, Kill, Write, Disconnect

LEMMA BuildOthers ==
    ASSUME BuildInv,
           \/ \E p \in Path : Edit(p)
           \/ \E s \in Session : SessionStep(s)
    PROVE  BuildInv'
<1>1. NamesInv /\ Outdated /\ Reading /\ Inserting
  BY DEF BuildInv
<1>2. NamesInv'
  BY <1>1, NamesOthers
<1>3. ASSUME NEW p \in Path, Edit(p) PROVE BuildInv'
  <2>1. edited' = TRUE /\ UNCHANGED <<main, log, ipc, ino, old, touched>>
    BY <1>3 DEF Edit, logs
  <2>2. Outdated' /\ Reading' /\ Inserting'
    BY <1>1, <2>1 DEF Outdated, OutdatedRows, Reading, Inserting
  <2> QED
    BY <1>2, <2>2 DEF BuildInv
<1>4. ASSUME NEW s \in Session, SessionStep(s) PROVE BuildInv'
  <2>1. Outdated'
    BY <1>1, <1>4, OutdatedSession
  <2>2. UNCHANGED <<disk, ipc, build>>
    BY <1>4 DEF SessionStep, Open, ReplaceRows, LinkRows, Close, Kill, Write, Disconnect
  <2>3. ipc \in Building => main'[ino'] = main[ino]
    BY <1>1, <1>4, <2>2, OwnInode DEF build
  <2>4. Reading'
    BY <1>1, <2>2, <2>3 DEF Reading, Building, Classified, build
  <2>5. Inserting'
    BY <1>1, <2>2, <2>3 DEF Inserting, Building, Describes, Reparsed, build
  <2> QED
    BY <1>2, <2>1, <2>4, <2>5 DEF BuildInv
<1> QED
  BY <1>3, <1>4

LEMMA BuildInitStep ==
    ASSUME BuildInv, InitStep
    PROVE  BuildInv'
<1>1. NamesInv /\ Outdated /\ Reading /\ Inserting /\ TypeOK /\ NamesApart
  BY DEF BuildInv, NamesInv
<1>2. NamesInv' /\ Outdated'
  BY <1>1, NamesInitStep, OutdatedInit
<1> SUFFICES Reading' /\ Inserting'
  BY <1>2 DEF BuildInv
<1>3. CASE Start \/ FirstIndex \/ CheckpointLive \/ CopyLive
  <2>1. /\ ipc' \in {"cleaned", "copied", "checkpointed"}
        /\ ipc \in {"idle", "cleaned", "checkpointed"}
        /\ touched' = touched
    BY <1>3 DEF Start, FirstIndex, CheckpointLive, CopyLive, Goto, build
  <2> QED
    BY <1>1, <2>1 DEF Reading, Inserting
<1>4. CASE OpenTmp
  <2>1. ipc = "copied" /\ ipc' = "opened" /\ touched' = touched /\ old' = main'[ino'].rows
    BY <1>4 DEF OpenTmp, Goto
  <2> QED
    BY <1>1, <2>1 DEF Reading, Inserting
<1>5. CASE Walk
  <2>1. /\ ipc = "opened" /\ ipc' = "reading" /\ UNCHANGED <<touched, old, main, ino, disk, trust>>
        /\ gone' = {p \in Path : disk[p] = NoContent /\ old[p] # NoContent}
        /\ todo' = {p \in Path : disk[p] # NoContent}
    BY <1>5 DEF Walk, Goto
  <2>2. \A p \in Path \ todo' : touched'[p] = Classified(p)'
    BY <1>1, <2>1, InitPublishAssumption DEF Reading, NoRows, Classified, Recorded
  <2> QED
    BY <1>1, <2>1, <2>2 DEF Reading, Inserting
<1>6. CASE ReadFile
  <2>1. PICK p \in todo : todo' = todo \ {p} /\ touched' = [touched EXCEPT ![p] = Classified(p)]
    BY <1>6 DEF ReadFile
  <2>2. /\ ipc = "reading" /\ ipc' = "reading" /\ p \in Path
        /\ UNCHANGED <<old, main, ino, disk, trust, gone, edited>>
    BY <1>1, <1>6, <2>1 DEF ReadFile, TypeOK
  <2>3. \A q \in Path : Classified(q)' = Classified(q)
    BY <2>2 DEF Classified
  <2>4. ~edited => \A q \in Path \ todo' : touched'[q] = Classified(q)'
    BY <1>1, <2>1, <2>2, <2>3 DEF Reading, TypeOK, Rows
  <2> QED
    BY <1>1, <2>2, <2>4 DEF Reading, Inserting
<1>7. CASE InsertRows
  <2>1. /\ ipc = "reading" /\ todo = {} /\ ipc' \in {"linked", "inserted"}
        /\ main' = [main EXCEPT ![ino] = Inserted(main[ino])]
        /\ UNCHANGED <<disk, ino, edited, trust>>
    BY <1>7 DEF InsertRows, Goto, build
  <2>2. ino \in Inode
    BY <1>1, <2>1 DEF TypeOK, NamesApart, Building
  <2>3. main'[ino'] = Inserted(main[ino])
    BY <1>1, <2>1, <2>2 DEF TypeOK
  <2>4. ~edited => Describes(Inserted(main[ino])) /\ (~trust => Reparsed(Inserted(main[ino])))
    BY <2>1, InsertedDescribes
  <2> QED
    BY <2>1, <2>3, <2>4 DEF Reading, Inserting, Describes, Reparsed
<1>8. CASE LinkTmp \/ Stamp \/ RemoveLog
  <2>1. /\ ipc \in {"inserted", "linked", "built"}
        /\ ipc' \in {"linked", "built", "unlogged"}
        /\ UNCHANGED <<disk, ino, edited, trust>>
    BY <1>8 DEF LinkTmp, Stamp, RemoveLog, Goto, build
  <2>2. ino \in Inode /\ main[ino] \in Db
    BY <1>1, <2>1 DEF TypeOK, NamesApart, Building
  <2>3. main'[ino].rows = main[ino].rows /\ main'[ino].outdated = main[ino].outdated
    <3>1. CASE main' = main
      BY <3>1
    <3>2. CASE main' = [main EXCEPT ![ino] = [main[ino] EXCEPT !.linked = TRUE]]
      BY <1>1, <2>2, <3>2 DEF TypeOK, Db
    <3>3. CASE main' = [main EXCEPT ![ino] = [main[ino] EXCEPT !.stamped = TRUE]]
      BY <1>1, <2>2, <3>3 DEF TypeOK, Db
    <3> QED
      BY <1>8, <3>1, <3>2, <3>3 DEF LinkTmp, Stamp, RemoveLog
  <2> QED
    BY <1>1, <2>1, <2>3 DEF Reading, Inserting, Describes, Reparsed
<1>9. CASE Publish \/ CrashInit
  <2>1. ipc' = "idle" /\ touched' = NoRows
    BY <1>9 DEF Publish, CrashInit, Finish, Goto
  <2> QED
    BY <2>1 DEF Reading, Inserting
<1> QED
  BY <1>3, <1>4, <1>5, <1>6, <1>7, <1>8, <1>9 DEF InitStep

LEMMA BuildStart == Init => BuildInv
<1> SUFFICES ASSUME Init PROVE BuildInv
  OBVIOUS
<1>1. NamesInv
  BY NamesInit
<1>2. Outdated
  BY DEF Init, Outdated, OutdatedRows, EmptyDb, NoFrames
<1>3. Reading /\ Inserting
  BY DEF Init, Reading, Inserting
<1> QED
  BY <1>1, <1>2, <1>3 DEF BuildInv

LEMMA BuildKept == BuildInv /\ [Next]_vars => BuildInv'
<1> SUFFICES ASSUME BuildInv, [Next]_vars
             PROVE  BuildInv'
  OBVIOUS
<1>1. CASE UNCHANGED vars
  <2>1. NamesInv'
    BY <1>1, NamesKept DEF BuildInv
  <2>2. Outdated' /\ Reading' /\ Inserting'
    BY <1>1 DEF BuildInv, vars, names, logs, session, build, bounds, Outdated, OutdatedRows,
                Reading, Inserting, Classified, Describes, Reparsed
  <2> QED
    BY <2>1, <2>2 DEF BuildInv
<1> QED
  BY <1>1, BuildOthers, BuildInitStep DEF Next

LEMMA BuildAlways == Spec => []BuildInv
BY BuildStart, BuildKept, PTL DEF Spec

(* What a publication shows others is what init has built *)
LEMMA PublishesBuilt ==
    ASSUME BuildInv, [Next]_vars, Publishes, ~edited
    PROVE  /\ Describes(main'[finalAt'])
           /\ ~trust => Reparsed(main'[finalAt'])
<1>1. NamesInv /\ NamesApart /\ Inserting
  BY DEF BuildInv, NamesInv
<1>2. ipc = "unlogged" /\ ipc' = "idle" /\ finalAt' # finalAt
  BY DEF Publishes
<1>3. Publish
  BY <1>2 DEF Next, vars, Edit, SessionStep, Open, ReplaceRows, LinkRows, Close, Kill, Write,
              Disconnect, InitStep, Start, FirstIndex, CheckpointLive, CopyLive, OpenTmp, Walk,
              ReadFile, InsertRows, LinkTmp, Stamp, RemoveLog, CrashInit, names
<1>4. finalAt' = ino /\ main' = main
  BY <1>1, <1>2, <1>3 DEF Publish, Finish, NamesApart, Building
<1> QED
  BY <1>1, <1>2, <1>4 DEF Inserting

(* If no file has changed since init walked, the rows it publishes are those  *)
(* of the files on disk, whatever sessions, kills and earlier inits did.      *)
THEOREM PublishedUpToDateCorrect == Spec => PublishedUpToDate
<1>1. BuildInv /\ [Next]_vars =>
        [(Publishes /\ ~edited) =>
           \A p \in Path : disk[p] \in Parses \union {NoContent} =>
               main'[finalAt'].rows[p] = disk[p]]_vars
  BY PublishesBuilt DEF Describes
<1> QED
  BY <1>1, BuildAlways, PTL DEF Spec, PublishedUpToDate

(* An init that does not trust the hashes of an older pipeline publishes none *)
(* of its rows, but those of files that no longer parse.                      *)
THEOREM PublishedReparsedCorrect == Spec => PublishedReparsed
<1>1. BuildInv /\ [Next]_vars =>
        [(Publishes /\ ~edited /\ ~trust) =>
           \A p \in main'[finalAt'].outdated : disk[p] \notin Parses \union {NoContent}]_vars
  BY PublishesBuilt DEF Reparsed
<1> QED
  BY <1>1, BuildAlways, PTL DEF Spec, PublishedReparsed

=============================================================================
