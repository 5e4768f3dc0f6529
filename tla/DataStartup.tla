---------------------------- MODULE DataStartup ----------------------------
(***************************************************************************)
(* From the start of a runtime to its open database: the copy of an old    *)
(* data directory (local-runtime/migration.ts), the choice of the path     *)
(* (runtime.ts, openStorage), the migration of the schema and the recovery *)
(* from a file that does not open (engine-node/db.ts).  The process may    *)
(* die between any two writes, and start again.  One process at a time:    *)
(* it holds the claim of module RuntimeOwnership.                          *)
(*                                                                         *)
(* A database is its main file and its write-ahead log, which SQLite       *)
(* (external) replays or deletes when it opens the file.  -shm is rebuilt  *)
(* from them and left out, and so is the token, which is copied like the   *)
(* settings.                                                               *)
(***************************************************************************)
EXTENDS Naturals, Sequences, FiniteSets

CONSTANTS
    NoFile,
    OldVersions,    \* schema versions that a data directory may have
    MaxFaults       \* bound on crashes, damage and errors

ASSUME StartupAssumption == OldVersions \subseteq 1..6 /\ MaxFaults \in Nat

VARIABLES
    dir,            \* home, custom and legacy: db, wal, settings
    aside,          \* files that a quarantine has renamed
    marker,         \* files of an unfinished copy, or NoFile
    phase, path,    \* where the start is, and the file that it opens
    todo,           \* files that are still to be copied; steps to be migrated
    faults,
    made,           \* history: every database that there has been
    cutShort        \* history: the process died in the middle of a quarantine

vars == <<dir, aside, marker, phase, path, todo, faults, made, cutShort>>

SchemaVersion == 5

\* What the steps to 2, 3, 4 and 5 give a database.
Parts == {"compositeKey", "services", "spanSource", "instrumentSource", "timeIndex"}
PartsOf(version) ==
    CASE version = 1 -> {} [] version = 2 -> {"compositeKey"}
      [] version = 3 -> {"compositeKey", "services"}
      [] version = 4 -> Parts \ {"timeIndex"} [] OTHER -> Parts

\* "prefixes": how often the identity of an instrument has been given the name
\* of its source; "walled": there are commits that only the log has.
Databases == [line : Nat, version : 0..6, populated : BOOLEAN, parts : SUBSET Parts,
              prefixes : {0, 1}, walled : BOOLEAN, state : {"sound", "torn", "damaged"}]

Database(line, version, walled) ==
    [line |-> line, version |-> version, populated |-> TRUE, parts |-> PartsOf(version),
     prefixes |-> IF version < 4 THEN 0 ELSE 1, walled |-> walled, state |-> "sound"]

EmptyFile(line) ==
    [line |-> line, version |-> 0, populated |-> FALSE, parts |-> {}, prefixes |-> 1,
     walled |-> FALSE, state |-> "sound"]

\* What a file has in it is never taken for its absence.
ASSUME NoFileAssumption == NoFile \notin Databases \cup Nat \cup Seq({"wal", "db", "settings"})

Populated(f) == f # NoFile /\ f.populated
NoFiles == [db |-> NoFile, wal |-> NoFile, settings |-> NoFile]

\* What a directory may hold when the runtime has never run there, or has: a
\* process that has died leaves a log.
Found(line) ==
    {NoFiles} \cup {[db |-> Database(line, v, walled), wal |-> IF walled THEN line ELSE NoFile,
                     settings |-> s] : v \in OldVersions, walled \in BOOLEAN, s \in {NoFile, "default", "custom"}}

Init ==
    /\ \E old \in Found(1), here \in Found(2) \cup {[NoFiles EXCEPT !.db = EmptyFile(2)]},
          there \in {NoFile, Database(3, SchemaVersion, FALSE)} :
          dir = [legacy |-> old, home |-> here, custom |-> [NoFiles EXCEPT !.db = there]]
    /\ aside = {}
    /\ marker = NoFile
    /\ phase = "down" /\ path = "home" /\ todo = <<>>
    /\ faults = 0 /\ cutShort = FALSE
    /\ made = {dir[p].db.line : p \in {q \in DOMAIN dir : Populated(dir[q].db)}}

Fault == faults < MaxFaults /\ faults' = faults + 1
Go(p) == phase' = p

-----------------------------------------------------------------------------
(* migration.ts                                                             *)

Start ==
    /\ phase = "down"
    /\ Go("marker")
    /\ UNCHANGED <<dir, aside, marker, path, todo, faults, made, cutShort>>

\* readMarker(); the marker is written by one rename, and so never half.
ReadMarker ==
    /\ phase = "marker"
    /\ IF marker # NoFile THEN todo' = marker /\ Go("copy") ELSE todo' = <<>> /\ Go("scan")
    /\ UNCHANGED <<dir, aside, marker, path, faults, made, cutShort>>

\* readConfiguredDatabasePath()
Custom(settings) == settings = "custom"

\* The loop over the candidates, of which there is one.
Scan ==
    LET home == dir.home
        old == dir.legacy
        custom == Custom(IF home.settings # NoFile THEN home.settings ELSE old.settings)
        conflict == ~custom /\ Populated(old.db) /\ Populated(home.db)
        replace == ~custom /\ Populated(old.db) /\ home.db # NoFile /\ ~Populated(home.db)
        kept == IF replace THEN [home EXCEPT !.db = NoFile] ELSE home
        wanted == (IF custom THEN {} ELSE {"wal", "db"}) \cup {"settings"}
        Missing(f) == IF f \in wanted /\ old[f] # NoFile /\ kept[f] = NoFile THEN <<f>> ELSE <<>>
        files == Missing("wal") \o Missing("db") \o Missing("settings")
    IN  /\ phase = "scan"
        /\ IF conflict THEN UNCHANGED <<dir, todo>> /\ Go("path")
           ELSE /\ dir' = [dir EXCEPT !.home = kept]
                /\ todo' = files
                /\ Go(IF files = <<>> THEN "path" ELSE "mark")
        /\ UNCHANGED <<aside, marker, path, faults, made, cutShort>>

WriteMarker ==
    /\ phase = "mark"
    /\ marker' = todo
    /\ Go("copy")
    /\ UNCHANGED <<dir, aside, path, todo, faults, made, cutShort>>

\* A mutant of CopyFile: the copy goes to its place at once, and a crash may
\* leave half of it there.
CopyInPlace ==
    LET f == Head(todo)
    IN  /\ phase = "copy" /\ todo # <<>>
        /\ \/ /\ dir' = IF dir.home[f] = NoFile THEN [dir EXCEPT !.home[f] = dir.legacy[f]] ELSE dir
              /\ todo' = Tail(todo)
              /\ UNCHANGED <<phase, faults>>
           \/ /\ Fault /\ f = "db" /\ dir.home.db = NoFile
              /\ dir' = [dir EXCEPT !.home.db = [dir.legacy.db EXCEPT !.state = "torn"]]
              /\ Go("down") /\ UNCHANGED todo
        /\ UNCHANGED <<aside, marker, path, made, cutShort>>

\* A mutant of CopyFile: a file that is there is an error.
CopyExclusive ==
    LET f == Head(todo)
    IN  /\ phase = "copy" /\ todo # <<>>
        /\ \/ dir.home[f] = NoFile /\ dir' = [dir EXCEPT !.home[f] = dir.legacy[f]] /\ UNCHANGED phase
           \/ dir.home[f] # NoFile /\ Go("down") /\ UNCHANGED dir
        /\ todo' = Tail(todo)
        /\ UNCHANGED <<aside, marker, path, faults, made, cutShort>>

\* copyMarkedFiles(), one file: to a temporary name, then renamed, which is
\* what shows; a file that is there is left alone.
CopyFile ==
    LET f == Head(todo)
    IN  /\ phase = "copy" /\ todo # <<>>
        /\ dir' = IF dir.home[f] = NoFile THEN [dir EXCEPT !.home[f] = dir.legacy[f]] ELSE dir
        /\ todo' = Tail(todo)
        /\ UNCHANGED <<aside, marker, phase, path, faults, made, cutShort>>

RemoveMarker ==
    /\ phase = "copy" /\ todo = <<>>
    /\ marker' = NoFile
    /\ Go("path")
    /\ UNCHANGED <<dir, aside, path, todo, faults, made, cutShort>>

-----------------------------------------------------------------------------
(* runtime.ts and db.ts                                                     *)

\* SettingsStore.open, then the preferred path of openStorage.
ChoosePath ==
    /\ phase = "path"
    /\ path' = IF Custom(dir.home.settings) THEN "custom" ELSE "home"
    /\ Go("open")
    /\ UNCHANGED <<dir, aside, marker, todo, faults, made, cutShort>>

\* openStorage: a configured file that does not open gives way to the default.
GiveUp ==
    IF path = "custom" THEN path' = "home" /\ Go("open") ELSE Go("down") /\ UNCHANGED path

Old(db) == db.version \in 1..SchemaVersion - 1
Unusable(db) == db # NoFile /\ (db.state = "damaged" \/ db.version > SchemaVersion)

\* SQLite takes the log that lies beside the file: it deletes it when the file
\* is empty, and replays it otherwise, whichever database wrote it.
Replayed(files, line) ==
    CASE files.db = NoFile \/ ~Populated(files.db) ->
             [files EXCEPT !.wal = NoFile, !.db = IF @ = NoFile THEN EmptyFile(line) ELSE @]
      [] Populated(files.db) /\ files.wal = NoFile ->
             [files EXCEPT !.db.state = IF files.db.walled THEN "torn" ELSE @]
      [] Populated(files.db) /\ files.wal # NoFile ->
             [files EXCEPT !.db.state = IF files.wal # files.db.line THEN "torn" ELSE @,
                           !.wal = files.db.line, !.db.walled = TRUE]

NewLine == 2 * Cardinality(made) + IF path = "home" THEN 4 ELSE 5

\* MIGRATIONS: the versions that are still to be reached, in their order.
StepsAfter(version) == [i \in 1..SchemaVersion - version |-> version + i]

\* openDatabase, up to what initSchema finds.
OpenDatabase ==
    LET files == Replayed(dir[path], NewLine)
    IN  /\ phase \in {"open", "reopen"}
        /\ ~Unusable(dir[path].db)
        /\ dir' = [dir EXCEPT ![path] = files]
        /\ Go(CASE files.db.version = 0 -> "bootstrap"
                [] Old(files.db) -> "migrate"
                [] OTHER -> "up")
        /\ todo' = StepsAfter(files.db.version)
        /\ UNCHANGED <<aside, marker, path, faults, made, cutShort>>

\* Any other error than that of a migration, a passing one included.
OpenFails ==
    /\ phase \in {"open", "reopen"}
    /\ \/ Unusable(dir[path].db) /\ UNCHANGED faults
       \/ ~Unusable(dir[path].db) /\ Fault
    /\ IF phase = "open" THEN Go("quarantine") /\ UNCHANGED path ELSE GiveUp
    /\ UNCHANGED <<dir, aside, marker, todo, made, cutShort>>

\* A mutant of Aside: one name for every file that is set aside.
AsideOneName(files, f) == {g \in files : g.name # f.name} \cup {f}

\* A name with the time in it.
Aside(files, f) == files \cup {f}

\* quarantineDatabaseFile(): one rename after the other.
Quarantine ==
    /\ phase = "quarantine"
    /\ LET first == {f \in {"db", "wal"} : dir[path][f] # NoFile /\ (f = "wal" => dir[path].db = NoFile)}
       IN IF first = {} THEN Go("reopen") /\ UNCHANGED <<dir, aside>>
          ELSE \E f \in first :
                 /\ aside' = Aside(aside, [name |-> f, file |-> dir[path][f]])
                 /\ dir' = [dir EXCEPT ![path][f] = NoFile]
                 /\ UNCHANGED phase
    /\ UNCHANGED <<marker, path, todo, faults, made, cutShort>>

SetDb(db) == dir' = [dir EXCEPT ![path].db = db]

\* A new file: the tables, then the version, which a crash may keep apart.
Bootstrap ==
    /\ phase = "bootstrap"
    /\ LET db == dir[path].db
       IN /\ made' = made \cup {db.line}
          /\ \/ /\ db.parts # Parts
                /\ SetDb([db EXCEPT !.parts = Parts, !.populated = TRUE])
                /\ UNCHANGED phase
             \/ /\ db.parts = Parts
                /\ SetDb([db EXCEPT !.version = SchemaVersion])
                /\ Go("up")
    /\ UNCHANGED <<aside, marker, path, todo, faults, cutShort>>

\* A mutant of Applied: the identities are given the source every time.
AppliedBlindly(db, step) ==
    CASE step = 2 -> [db EXCEPT !.parts = (@ \ {"spanSource"}) \cup {"compositeKey"}]
      [] step = 3 -> [db EXCEPT !.parts = @ \cup {"services"}]
      [] step = 4 -> [db EXCEPT !.parts = @ \cup {"spanSource", "instrumentSource"},
                                !.prefixes = IF @ = 2 THEN 2 ELSE @ + 1]
      [] step = 5 -> [db EXCEPT !.parts = @ \cup {"timeIndex"}]

\* One step, in its own transaction.  The table that step 2 builds has no
\* column for the source; step 4 adds the columns that are missing and gives
\* the identities the source when theirs was.
Applied(db, step) ==
    CASE step = 2 -> [db EXCEPT !.parts = (@ \ {"spanSource"}) \cup {"compositeKey"}]
      [] step = 3 -> [db EXCEPT !.parts = @ \cup {"services"}]
      [] step = 4 -> [db EXCEPT !.parts = @ \cup {"spanSource", "instrumentSource"},
                                !.prefixes = IF "instrumentSource" \in db.parts THEN @ ELSE @ + 1]
      [] step = 5 -> [db EXCEPT !.parts = @ \cup {"timeIndex"}]

\* The loop of initSchema; the version is set once, after the last step.
Migrate ==
    /\ phase = "migrate"
    /\ IF todo # <<>> THEN SetDb(Applied(dir[path].db, Head(todo))) /\ todo' = Tail(todo) /\ UNCHANGED phase
       ELSE SetDb([dir[path].db EXCEPT !.version = SchemaVersion]) /\ Go("up") /\ UNCHANGED todo
    /\ UNCHANGED <<aside, marker, path, faults, made, cutShort>>

\* SchemaMigrationError: the step is rolled back and nothing is set aside.
MigrationFails ==
    /\ phase = "migrate" /\ todo # <<>>
    /\ Fault
    /\ GiveUp
    /\ UNCHANGED <<dir, aside, marker, todo, made, cutShort>>

-----------------------------------------------------------------------------
\* Telemetry is stored: its commits are in the log.
Store ==
    /\ phase = "up"
    /\ dir' = [dir EXCEPT ![path].wal = dir[path].db.line, ![path].db.walled = TRUE]
    /\ UNCHANGED <<aside, marker, phase, path, todo, faults, made, cutShort>>

\* close(): the last connection checkpoints and removes the log.
Close ==
    /\ phase = "up"
    /\ dir' = [dir EXCEPT ![path].wal = NoFile, ![path].db.walled = FALSE]
    /\ Go("down")
    /\ UNCHANGED <<aside, marker, path, todo, faults, made, cutShort>>

Crash ==
    /\ Fault
    /\ phase # "down"
    /\ cutShort' = (cutShort \/ (phase = "quarantine" /\ dir[path].db = NoFile /\ dir[path].wal # NoFile))
    /\ Go("down")
    /\ UNCHANGED <<dir, aside, marker, path, todo, made>>

\* A file goes bad.
Damage ==
    /\ Fault
    /\ phase = "down" /\ Populated(dir.home.db)
    /\ dir' = [dir EXCEPT !.home.db.state = "damaged"]
    /\ UNCHANGED <<aside, marker, phase, path, todo, made, cutShort>>

Begin == Start \/ ReadMarker \/ Scan \/ WriteMarker \/ CopyFile \/ RemoveMarker \/ ChoosePath
Settle == OpenDatabase \/ OpenFails \/ Quarantine \/ Bootstrap \/ Migrate

Next == Begin \/ Settle \/ MigrationFails \/ Store \/ Close \/ Crash \/ Damage

\* A start runs to its end unless something interrupts it, and there is always
\* another one.
Spec == Init /\ [][Next]_vars /\ WF_vars(Begin) /\ WF_vars(Settle)

-----------------------------------------------------------------------------
\* migration.ts, "an interrupted migration resumable before SQLite is opened":
\* the database that the runtime opens has all of its commits, those of the log
\* included, and none of another database's, however often the copy was cut
\* short, unless a quarantine was.
\* The settings come with it: a runtime that works on a copy of the old database
\* works under the old settings.
OpenedWhole ==
    phase = "up" =>
        /\ ~cutShort => dir[path].db.state = "sound"
        /\ dir[path].db.line = 1 /\ dir.legacy.settings # NoFile => dir.home.settings # NoFile

\* db.ts, initSchema: whatever version it starts from and however often it is
\* interrupted, the database ends with every part of the schema, and with the
\* source once in the identity of an instrument.
SchemaExact ==
    phase = "up" =>
        LET db == dir[path].db
        IN db.version = SchemaVersion /\ db.parts = Parts /\ db.prefixes = 1

\* db.ts, "preserved on disk for manual recovery, never deleted": of every
\* database that there was, the main file and the log that has commits of it
\* are in place or set aside, unless a quarantine was cut short.
NothingLost ==
    ~cutShort =>
        LET set == {g.file : g \in {f \in aside : f.name = "db"}}
            logs == {g.file : g \in {f \in aside : f.name = "wal"}}
        IN /\ \A line \in made : \E f \in set \cup {dir[p].db : p \in DOMAIN dir} :
                 f # NoFile /\ f.line = line
           /\ \A f \in set : f.walled => f.line \in logs \cup {dir[p].wal : p \in DOMAIN dir}

\* A start that is left alone comes to an open database.
ComesUp == []<>(phase = "up")
=============================================================================
