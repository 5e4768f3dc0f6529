------------------------- MODULE DataStartup_proofs -------------------------
(***************************************************************************)
(* A start ends in the whole schema, and opens a database with all of its  *)
(* commits and none lost, from whichever files and version it starts,      *)
(* however often it is interrupted and whatever is copied, set aside or    *)
(* damaged in between.                                                     *)
(***************************************************************************)
EXTENDS DataStartup, FiniteSetTheorems, SequenceTheorems, TLAPS

Places == {"legacy", "home", "custom"}

Directories == [db : Databases \cup {NoFile}, wal : Nat \cup {NoFile},
                settings : {NoFile, "default", "custom"}]

\* What initSchema relies on in a file: the parts of its version are in it, and
\* the identities have their source exactly when the columns that step 4 looks
\* for are there, which is how it knows that it has run.
Consistent(db) ==
    /\ db.version # 0 => PartsOf(db.version) \subseteq db.parts
    /\ db.prefixes = IF db.version \in 1..SchemaVersion - 1 /\ "instrumentSource" \notin db.parts
                     THEN 0 ELSE 1

Good == {db \in Databases : Consistent(db)}

\* The steps that are still to be done are those after version k, and the parts
\* of version k are there, although the file still says that it is older.
Between(db) ==
    /\ db.version \in 1..SchemaVersion - 1
    /\ \E k \in db.version..SchemaVersion : todo = StepsAfter(k) /\ PartsOf(k) \subseteq db.parts

SchemaInv ==
    /\ dir \in [Places -> Directories]
    /\ \A p \in Places : dir[p].db \in Good \cup {NoFile}
    /\ IsFiniteSet(made)
    /\ path \in {"home", "custom"}
    /\ phase \in {"bootstrap", "migrate", "up"} => dir[path].db \in Good
    /\ phase = "bootstrap" => dir[path].db.version = 0
    /\ phase = "migrate" => Between(dir[path].db)
    /\ phase = "up" => dir[path].db.version = SchemaVersion

-----------------------------------------------------------------------------
\* The steps after a version are the next one and the steps after that.
LEMMA NextStep ==
    ASSUME NEW k \in 1..SchemaVersion
    PROVE  /\ StepsAfter(k) \in Seq(Nat)
           /\ StepsAfter(k) # <<>> => /\ k < SchemaVersion
                                      /\ Head(StepsAfter(k)) = k + 1
                                      /\ Tail(StepsAfter(k)) = StepsAfter(k + 1)
           /\ StepsAfter(k) = <<>> => k = SchemaVersion
<1> DEFINE s == StepsAfter(k)
<1>1. k \in 1..5 /\ SchemaVersion = 5
  BY DEF SchemaVersion
<1>2. s \in Seq(Nat) /\ Len(s) = 5 - k /\ \A i \in 1..5 - k : s[i] = k + i
  BY <1>1 DEF StepsAfter
<1>3. s = <<>> => k = 5
  BY <1>1, <1>2
<1>4. ASSUME s # <<>>
      PROVE  k < 5 /\ Head(s) = k + 1 /\ Tail(s) = StepsAfter(k + 1)
  <2>1. k < 5 /\ Head(s) = k + 1
    BY <1>1, <1>2, <1>4
  <2>2. /\ Tail(s) \in Seq(Nat) /\ Len(Tail(s)) = 4 - k
        /\ \A i \in 1..4 - k : Tail(s)[i] = (k + 1) + i
    <3> HIDE DEF s
    <3> QED BY <1>1, <1>2, <1>4, <2>1, HeadTailProperties
  <2>3. /\ StepsAfter(k + 1) \in Seq(Nat) /\ Len(StepsAfter(k + 1)) = 4 - k
        /\ \A i \in 1..4 - k : StepsAfter(k + 1)[i] = (k + 1) + i
    BY <1>1, <2>1 DEF StepsAfter
  <2>4. Tail(s) = StepsAfter(k + 1)
    <3> HIDE DEF s
    <3> QED BY <2>2, <2>3, SeqEqual
  <2> QED BY <2>1, <2>4
<1> QED BY <1>1, <1>2, <1>3, <1>4

\* A step of the migration brings the parts of its version, and the source into
\* the identities once.
LEMMA StepApplies ==
    ASSUME NEW db \in Good, NEW k \in 1..SchemaVersion - 1, PartsOf(k) \subseteq db.parts,
           db.version \in 1..SchemaVersion - 1, db.version <= k
    PROVE  /\ Applied(db, k + 1) \in Good
           /\ Applied(db, k + 1).version = db.version
           /\ PartsOf(k + 1) \subseteq Applied(db, k + 1).parts
<1>1. k \in {1, 2, 3, 4} /\ db.version \in {1, 2, 3, 4} /\ SchemaVersion = 5
  BY DEF SchemaVersion
<1>2. db \in Databases /\ Consistent(db)
  BY DEF Good
<1>3. /\ PartsOf(1) = {} /\ PartsOf(2) = {"compositeKey"}
      /\ PartsOf(3) = {"compositeKey", "services"}
      /\ PartsOf(4) = Parts \ {"timeIndex"} /\ PartsOf(5) = Parts
  BY DEF PartsOf
<1> DEFINE next == Applied(db, k + 1)
<1>4. CASE k = 1
  <2>1. next = [db EXCEPT !.parts = (@ \ {"spanSource"}) \cup {"compositeKey"}]
    BY <1>4 DEF Applied
  <2> QED BY <1>1, <1>2, <1>3, <1>4, <2>1 DEF Good, Databases, Consistent, Parts
<1>5. CASE k = 2
  <2>1. next = [db EXCEPT !.parts = @ \cup {"services"}]
    BY <1>5 DEF Applied
  <2> QED BY <1>1, <1>2, <1>3, <1>5, <2>1 DEF Good, Databases, Consistent, Parts
<1>6. CASE k = 3
  <2>1. next = [db EXCEPT !.parts = @ \cup {"spanSource", "instrumentSource"},
                          !.prefixes = IF "instrumentSource" \in db.parts THEN @ ELSE @ + 1]
    BY <1>6 DEF Applied
  <2>2. db.prefixes = IF "instrumentSource" \in db.parts THEN 1 ELSE 0
    BY <1>1, <1>2 DEF Consistent
  <2>3. next = [db EXCEPT !.parts = @ \cup {"spanSource", "instrumentSource"}, !.prefixes = 1]
    BY <1>2, <2>1, <2>2 DEF Databases
  <2>4. next \in Databases /\ next.version = db.version /\ next.prefixes = 1
        /\ next.parts = db.parts \cup {"spanSource", "instrumentSource"}
    BY <1>2, <1>3, <2>3 DEF Databases, Parts
  <2>5. Consistent(next)
    BY <1>1, <1>2, <1>6, <2>4 DEF Consistent
  <2> QED BY <1>3, <1>6, <2>4, <2>5 DEF Good, Parts
<1>7. CASE k = 4
  <2>1. next = [db EXCEPT !.parts = @ \cup {"timeIndex"}]
    BY <1>7 DEF Applied
  <2> QED BY <1>1, <1>2, <1>3, <1>7, <2>1 DEF Good, Databases, Consistent, Parts
<1> QED BY <1>1, <1>4, <1>5, <1>6, <1>7

\* The files of a start are those of a runtime of some version.
LEMMA SchemaInit == Init => SchemaInv
<1> SUFFICES ASSUME Init PROVE SchemaInv
  OBVIOUS
<1>1. NoFiles \in Directories
  BY DEF NoFiles, Directories
<1>2. ASSUME NEW line \in {1, 2, 3}, NEW v \in 1..6, NEW walled \in BOOLEAN
      PROVE  Database(line, v, walled) \in Good
  <2>1. PartsOf(v) \subseteq Parts
    BY DEF PartsOf, Parts
  <2>2. v \in {4} \/ v \in {5, 6} => "instrumentSource" \in PartsOf(v)
    BY DEF PartsOf, Parts
  <2>3. v \in {1, 2, 3} => "instrumentSource" \notin PartsOf(v)
    BY DEF PartsOf
  <2> DEFINE db == Database(line, v, walled)
  <2>4. db \in Databases /\ db.version = v /\ db.parts = PartsOf(v)
        /\ db.prefixes = IF v < 4 THEN 0 ELSE 1
    BY <2>1 DEF Database, Databases
  <2>5. Consistent(db)
    <3> HIDE DEF db
    <3> QED BY <2>2, <2>3, <2>4 DEF Consistent, SchemaVersion
  <2> QED BY <2>4, <2>5 DEF Good
<1>3. ASSUME NEW line \in {1, 2, 3} PROVE EmptyFile(line) \in Good
  BY DEF EmptyFile, Good, Databases, Consistent
<1>4. ASSUME NEW line \in {1, 2, 3}, NEW d \in Found(line)
      PROVE  d \in Directories /\ d.db \in Good \cup {NoFile}
  <2>1. CASE d = NoFiles
    BY <1>1, <2>1 DEF NoFiles
  <2>2. CASE d # NoFiles
    <3>1. PICK v \in OldVersions, walled \in BOOLEAN, s \in {NoFile, "default", "custom"} :
            d = [db |-> Database(line, v, walled), wal |-> IF walled THEN line ELSE NoFile,
                 settings |-> s]
      BY <2>2 DEF Found
    <3>2. Database(line, v, walled) \in Good
      BY <1>2, StartupAssumption
    <3> QED BY <3>1, <3>2 DEF Directories, Good
  <2> QED BY <2>1, <2>2
<1>5. PICK old \in Found(1), here \in Found(2) \cup {[NoFiles EXCEPT !.db = EmptyFile(2)]},
           there \in {NoFile, Database(3, SchemaVersion, FALSE)} :
           dir = [legacy |-> old, home |-> here, custom |-> [NoFiles EXCEPT !.db = there]]
  BY DEF Init
<1>6. old \in Directories /\ old.db \in Good \cup {NoFile}
  BY <1>4
<1>7. here \in Directories /\ here.db \in Good \cup {NoFile}
  <2>1. CASE here \in Found(2)
    BY <1>4, <2>1
  <2>2. CASE here = [NoFiles EXCEPT !.db = EmptyFile(2)]
    BY <1>3, <2>2 DEF NoFiles, Directories, Good
  <2> QED BY <2>1, <2>2
<1>8. [NoFiles EXCEPT !.db = there] \in Directories /\ there \in Good \cup {NoFile}
      /\ [NoFiles EXCEPT !.db = there].db = there
  <2>1. there \in Good \cup {NoFile}
    <3>1. 3 \in {1, 2, 3} /\ SchemaVersion \in 1..6 /\ FALSE \in BOOLEAN
      BY DEF SchemaVersion
    <3>2. Database(3, SchemaVersion, FALSE) \in Good
      BY <1>2, <3>1, Zenon
    <3> QED BY <1>5, <3>2
  <2> QED BY <2>1 DEF NoFiles, Directories, Good
<1>9. dir \in [Places -> Directories] /\ \A p \in Places : dir[p].db \in Good \cup {NoFile}
  <2> DEFINE custom == [NoFiles EXCEPT !.db = there]
  <2>1. custom \in Directories /\ custom.db \in Good \cup {NoFile}
    BY <1>8
  <2> HIDE DEF custom
  <2>2. dir = [legacy |-> old, home |-> here, custom |-> custom]
    BY <1>5 DEF custom
  <2>3. dir \in [Places -> Directories]
    BY <1>6, <1>7, <2>1, <2>2 DEF Places
  <2>4. dir["legacy"] = old /\ dir["home"] = here /\ dir["custom"] = custom
    BY <2>2
  <2> QED BY <1>6, <1>7, <2>1, <2>3, <2>4 DEF Places
<1>10. IsFiniteSet(made)
  <2> DEFINE lines == {dir["legacy"].db.line, dir["home"].db.line, dir["custom"].db.line}
  <2>1. IsFiniteSet(({dir["legacy"].db.line} \cup {dir["home"].db.line}) \cup {dir["custom"].db.line})
    <3>1. IsFiniteSet({dir["legacy"].db.line})
      BY FS_Singleton
    <3>2. IsFiniteSet({dir["legacy"].db.line} \cup {dir["home"].db.line})
      BY <3>1, FS_AddElement
    <3> QED BY <3>2, FS_AddElement
  <2>2. IsFiniteSet(lines)
    <3>1. lines = ({dir["legacy"].db.line} \cup {dir["home"].db.line}) \cup {dir["custom"].db.line}
      OBVIOUS
    <3> QED BY <2>1, <3>1
  <2>3. DOMAIN dir = {"legacy", "home", "custom"}
    BY <1>9 DEF Places
  <2>4. made \subseteq lines
    BY <2>3 DEF Init
  <2> QED BY <2>2, <2>4, FS_Subset
<1> QED BY <1>9, <1>10 DEF Init, SchemaInv

\* A step that leaves the databases as they are, and is not at work on one.
LEMMA Elsewhere ==
    ASSUME SchemaInv, UNCHANGED made,
           dir' \in [Places -> Directories],
           \A p \in Places : dir'[p].db \in Good \cup {NoFile},
           path' \in {"home", "custom"},
           phase' \notin {"bootstrap", "migrate", "up"}
    PROVE  SchemaInv'
BY DEF SchemaInv

\* The log that SQLite replays changes neither the schema nor the version, and
\* an empty file is a new one.
LEMMA ReplayKeepsSchema ==
    ASSUME NEW d \in Directories, d.db \in Good \cup {NoFile}, NEW line \in Nat
    PROVE  /\ Replayed(d, line) \in Directories
           /\ Replayed(d, line).db \in Good
<1>1. EmptyFile(line) \in Good
  BY DEF EmptyFile, Good, Databases, Consistent
<1>2. CASE d.db = NoFile
  <2>1. Replayed(d, line) = [d EXCEPT !.wal = NoFile, !.db = EmptyFile(line)]
    BY <1>2 DEF Replayed, Populated, Directories
  <2> QED BY <1>1, <2>1 DEF Directories, Good
<1>3. CASE d.db # NoFile /\ ~Populated(d.db)
  <2>1. Replayed(d, line) = [d EXCEPT !.wal = NoFile, !.db = d.db]
    BY <1>3 DEF Replayed, Directories
  <2> QED BY <1>3, <2>1 DEF Directories, Good
<1>4. CASE d.db # NoFile /\ Populated(d.db) /\ d.wal = NoFile
  <2> DEFINE db == [d.db EXCEPT !.state = IF d.db.walled THEN "torn" ELSE @]
  <2>1. Replayed(d, line) = [d EXCEPT !.db = db]
    BY <1>4 DEF Replayed, Directories
  <2>2. db \in Good
    BY <1>4 DEF Good, Databases, Consistent
  <2> QED BY <2>1, <2>2 DEF Directories, Good
<1>5. CASE d.db # NoFile /\ Populated(d.db) /\ d.wal # NoFile
  <2> DEFINE db == [d.db EXCEPT !.state = IF d.wal # d.db.line THEN "torn" ELSE @, !.walled = TRUE]
  <2>1. Replayed(d, line) = [d EXCEPT !.wal = d.db.line, !.db = db]
    BY <1>5 DEF Replayed, Directories, Good, Databases
  <2>2. db \in Good
    BY <1>5 DEF Good, Databases, Consistent
  <2>3. d.db.line \in Nat
    BY <1>5 DEF Good, Databases
  <2> QED BY <2>1, <2>2, <2>3 DEF Directories, Good
<1> QED BY <1>2, <1>3, <1>4, <1>5

\* Opening a file leads to the phase that its version asks for.
LEMMA OpenPreserves == SchemaInv /\ OpenDatabase => SchemaInv'
<1> SUFFICES ASSUME SchemaInv, OpenDatabase PROVE SchemaInv'
  OBVIOUS
<1> DEFINE files == Replayed(dir[path], NewLine)
<1>1. dir \in [Places -> Directories] /\ path \in Places /\ dir[path].db \in Good \cup {NoFile}
  BY DEF SchemaInv, Places
<1>2. NewLine \in Nat
  BY FS_CardinalityType DEF SchemaInv, NewLine
<1>3. files \in Directories /\ files.db \in Good
  BY <1>1, <1>2, ReplayKeepsSchema
<1>4. files.db.version \in 0..SchemaVersion
  <2>1. files.db.version \in 0..6 /\ SchemaVersion = 5
    BY <1>3 DEF Good, Databases, SchemaVersion
  <2>2. files.db.version = dir[path].db.version \/ files.db.version = 0
    BY <1>1 DEF Replayed, EmptyFile, Populated, Directories, Good, Databases
  <2>3. files.db.version = 6 => dir[path].db # NoFile
    BY <1>1 DEF Replayed, EmptyFile, Populated, Directories
  <2> QED BY <2>1, <2>2, <2>3 DEF OpenDatabase, Unusable
<1> HIDE DEF files
<1>5. dir' = [dir EXCEPT ![path] = files] /\ todo' = StepsAfter(files.db.version)
      /\ UNCHANGED <<path, made>>
      /\ phase' = CASE files.db.version = 0 -> "bootstrap"
                    [] Old(files.db) -> "migrate" [] OTHER -> "up"
  BY DEF OpenDatabase, Go, files
<1>6. /\ dir' \in [Places -> Directories] /\ dir'[path'].db = files.db
      /\ \A p \in Places : dir'[p].db \in Good \cup {NoFile}
  BY <1>1, <1>3, <1>5 DEF SchemaInv
<1>7. CASE files.db.version = 0
  <2>1. phase' = "bootstrap"
    BY <1>5, <1>7 DEF Old, SchemaVersion
  <2> QED BY <1>3, <1>5, <1>6, <1>7, <2>1 DEF SchemaInv
<1>8. CASE Old(files.db)
  <2>1. files.db.version \in 1..SchemaVersion - 1 /\ SchemaVersion = 5
    BY <1>8 DEF Old, SchemaVersion
  <2>2. phase' = "migrate"
    BY <1>5, <1>8, <2>1
  <2>3. PartsOf(files.db.version) \subseteq files.db.parts
    BY <1>3, <2>1 DEF Good, Consistent
  <2>4. Between(dir[path].db)'
    BY <1>5, <1>6, <2>1, <2>3 DEF Between
  <2> QED BY <1>3, <1>5, <1>6, <2>2, <2>4 DEF SchemaInv
<1>9. CASE files.db.version # 0 /\ ~Old(files.db)
  <2>1. files.db.version = SchemaVersion /\ phase' = "up"
    BY <1>4, <1>5, <1>9 DEF Old, SchemaVersion
  <2> QED BY <1>3, <1>5, <1>6, <2>1 DEF SchemaInv
<1> QED BY <1>7, <1>8, <1>9

\* A step of the migration, and the version that is written after the last.
LEMMA MigratePreserves == SchemaInv /\ Migrate => SchemaInv'
<1> SUFFICES ASSUME SchemaInv, Migrate PROVE SchemaInv'
  OBVIOUS
<1> DEFINE db == dir[path].db
<1>1. dir \in [Places -> Directories] /\ path \in Places /\ path' = path
      /\ path \in {"home", "custom"}
  BY DEF SchemaInv, Migrate, Places
<1>2. db \in Good /\ Between(db) /\ UNCHANGED made /\ IsFiniteSet(made)
  BY DEF SchemaInv, Migrate
<1>3. PICK k \in db.version..SchemaVersion : todo = StepsAfter(k) /\ PartsOf(k) \subseteq db.parts
  BY <1>2 DEF Between
<1>4. db.version \in 1..SchemaVersion - 1 /\ SchemaVersion = 5 /\ k \in 1..SchemaVersion
  BY <1>2 DEF Between, SchemaVersion
<1> HIDE DEF db
<1>5. ASSUME NEW new \in Good, dir' = [dir EXCEPT ![path].db = new]
      PROVE  /\ dir' \in [Places -> Directories] /\ dir'[path'].db = new
             /\ \A p \in Places : dir'[p].db \in Good \cup {NoFile}
  <2>1. dir[path] \in Directories
    BY <1>1
  <2>2. [dir[path] EXCEPT !.db = new] \in Directories /\ [dir[path] EXCEPT !.db = new].db = new
    BY <1>5, <2>1 DEF Directories, Good
  <2> QED BY <1>1, <1>5, <2>2 DEF SchemaInv
<1>6. CASE todo # <<>>
  <2> DEFINE new == Applied(db, k + 1)
  <2>1. /\ k < SchemaVersion /\ Head(todo) = k + 1 /\ Tail(todo) = StepsAfter(k + 1)
    BY <1>3, <1>4, <1>6, NextStep
  <2>2. k \in 1..SchemaVersion - 1 /\ db.version <= k
    BY <1>3, <1>4, <2>1
  <2>3. new \in Good /\ new.version = db.version /\ PartsOf(k + 1) \subseteq new.parts
    BY <1>2, <1>3, <1>4, <2>2, StepApplies
  <2> HIDE DEF new
  <2>4. dir' = [dir EXCEPT ![path].db = new] /\ todo' = StepsAfter(k + 1) /\ phase' = "migrate"
    BY <1>6, <2>1 DEF Migrate, SetDb, new, db
  <2>5. Between(dir[path].db)'
    <3>1. k + 1 \in new.version..SchemaVersion
      BY <1>4, <2>2, <2>3
    <3>2. new.version \in 1..SchemaVersion - 1
      BY <1>4, <2>3
    <3>3. (dir[path].db)' = new
      BY <1>5, <2>3, <2>4
    <3> QED BY <2>3, <2>4, <3>1, <3>2, <3>3 DEF Between
  <2> QED BY <1>1, <1>2, <1>5, <2>3, <2>4, <2>5 DEF SchemaInv
<1>7. CASE todo = <<>>
  <2> DEFINE new == [db EXCEPT !.version = SchemaVersion]
  <2>1. k = SchemaVersion
    BY <1>3, <1>4, <1>7, NextStep
  <2>2. Parts \subseteq db.parts
    BY <1>3, <1>4, <2>1 DEF PartsOf
  <2>3. db \in Databases /\ db.parts = Parts /\ db.prefixes = 1
    BY <1>2, <2>2 DEF Good, Databases, Consistent, Parts
  <2>4. new \in Databases /\ new.version = 5 /\ new.parts = Parts /\ new.prefixes = 1
    BY <1>4, <2>3 DEF Databases
  <2>5. new \in Good
    <3> HIDE DEF new
    <3>1. PartsOf(5) = Parts
      BY DEF PartsOf
    <3> QED BY <1>4, <2>4, <3>1 DEF Good, Consistent
  <2>6. dir' = [dir EXCEPT ![path].db = new] /\ phase' = "up"
    BY <1>7 DEF Migrate, SetDb, Go, db
  <2>7. new.version = SchemaVersion
    BY <1>4, <2>4
  <2> HIDE DEF new
  <2> QED BY <1>1, <1>2, <1>5, <2>5, <2>6, <2>7 DEF SchemaInv
<1> QED BY <1>6, <1>7

\* The tables of a new file, and its version.
LEMMA BootstrapPreserves == SchemaInv /\ Bootstrap => SchemaInv'
<1> SUFFICES ASSUME SchemaInv, Bootstrap PROVE SchemaInv'
  OBVIOUS
<1> DEFINE db == dir[path].db
<1>1. dir \in [Places -> Directories] /\ path \in Places /\ path' = path
      /\ path \in {"home", "custom"}
  BY DEF SchemaInv, Bootstrap, Places
<1>2. db \in Good /\ db.version = 0
  BY DEF SchemaInv, Bootstrap
<1>3. IsFiniteSet(made')
  <2>1. made' = made \cup {db.line}
    BY DEF Bootstrap
  <2> QED BY <2>1, FS_AddElement DEF SchemaInv
<1> HIDE DEF db
<1>4. ASSUME NEW new \in Good, dir' = [dir EXCEPT ![path].db = new]
      PROVE  /\ dir' \in [Places -> Directories] /\ dir'[path'].db = new
             /\ \A p \in Places : dir'[p].db \in Good \cup {NoFile}
  <2>1. dir[path] \in Directories
    BY <1>1
  <2>2. [dir[path] EXCEPT !.db = new] \in Directories /\ [dir[path] EXCEPT !.db = new].db = new
    BY <1>4, <2>1 DEF Directories, Good
  <2> QED BY <1>1, <1>4, <2>2 DEF SchemaInv
<1>5. CASE db.parts # Parts
  <2> DEFINE new == [db EXCEPT !.parts = Parts, !.populated = TRUE]
  <2>1. new \in Databases /\ new.version = 0 /\ new.prefixes = db.prefixes
    BY <1>2 DEF Good, Databases
  <2>2. db.prefixes = 1
    BY <1>2 DEF Good, Consistent
  <2>3. new \in Good
    <3> HIDE DEF new
    <3> QED BY <2>1, <2>2 DEF Good, Consistent
  <2>4. dir' = [dir EXCEPT ![path].db = new] /\ phase' = "bootstrap"
    BY <1>5 DEF Bootstrap, SetDb, db
  <2> HIDE DEF new
  <2> QED BY <1>1, <1>3, <1>4, <2>1, <2>3, <2>4 DEF SchemaInv
<1>6. CASE db.parts = Parts
  <2> DEFINE new == [db EXCEPT !.version = SchemaVersion]
  <2>1. SchemaVersion = 5 /\ PartsOf(5) = Parts
    BY DEF SchemaVersion, PartsOf
  <2>2. new \in Databases /\ new.version = 5 /\ new.parts = Parts /\ new.prefixes = 1
    BY <1>2, <1>6, <2>1 DEF Good, Databases, Consistent
  <2>3. dir' = [dir EXCEPT ![path].db = new] /\ phase' = "up"
    BY <1>6 DEF Bootstrap, SetDb, Go, db
  <2> HIDE DEF new
  <2>4. new \in Good
    BY <2>1, <2>2 DEF Good, Consistent
  <2> QED BY <1>1, <1>3, <1>4, <2>1, <2>2, <2>3, <2>4 DEF SchemaInv
<1> QED BY <1>5, <1>6

\* The rows and the log of a database change nothing of its schema.
LEMMA UpPreserves == SchemaInv /\ (Store \/ Close) => SchemaInv'
<1> SUFFICES ASSUME SchemaInv, Store \/ Close PROVE SchemaInv'
  OBVIOUS
<1> DEFINE walled == IF Store THEN TRUE ELSE FALSE
           wal == IF Store THEN dir[path].db.line ELSE NoFile
           new == [dir[path].db EXCEPT !.walled = walled]
           files == [dir[path] EXCEPT !.wal = wal, !.db = new]
<1>1. dir \in [Places -> Directories] /\ path \in Places /\ path' = path
      /\ path \in {"home", "custom"} /\ phase = "up" /\ UNCHANGED made
      /\ phase' \in {"up", "down"}
  BY DEF SchemaInv, Store, Close, Go, Places
<1>2. dir[path].db \in Good /\ dir[path].db.version = SchemaVersion
  BY <1>1 DEF SchemaInv
<1>3. walled \in BOOLEAN /\ wal \in Nat \cup {NoFile}
  BY <1>2 DEF Good, Databases
<1>4. dir' = [dir EXCEPT ![path] = files]
  <2>1. CASE Store
    <3>1. walled = TRUE /\ wal = dir[path].db.line
      BY <2>1
    <3> HIDE DEF walled, wal
    <3> QED BY <1>1, <1>2, <2>1, <3>1 DEF Store, Directories, Good
  <2>2. CASE ~Store
    <3>1. walled = FALSE /\ wal = NoFile
      BY <2>2
    <3> HIDE DEF walled, wal
    <3>2. dir' = [dir EXCEPT ![path].wal = NoFile, ![path].db.walled = FALSE]
      BY <2>2 DEF Close
    <3> QED BY <1>1, <1>2, <3>1, <3>2 DEF Directories, Good
  <2> QED BY <2>1, <2>2
<1> HIDE DEF walled, wal
<1>5. new \in Good /\ new.version = SchemaVersion
  BY <1>2, <1>3 DEF Good, Databases, Consistent
<1> HIDE DEF new
<1>6. files \in Directories /\ files.db = new
  <2>1. dir[path] \in Directories
    BY <1>1
  <2> QED BY <1>3, <1>5, <2>1 DEF Directories, Good
<1> HIDE DEF files
<1>7. /\ dir' \in [Places -> Directories] /\ dir'[path'].db = new
      /\ \A p \in Places : dir'[p].db \in Good \cup {NoFile}
  BY <1>1, <1>4, <1>5, <1>6 DEF SchemaInv
<1> QED BY <1>1, <1>5, <1>7 DEF SchemaInv

\* The copy of an old directory, a rename to set a file aside and a file that
\* goes bad move databases about without a change to their schema.
LEMMA CopyPreserves == SchemaInv /\ (Scan \/ CopyFile \/ Quarantine \/ Damage) => SchemaInv'
<1> SUFFICES ASSUME SchemaInv, Scan \/ CopyFile \/ Quarantine \/ Damage PROVE SchemaInv'
  OBVIOUS
<1>1. dir \in [Places -> Directories] /\ path \in {"home", "custom"}
      /\ (\A p \in Places : dir[p].db \in Good \cup {NoFile})
      /\ "home" \in Places /\ "legacy" \in Places /\ path \in Places
  BY DEF SchemaInv, Places
<1>2. dir["home"] \in Directories /\ dir["legacy"] \in Directories /\ dir[path] \in Directories
      /\ dir["home"].db \in Good \cup {NoFile}
  BY <1>1
<1>3. ASSUME NEW p \in Places, NEW files \in Directories, files.db \in Good \cup {NoFile},
             dir' = [dir EXCEPT ![p] = files]
      PROVE  dir' \in [Places -> Directories] /\ \A q \in Places : dir'[q].db \in Good \cup {NoFile}
  BY <1>1, <1>3
<1>4. CASE Scan
  <2>1. PICK kept \in {dir["home"], [dir["home"] EXCEPT !.db = NoFile]} :
          UNCHANGED dir \/ dir' = [dir EXCEPT !["home"] = kept]
    BY <1>1, <1>4 DEF Scan
  <2>2. kept \in Directories /\ kept.db \in Good \cup {NoFile}
    BY <1>2, <2>1 DEF Directories
  <2>3. dir' \in [Places -> Directories] /\ \A q \in Places : dir'[q].db \in Good \cup {NoFile}
    BY <1>1, <1>3, <2>1, <2>2
  <2>4. phase' \notin {"bootstrap", "migrate", "up"} /\ UNCHANGED <<made, path>>
    BY <1>4 DEF Scan, Go
  <2> QED BY <1>1, <2>3, <2>4, Elsewhere
<1>5. CASE CopyFile
  <2> DEFINE f == Head(todo)
             files == [dir["home"] EXCEPT ![f] = dir["legacy"][f]]
  <2>1. UNCHANGED dir \/ dir' = [dir EXCEPT !["home"] = files]
    BY <1>1, <1>5 DEF CopyFile
  <2> HIDE DEF f
  <2>2. files \in Directories /\ files.db \in Good \cup {NoFile}
    <3>1. CASE f = "db"
      BY <1>1, <1>2, <3>1 DEF Directories
    <3>2. CASE f = "wal"
      BY <1>1, <1>2, <3>2 DEF Directories
    <3>3. CASE f = "settings"
      BY <1>1, <1>2, <3>3 DEF Directories
    <3>4. CASE f \notin {"db", "wal", "settings"}
      BY <1>1, <1>2, <3>4 DEF Directories
    <3> QED BY <3>1, <3>2, <3>3, <3>4
  <2> HIDE DEF files
  <2>3. dir' \in [Places -> Directories] /\ \A q \in Places : dir'[q].db \in Good \cup {NoFile}
    BY <1>1, <1>3, <2>1, <2>2
  <2>4. phase' \notin {"bootstrap", "migrate", "up"} /\ UNCHANGED <<made, path>>
    BY <1>5 DEF CopyFile
  <2> QED BY <1>1, <2>3, <2>4, Elsewhere
<1>6. CASE Quarantine
  <2>1. PICK f \in {"db", "wal"} : UNCHANGED dir \/ dir' = [dir EXCEPT ![path][f] = NoFile]
    BY <1>6 DEF Quarantine
  <2> DEFINE files == [dir[path] EXCEPT ![f] = NoFile]
  <2>2. files \in Directories /\ files.db \in Good \cup {NoFile}
    <3>1. CASE f = "db"
      BY <1>1, <1>2, <3>1 DEF Directories
    <3>2. CASE f = "wal"
      BY <1>1, <1>2, <3>2 DEF Directories
    <3> QED BY <2>1, <3>1, <3>2
  <2>3. UNCHANGED dir \/ dir' = [dir EXCEPT ![path] = files]
    BY <1>1, <2>1
  <2> HIDE DEF files
  <2>4. dir' \in [Places -> Directories] /\ \A q \in Places : dir'[q].db \in Good \cup {NoFile}
    BY <1>1, <1>3, <2>2, <2>3
  <2>5. phase' \notin {"bootstrap", "migrate", "up"} /\ UNCHANGED <<made, path>>
    BY <1>6 DEF Quarantine, Go
  <2> QED BY <1>1, <2>4, <2>5, Elsewhere
<1>7. CASE Damage
  <2> DEFINE new == [dir["home"].db EXCEPT !.state = "damaged"]
             files == [dir["home"] EXCEPT !.db = new]
  <2>1. dir["home"].db \in Good
    BY <1>2, <1>7 DEF Damage, Populated
  <2>2. new \in Good
    BY <2>1 DEF Good, Databases, Consistent
  <2>3. dir' = [dir EXCEPT !["home"] = files]
    BY <1>1, <1>2, <1>7, <2>1 DEF Damage, Directories, Good
  <2> HIDE DEF new
  <2>4. files \in Directories /\ files.db \in Good \cup {NoFile}
    BY <1>2, <2>2 DEF Directories, Good
  <2> HIDE DEF files
  <2>5. dir' \in [Places -> Directories] /\ \A q \in Places : dir'[q].db \in Good \cup {NoFile}
    BY <1>1, <1>3, <2>3, <2>4
  <2>6. phase' \notin {"bootstrap", "migrate", "up"} /\ UNCHANGED <<made, path>>
    BY <1>7 DEF Damage
  <2> QED BY <1>1, <2>5, <2>6, Elsewhere
<1> QED BY <1>4, <1>5, <1>6, <1>7

\* Every step keeps the invariant.
LEMMA SchemaStep == SchemaInv /\ [Next]_vars => SchemaInv'
<1> SUFFICES ASSUME SchemaInv, [Next]_vars PROVE SchemaInv'
  OBVIOUS
<1>1. ASSUME UNCHANGED <<dir, made>>, path' \in {"home", "custom"},
             phase' \notin {"bootstrap", "migrate", "up"}
      PROVE  SchemaInv'
  BY <1>1, Elsewhere DEF SchemaInv
<1>2. CASE Start \/ ReadMarker \/ WriteMarker \/ RemoveMarker \/ ChoosePath
  <2>1. path' \in {"home", "custom"} /\ UNCHANGED <<dir, made>>
        /\ phase' \notin {"bootstrap", "migrate", "up"}
    BY <1>2 DEF SchemaInv, Start, ReadMarker, WriteMarker, RemoveMarker, ChoosePath, Go
  <2> QED BY <1>1, <2>1
<1>3. CASE Scan \/ CopyFile \/ Quarantine \/ Damage
  BY <1>3, CopyPreserves
<1>4. CASE OpenDatabase
  BY <1>4, OpenPreserves
<1>5. CASE OpenFails \/ MigrationFails \/ Crash
  <2>1. path' \in {"home", "custom"} /\ UNCHANGED <<dir, made>>
        /\ phase' \notin {"bootstrap", "migrate", "up"}
    BY <1>5 DEF SchemaInv, OpenFails, MigrationFails, Crash, GiveUp, Go
  <2> QED BY <1>1, <2>1
<1>6. CASE Bootstrap
  BY <1>6, BootstrapPreserves
<1>7. CASE Migrate
  BY <1>7, MigratePreserves
<1>8. CASE Store \/ Close
  BY <1>8, UpPreserves
<1>9. CASE UNCHANGED vars
  BY <1>9 DEF SchemaInv, Between, vars
<1> QED BY <1>2, <1>3, <1>4, <1>5, <1>6, <1>7, <1>8, <1>9 DEF Next, Begin, Settle

-----------------------------------------------------------------------------
\* The inductive invariant of the start.
THEOREM SchemaInvariant == Spec => []SchemaInv
<1>1. Init => SchemaInv
  BY SchemaInit
<1>2. SchemaInv /\ [Next]_vars => SchemaInv'
  BY SchemaStep
<1> QED BY <1>1, <1>2, PTL DEF Spec

\* db.ts, initSchema: the database that a runtime opens has every part of the
\* schema, and the source once in the identity of an instrument, whichever
\* versions its directories hold and however often a crash, an error or a
\* failed step cuts the migration short.
THEOREM SchemaExactCorrect == Spec => []SchemaExact
<1>1. SchemaInv => SchemaExact
  <2> SUFFICES ASSUME SchemaInv, phase = "up"
               PROVE  /\ dir[path].db.version = SchemaVersion /\ dir[path].db.parts = Parts
                      /\ dir[path].db.prefixes = 1
    BY DEF SchemaExact
  <2> DEFINE db == dir[path].db
  <2>1. db \in Databases /\ Consistent(db) /\ db.version = SchemaVersion
    BY DEF SchemaInv, Good
  <2>2. SchemaVersion = 5 /\ PartsOf(5) = Parts
    BY DEF SchemaVersion, PartsOf
  <2> HIDE DEF db
  <2>3. db.parts = Parts
    <3>1. db.parts \subseteq Parts
      BY <2>1 DEF Databases
    <3>2. PartsOf(db.version) \subseteq db.parts
      BY <2>1, <2>2 DEF Consistent
    <3>3. Parts \subseteq db.parts
      BY <2>1, <2>2, <3>2
    <3> QED BY <3>1, <3>3
  <2>4. db.prefixes = 1
    BY <2>1, <2>2 DEF Consistent
  <2> QED BY <2>1, <2>3, <2>4 DEF db
<1> QED BY <1>1, SchemaInvariant, PTL

-----------------------------------------------------------------------------
(* What is copied, set aside and opened.                                    *)

Files(list) == {list[i] : i \in DOMAIN list}

\* The lists of a marker, in the order in which they are copied.
Lists == {<<"settings">>, <<"db">>, <<"wal", "db">>, <<"db", "settings">>, <<"wal", "db", "settings">>}

\* The old directory, which nothing changes.
OldInv ==
    LET old == dir["legacy"]
    IN IF old.db = NoFile THEN old = NoFiles
       ELSE /\ old.db.populated /\ old.db.line = 1 /\ old.db.state = "sound"
            /\ old.wal = IF old.db.walled THEN 1 ELSE NoFile

\* A database is copied with its log and its settings.
Wanted(list) ==
    /\ list \in Lists
    /\ \A f \in Files(list) : dir["legacy"][f] # NoFile
    /\ "db" \in Files(list) =>
         /\ ~cutShort /\ dir["legacy"].wal # NoFile => "wal" \in Files(list)
         /\ dir["legacy"].settings # NoFile =>
                "settings" \in Files(list) \/ dir["home"].settings # NoFile

\* Nothing is opened while there is a marker, and each of its files is there or
\* still to be copied.
ListInv ==
    /\ phase = "mark" => Wanted(todo) /\ ("db" \in Files(todo) => dir["home"].db = NoFile)
    /\ marker # NoFile => Wanted(marker) /\ phase \in {"down", "marker", "copy"}
    /\ phase = "copy" =>
         /\ marker # NoFile /\ todo \in Lists \cup {<<>>}
         /\ \A f \in Files(todo) : f \in Files(marker)
         /\ \A f \in Files(marker) : f \in Files(todo) \/ dir["home"][f] # NoFile

Copying == marker # NoFile /\ "db" \in Files(marker)

\* The log beside a database is its own, and is there if it has commits of it.
Whole(files) ==
    files.db # NoFile =>
        /\ files.db.state # "torn"
        /\ files.wal \in {NoFile, files.db.line}
        /\ files.db.walled => files.wal = files.db.line
        /\ ~files.db.populated => ~files.db.walled /\ files.wal = NoFile

\* An empty file has nothing of a schema.
Empty(db) == ~db.populated => db.version = 0 /\ db.parts = {}
EmptyInv == \A p \in Places : dir[p].db # NoFile => Empty(dir[p].db)

\* A log stands alone only in the middle of a copy, or of a quarantine.
LogInv ==
    ~cutShort =>
        /\ \A p \in {"home", "custom"} :
             /\ Whole(dir[p])
             /\ dir[p].db = NoFile /\ dir[p].wal # NoFile =>
                  \/ p = "home" /\ Copying
                  \/ p = path /\ phase = "quarantine"
        /\ Copying => \/ dir["home"].wal = dir["legacy"].wal
                      \/ dir["home"].db = NoFile /\ dir["home"].wal = NoFile

SoundInv == phase \in {"bootstrap", "migrate", "up"} => dir[path].db.state # "damaged"

\* The log of a database that is set aside is set aside with it, or is next.
AsideInv ==
    ~cutShort => \A g \in aside : g.name = "db" /\ g.file.walled =>
        \/ \E h \in aside : h.name = "wal" /\ h.file = g.file.line
        \/ /\ phase = "quarantine"
           /\ dir[path].db = NoFile /\ dir[path].wal = g.file.line /\ dir[path].wal # NoFile

KeptInv == \A line \in made :
    \/ \E g \in aside : g.name = "db" /\ Populated(g.file) /\ g.file.line = line
    \/ \E p \in Places : Populated(dir[p].db) /\ dir[p].db.line = line

\* The settings of the old database come with it.
SettingsInv ==
    /\ dir["custom"].db # NoFile => dir["custom"].db.line # 1
    /\ dir["home"].db # NoFile /\ dir["home"].db.line = 1
         /\ dir["legacy"].settings # NoFile /\ dir["home"].settings = NoFile =>
            marker # NoFile /\ "settings" \in Files(marker)

WholeInv == OldInv /\ ListInv /\ EmptyInv /\ LogInv /\ SoundInv /\ AsideInv /\ KeptInv /\ SettingsInv

\* What is left of a list when its head is taken.
LEMMA ListFacts ==
    /\ Files(<<>>) = {}
    /\ \A list \in Lists :
         /\ list # <<>> /\ list # NoFile
         /\ Head(list) \in {"wal", "db", "settings"} /\ Tail(list) \in Lists \cup {<<>>}
         /\ Files(list) = {Head(list)} \cup Files(Tail(list))
         /\ Head(list) = "db" => "wal" \notin Files(list)
         /\ "wal" \in Files(list) => "db" \in Files(list)
         /\ \A f \in Files(list) : f \in {"wal", "db", "settings"}
<1>1. /\ Files(<<>>) = {} /\ Files(<<"settings">>) = {"settings"} /\ Files(<<"db">>) = {"db"}
      /\ Files(<<"wal", "db">>) = {"wal", "db"} /\ Files(<<"db", "settings">>) = {"db", "settings"}
      /\ Files(<<"wal", "db", "settings">>) = {"wal", "db", "settings"}
  BY DEF Files
<1>2. /\ Tail(<<"settings">>) = <<>> /\ Tail(<<"db">>) = <<>> /\ Tail(<<"wal", "db">>) = <<"db">>
      /\ Tail(<<"db", "settings">>) = <<"settings">>
      /\ Tail(<<"wal", "db", "settings">>) = <<"db", "settings">>
  OBVIOUS
<1>3. \A list \in Lists : list # <<>> /\ list # NoFile
  <2>1. \A list \in Lists : list # <<>> /\ list \in Seq({"wal", "db", "settings"})
    <3> DEFINE S == {"wal", "db", "settings"}
    <3>1. <<"settings">> \in Seq(S) /\ <<"db">> \in Seq(S)
      OBVIOUS
    <3>2. <<"wal", "db">> \in Seq(S) /\ <<"db", "settings">> \in Seq(S)
      OBVIOUS
    <3>3. <<"wal", "db", "settings">> \in Seq(S)
      OBVIOUS
    <3>4. \A list \in Lists : list # <<>>
      BY DEF Lists
    <3> QED BY <3>1, <3>2, <3>3, <3>4 DEF Lists
  <2> QED BY <2>1, NoFileAssumption
<1> QED BY <1>1, <1>2, <1>3 DEF Lists

LEMMA WholeInit == Init => WholeInv
<1> SUFFICES ASSUME Init PROVE WholeInv
  OBVIOUS
<1>1. SchemaInv
  BY SchemaInit
<1>2. PICK old \in Found(1), here \in Found(2) \cup {[NoFiles EXCEPT !.db = EmptyFile(2)]},
           there \in {NoFile, Database(3, SchemaVersion, FALSE)} :
           dir = [legacy |-> old, home |-> here, custom |-> [NoFiles EXCEPT !.db = there]]
  BY DEF Init
<1>3. dir["legacy"] = old /\ dir["home"] = here
      /\ dir["custom"].db = there /\ dir["custom"].wal = NoFile
  BY <1>2 DEF NoFiles
<1>4. ASSUME NEW line \in Nat, NEW version \in 1..6, NEW walled \in BOOLEAN
      PROVE  /\ Database(line, version, walled).line = line
             /\ Database(line, version, walled).populated = TRUE
             /\ Database(line, version, walled).walled = walled
             /\ Database(line, version, walled).state = "sound"
             /\ Database(line, version, walled) # NoFile
  <2>1. Database(line, version, walled) \in Databases
    BY DEF Database, Databases, PartsOf, Parts
  <2>2. /\ Database(line, version, walled).line = line
        /\ Database(line, version, walled).populated = TRUE
        /\ Database(line, version, walled).walled = walled
        /\ Database(line, version, walled).state = "sound"
    BY DEF Database
  <2> QED BY <2>1, <2>2, NoFileAssumption
<1>5. ASSUME NEW line \in {1, 2}, NEW d \in Found(line)
      PROVE  \/ d = NoFiles
             \/ /\ d.db.line = line /\ d.db.populated = TRUE /\ d.db.state = "sound" /\ d.db # NoFile
                /\ \/ d.db.walled = TRUE /\ d.wal = line
                   \/ d.db.walled = FALSE /\ d.wal = NoFile
  <2>1. CASE d # NoFiles
    <3>1. PICK v \in OldVersions, walled \in BOOLEAN, s \in {NoFile, "default", "custom"} :
            d = [db |-> Database(line, v, walled), wal |-> IF walled THEN line ELSE NoFile,
                 settings |-> s]
      BY <2>1 DEF Found
    <3>2. v \in 1..6 /\ line \in Nat
      BY StartupAssumption
    <3>3. d.db = Database(line, v, walled) /\ d.wal = IF walled THEN line ELSE NoFile
      BY <3>1
    <3>4. /\ d.db.line = line /\ d.db.populated = TRUE /\ d.db.walled = walled
          /\ d.db.state = "sound" /\ d.db # NoFile
      <4> DEFINE db == Database(line, v, walled)
      <4>1. /\ db.line = line /\ db.populated = TRUE /\ db.walled = walled
            /\ db.state = "sound" /\ db # NoFile
        <5>1. db \in Databases
          BY <3>1, <3>2 DEF Database, Databases, PartsOf, Parts
        <5> QED BY <5>1, NoFileAssumption DEF Database
      <4>2. d.db = db
        BY <3>3
      <4> HIDE DEF db
      <4> QED BY <4>1, <4>2
    <3> QED BY <3>3, <3>4
  <2> QED BY <2>1
<1>6. OldInv
  <2>1. NoFiles.db = NoFile
    BY DEF NoFiles
  <2> QED BY <1>2, <1>3, <1>5, <2>1 DEF OldInv
<1>7. marker = NoFile /\ phase = "down" /\ aside = {} /\ path = "home"
  BY DEF Init
<1>8. Whole(here) /\ (here.db = NoFile => here.wal = NoFile) /\ (here.db # NoFile => here.db.line = 2)
  <2>1. CASE here \in Found(2)
    <3>1. NoFiles.db = NoFile /\ NoFiles.wal = NoFile
      BY DEF NoFiles
    <3>2. here = NoFiles \/ (/\ here.db.line = 2 /\ here.db.populated = TRUE /\ here.db.state = "sound"
                             /\ here.db # NoFile
                             /\ \/ here.db.walled = TRUE /\ here.wal = 2
                                \/ here.db.walled = FALSE /\ here.wal = NoFile)
      BY <1>5, <2>1
    <3> QED BY <3>1, <3>2 DEF Whole
  <2>2. CASE here = [NoFiles EXCEPT !.db = EmptyFile(2)]
    <3>1. here.db = EmptyFile(2) /\ here.wal = NoFile
      BY <2>2 DEF NoFiles
    <3>2. EmptyFile(2).line = 2 /\ EmptyFile(2).walled = FALSE /\ EmptyFile(2).state = "sound"
      BY DEF EmptyFile
    <3> QED BY <3>1, <3>2 DEF Whole
  <2> QED BY <2>1, <2>2
<1>9. Whole(dir["custom"]) /\ (dir["custom"].db # NoFile => dir["custom"].db.line = 3)
  <2>1. CASE there # NoFile
    <3>1. there = Database(3, SchemaVersion, FALSE) /\ SchemaVersion \in 1..6 /\ 3 \in Nat
          /\ FALSE \in BOOLEAN
      <4>1. there = Database(3, SchemaVersion, FALSE)
        BY <1>2, <2>1
      <4> QED BY <4>1 DEF SchemaVersion
    <3>2. there.line = 3 /\ there.populated = TRUE /\ there.walled = FALSE /\ there.state = "sound"
      BY <1>4, <3>1
    <3> QED BY <1>3, <3>2 DEF Whole
  <2> QED BY <1>3, <2>1 DEF Whole
<1>10. LogInv
  BY <1>3, <1>7, <1>8, <1>9 DEF LogInv, Copying
<1>12. EmptyInv
  <2>1. here # NoFiles => here.db.populated = TRUE \/ here.db = EmptyFile(2)
    BY <1>2, <1>5 DEF NoFiles
  <2>2. there # NoFile => there.populated = TRUE
    BY <1>2 DEF Database
  <2>3. old # NoFiles => old.db.populated = TRUE
    BY <1>5
  <2> QED BY <1>3, <2>1, <2>2, <2>3 DEF EmptyInv, Empty, Places, NoFiles, EmptyFile
<1>11. KeptInv
  <2>1. made = {dir[p].db.line : p \in {q \in DOMAIN dir : Populated(dir[q].db)}}
        /\ DOMAIN dir = Places
    BY <1>1 DEF Init, SchemaInv
  <2> QED BY <2>1 DEF KeptInv
<1> QED BY <1>3, <1>6, <1>7, <1>8, <1>9, <1>10, <1>11, <1>12
        DEF WholeInv, ListInv, SoundInv, AsideInv, SettingsInv

\* A step that leaves the files as they are and does not begin to work on them.
LEMMA Idle ==
    ASSUME WholeInv, SchemaInv, UNCHANGED <<dir, aside, made, marker>>,
           cutShort => cutShort',
           path' \in {"home", "custom"},
           phase' \notin {"mark", "copy", "bootstrap", "migrate", "up"},
           marker # NoFile => phase' \in {"down", "marker"},
           phase = "quarantine" /\ ~cutShort' =>
               phase' # "quarantine" /\ (dir[path].db # NoFile \/ dir[path].wal = NoFile)
    PROVE  WholeInv'
<1>1. OldInv' /\ KeptInv' /\ SettingsInv' /\ SoundInv' /\ EmptyInv'
  BY DEF WholeInv, EmptyInv, OldInv, KeptInv, SettingsInv, SoundInv
<1>2. ListInv'
  BY DEF WholeInv, ListInv, Wanted
<1>3. LogInv'
  BY DEF WholeInv, LogInv, Whole, Copying
<1>4. AsideInv'
  BY DEF WholeInv, AsideInv
<1> QED BY <1>1, <1>2, <1>3, <1>4 DEF WholeInv

\* The marker is written, read and removed.
LEMMA MarkerPreserves ==
    ASSUME WholeInv, SchemaInv, ReadMarker \/ WriteMarker \/ RemoveMarker
    PROVE  WholeInv'
<1>1. UNCHANGED <<dir, aside, made, path, cutShort>>
  BY DEF ReadMarker, WriteMarker, RemoveMarker
<1>2. phase \in {"marker", "mark", "copy"} /\ phase' \in {"copy", "scan", "path"}
  BY DEF ReadMarker, WriteMarker, RemoveMarker, Go
<1>3. OldInv' /\ KeptInv' /\ SoundInv' /\ AsideInv' /\ EmptyInv'
  BY <1>1, <1>2 DEF WholeInv, EmptyInv, OldInv, KeptInv, SoundInv, AsideInv
<1>4. CASE ReadMarker /\ marker # NoFile
  <2>1. todo' = marker /\ marker' = marker /\ phase' = "copy" /\ marker \in Lists
    BY <1>4 DEF ReadMarker, Go, WholeInv, ListInv, Wanted
  <2>2. ListInv'
    BY <1>1, <1>4, <2>1 DEF WholeInv, ListInv, Wanted
  <2>3. LogInv' /\ SettingsInv'
    BY <1>1, <1>2, <2>1 DEF WholeInv, LogInv, Whole, Copying, SettingsInv
  <2> QED BY <1>3, <2>2, <2>3 DEF WholeInv
<1>5. CASE ReadMarker /\ marker = NoFile
  <2>1. marker' = marker /\ phase' = "scan"
    BY <1>5 DEF ReadMarker, Go
  <2>2. ListInv'
    BY <1>5, <2>1 DEF WholeInv, ListInv
  <2>3. LogInv' /\ SettingsInv'
    BY <1>1, <1>2, <2>1 DEF WholeInv, LogInv, Whole, Copying, SettingsInv
  <2> QED BY <1>3, <2>2, <2>3 DEF WholeInv
<1>6. CASE WriteMarker
  <2>1. marker' = todo /\ todo' = todo /\ phase' = "copy" /\ phase = "mark" /\ Wanted(todo)
        /\ ("db" \in Files(todo) => dir["home"].db = NoFile) /\ marker = NoFile
    BY <1>6 DEF WriteMarker, Go, WholeInv, ListInv
  <2>2. todo \in Lists /\ todo # NoFile
    BY <2>1, ListFacts DEF Wanted
  <2>3. ListInv'
    BY <1>1, <2>1, <2>2 DEF ListInv, Wanted
  <2>4. LogInv' /\ SettingsInv'
    BY <1>1, <2>1, <2>2 DEF WholeInv, LogInv, Whole, Copying, SettingsInv
  <2> QED BY <1>3, <2>3, <2>4 DEF WholeInv
<1>7. CASE RemoveMarker
  <2>1. marker' = NoFile /\ phase' = "path" /\ phase = "copy" /\ todo = <<>>
    BY <1>7 DEF RemoveMarker, Go
  <2>2. \A f \in Files(marker) : dir["home"][f] # NoFile
    BY <2>1, ListFacts DEF WholeInv, ListInv
  <2>3. ListInv'
    BY <2>1 DEF ListInv
  <2>4. LogInv'
    BY <1>1, <2>1, <2>2 DEF WholeInv, LogInv, Whole, Copying
  <2>5. SettingsInv'
    BY <1>1, <2>1, <2>2 DEF WholeInv, SettingsInv
  <2> QED BY <1>3, <2>3, <2>4, <2>5 DEF WholeInv
<1> QED BY <1>4, <1>5, <1>6, <1>7

\* Work on the file that is open changes neither the database that it is nor
\* what lies beside it.
LEMMA FileChanges ==
    ASSUME WholeInv, SchemaInv, UNCHANGED <<aside, marker, path, cutShort>>,
           phase \in {"open", "reopen", "bootstrap", "migrate", "up"},
           phase' \in {"bootstrap", "migrate", "up", "down"},
           NEW files \in Directories, dir' = [dir EXCEPT ![path] = files],
           files.db \in Good, ~cutShort => Whole(files), files.db.state # "damaged",
           files.settings = dir[path].settings, Empty(files.db),
           dir[path].db = NoFile => files.db.line # 1,
           dir[path].db # NoFile => files.db.line = dir[path].db.line,
           Populated(dir[path].db) => Populated(files.db),
           \A line \in made' : line \in made \/ (Populated(files.db) /\ line = files.db.line)
    PROVE  WholeInv'
<1>1. /\ dir \in [Places -> Directories] /\ path \in {"home", "custom"}
      /\ marker = NoFile /\ files.db # NoFile
  BY NoFileAssumption DEF SchemaInv, WholeInv, ListInv, Good
<1>2. /\ dir'["legacy"] = dir["legacy"] /\ dir'[path] = files
      /\ \A p \in Places : p # path => dir'[p] = dir[p]
  BY <1>1 DEF Places
<1>3. OldInv' /\ ListInv' /\ SoundInv' /\ EmptyInv'
  <2>1. OldInv' /\ ListInv' /\ SoundInv'
    BY <1>1, <1>2 DEF WholeInv, OldInv, ListInv, SoundInv
  <2>2. EmptyInv'
    BY <1>2 DEF WholeInv, EmptyInv, Empty
  <2> QED BY <2>1, <2>2
<1>4. LogInv'
  <2>1. ASSUME ~cutShort', NEW p \in {"home", "custom"}
        PROVE  Whole(dir[p])' /\ ((dir[p].db = NoFile)' => (dir[p].wal = NoFile)')
    <3>1. CASE p = path
      BY <1>1, <1>2, <2>1, <3>1 DEF Whole
    <3>2. CASE p # path
      <4>1. dir'[p] = dir[p]
        BY <1>2, <2>1, <3>2 DEF Places
      <4> QED BY <1>1, <2>1, <3>2, <4>1 DEF WholeInv, LogInv, Copying, Whole
    <3> QED BY <3>1, <3>2
  <2> QED BY <1>1, <2>1 DEF LogInv, Copying
<1>5. AsideInv'
  BY <1>1 DEF WholeInv, AsideInv
<1>6. KeptInv'
  <2>1. ASSUME NEW line \in made', line \in made PROVE
          \/ \E g \in aside : g.name = "db" /\ Populated(g.file) /\ g.file.line = line
          \/ \E p \in Places : Populated(dir'[p].db) /\ dir'[p].db.line = line
    <3>1. ASSUME NEW p \in Places, Populated(dir[p].db), dir[p].db.line = line
          PROVE  Populated(dir'[p].db) /\ dir'[p].db.line = line
      BY <1>2, <3>1 DEF Populated
    <3> QED BY <2>1, <3>1 DEF WholeInv, KeptInv
  <2>2. path \in Places /\ dir'[path].db = files.db
    BY <1>1, <1>2 DEF Places
  <2> QED BY <2>1, <2>2 DEF KeptInv, Populated
<1>7. SettingsInv'
  <2>1. CASE path = "home"
    BY <1>1, <1>2, <2>1 DEF WholeInv, SettingsInv, Places
  <2>2. CASE path = "custom"
    BY <1>1, <1>2, <2>2 DEF WholeInv, SettingsInv, Places
  <2> QED BY <1>1, <2>1, <2>2
<1> QED BY <1>3, <1>4, <1>5, <1>6, <1>7 DEF WholeInv

\* A database that is replayed with its own log has all its commits.
LEMMA ReplayKeepsWhole ==
    ASSUME NEW d \in Directories, d.db \in Good \cup {NoFile}, NEW line \in Nat, ~Unusable(d.db)
    PROVE  LET files == Replayed(d, line)
           IN /\ Whole(d) => Whole(files)
              /\ files.db.state # "damaged" /\ files.settings = d.settings
              /\ d.db = NoFile \/ Empty(d.db) => Empty(files.db)
              /\ d.db = NoFile => files.db.line = line
              /\ d.db # NoFile => files.db.line = d.db.line
              /\ Populated(d.db) => Populated(files.db)
<1> DEFINE files == Replayed(d, line)
<1>1. files.db \in Good /\ files.db # NoFile
  BY ReplayKeepsSchema, NoFileAssumption DEF Good
<1>2. CASE d.db = NoFile
  <2>1. files = [d EXCEPT !.wal = NoFile, !.db = EmptyFile(line)]
    BY <1>2 DEF Replayed, Populated, Directories
  <2>2. files.wal = NoFile /\ files.db = EmptyFile(line) /\ files.settings = d.settings
    BY <2>1 DEF Directories
  <2> HIDE DEF files
  <2>3. files.db.walled = FALSE /\ files.db.state = "sound" /\ files.db.line = line
        /\ files.db.version = 0 /\ files.db.parts = {}
    BY <2>2 DEF EmptyFile
  <2> QED BY <1>2, <2>2, <2>3 DEF Whole, Populated, Empty, files
<1>3. CASE d.db # NoFile /\ ~Populated(d.db)
  <2>1. files = [d EXCEPT !.wal = NoFile, !.db = d.db]
    BY <1>3 DEF Replayed, Directories
  <2>2. files.wal = NoFile /\ files.db = d.db /\ files.settings = d.settings
    BY <2>1 DEF Directories
  <2> HIDE DEF files
  <2> QED BY <1>3, <2>2 DEF Whole, Populated, Unusable, Empty, files
<1>4. CASE Populated(d.db) /\ d.wal = NoFile
  <2> DEFINE db == [d.db EXCEPT !.state = IF d.db.walled THEN "torn" ELSE @]
  <2>1. files = [d EXCEPT !.db = db]
    BY <1>4 DEF Replayed, Directories
  <2>2. d.db \in Databases /\ d.db # NoFile
    BY <1>4 DEF Populated, Good
  <2>3. files.wal = NoFile /\ files.db = db /\ files.settings = d.settings
    BY <1>4, <2>1 DEF Directories
  <2>4. db.line = d.db.line /\ db.populated = d.db.populated /\ db.walled = d.db.walled
        /\ (db.state = "torn" \/ db.state = d.db.state)
        /\ (d.db.walled # TRUE => db.state = d.db.state)
    BY <2>2 DEF Databases
  <2> HIDE DEF files, db
  <2>5. Whole(d) => Whole(files)
    BY <1>4, <2>2, <2>3, <2>4, NoFileAssumption DEF Whole, Databases, Populated
  <2> QED BY <1>1, <1>4, <2>2, <2>3, <2>4, <2>5 DEF Populated, Unusable, Empty, files
<1>5. CASE Populated(d.db) /\ d.wal # NoFile
  <2> DEFINE db == [d.db EXCEPT !.state = IF d.wal # d.db.line THEN "torn" ELSE @, !.walled = TRUE]
  <2>1. files = [d EXCEPT !.wal = d.db.line, !.db = db]
    BY <1>5 DEF Replayed, Directories, Good, Databases, Populated
  <2>2. d.db \in Databases /\ d.db # NoFile
    BY <1>5 DEF Populated, Good
  <2>3. files.wal = d.db.line /\ files.db = db /\ files.settings = d.settings
    BY <1>5, <2>1 DEF Directories
  <2>4. db.line = d.db.line /\ db.populated = d.db.populated
        /\ (db.state = "torn" \/ db.state = d.db.state)
        /\ (d.wal = d.db.line => db.state = d.db.state)
    BY <2>2 DEF Databases
  <2> HIDE DEF files, db
  <2>5. Whole(d) => Whole(files)
    BY <1>5, <2>2, <2>3, <2>4 DEF Whole, Populated
  <2> QED BY <1>1, <1>5, <2>2, <2>3, <2>4, <2>5 DEF Populated, Unusable, Empty, files
<1> QED BY <1>2, <1>3, <1>4, <1>5 DEF Populated

LEMMA OpenKeepsWhole == ASSUME WholeInv, SchemaInv, OpenDatabase PROVE WholeInv'
<1> DEFINE files == Replayed(dir[path], NewLine)
<1>1. /\ dir \in [Places -> Directories] /\ path \in {"home", "custom"} /\ path \in Places
      /\ dir[path].db \in Good \cup {NoFile}
  BY DEF SchemaInv, Places
<1>2. NewLine \in Nat /\ NewLine # 1
  <2>1. Cardinality(made) \in Nat
    BY FS_CardinalityType DEF SchemaInv
  <2> QED BY <2>1 DEF NewLine
<1>3. /\ dir' = [dir EXCEPT ![path] = files] /\ ~Unusable(dir[path].db)
      /\ phase \in {"open", "reopen"} /\ phase' \in {"bootstrap", "migrate", "up"}
      /\ UNCHANGED <<aside, marker, path, cutShort, made>>
  <2>1. phase' = CASE files.db.version = 0 -> "bootstrap" [] Old(files.db) -> "migrate"
                   [] OTHER -> "up"
    BY DEF OpenDatabase, Go
  <2> HIDE DEF files
  <2>2. phase' \in {"bootstrap", "migrate", "up"}
    <3>1. CASE files.db.version = 0
      BY <2>1, <3>1 DEF Old, SchemaVersion
    <3>2. CASE files.db.version # 0 /\ Old(files.db)
      BY <2>1, <3>2
    <3>3. CASE files.db.version # 0 /\ ~Old(files.db)
      BY <2>1, <3>3
    <3> QED BY <3>1, <3>2, <3>3
  <2> QED BY <2>2 DEF OpenDatabase, files
<1>4. files \in Directories /\ files.db \in Good
  BY <1>1, <1>2, ReplayKeepsSchema
<1>5. /\ Whole(dir[path]) => Whole(files)
      /\ files.db.state # "damaged" /\ files.settings = dir[path].settings
      /\ dir[path].db = NoFile => files.db.line = NewLine
      /\ dir[path].db # NoFile => files.db.line = dir[path].db.line
      /\ Populated(dir[path].db) => Populated(files.db)
      /\ dir[path].db = NoFile \/ Empty(dir[path].db) => Empty(files.db)
  BY <1>1, <1>2, <1>3, ReplayKeepsWhole
<1>6. ~cutShort => Whole(dir[path])
  BY <1>1 DEF WholeInv, LogInv
<1>7. dir[path].db = NoFile \/ Empty(dir[path].db)
  BY <1>1 DEF WholeInv, EmptyInv
<1> HIDE DEF files
<1> QED BY <1>7, <1>2, <1>3, <1>4, <1>5, <1>6, FileChanges

\* The migration and the first tables leave the database what it is.
LEMMA SchemaKeepsWhole ==
    ASSUME WholeInv, SchemaInv, Bootstrap \/ Migrate PROVE WholeInv'
<1> DEFINE db == dir[path].db
           new == dir'[path].db
           files == dir'[path]
<1>1. /\ dir \in [Places -> Directories] /\ path \in {"home", "custom"} /\ path \in Places
      /\ db \in Good /\ dir[path] \in Directories
      /\ phase \in {"bootstrap", "migrate"} /\ phase' \in {"bootstrap", "migrate", "up"}
      /\ UNCHANGED <<aside, marker, path, cutShort>> /\ db.state # "damaged"
  BY DEF SchemaInv, Places, Bootstrap, Migrate, Go, WholeInv, SoundInv
<1>2. db \in Databases /\ db # NoFile
  BY <1>1, NoFileAssumption DEF Good
<1>3. ASSUME NEW change, dir' = [dir EXCEPT ![path].db = change]
      PROVE  /\ new = change /\ dir' = [dir EXCEPT ![path] = files]
             /\ files.wal = dir[path].wal /\ files.settings = dir[path].settings
  BY <1>1, <1>3 DEF Directories
<1>4. SchemaInv'
  BY SchemaStep DEF Next, Settle
<1>5. files \in Directories /\ new \in Good \cup {NoFile}
  BY <1>1, <1>4 DEF SchemaInv
<1>6. Empty(db)
  BY <1>1, <1>2 DEF WholeInv, EmptyInv
<1>7. /\ dir' = [dir EXCEPT ![path] = files]
      /\ files.wal = dir[path].wal /\ files.settings = dir[path].settings
      /\ new.line = db.line /\ new.walled = db.walled /\ new.state = db.state
      /\ new.populated = TRUE
      /\ \A line \in made' : line \in made \/ (line = new.line)
  <2> HIDE DEF db, new, files
  <2>1. CASE Bootstrap /\ db.parts # Parts
    <3> DEFINE change == [db EXCEPT !.parts = Parts, !.populated = TRUE]
    <3>1. dir' = [dir EXCEPT ![path].db = change] /\ made' = made \cup {db.line}
      BY <2>1 DEF Bootstrap, SetDb, db
    <3>2. /\ change.line = db.line /\ change.walled = db.walled /\ change.state = db.state
          /\ change.populated = TRUE
      BY <1>2 DEF Databases
    <3> HIDE DEF change
    <3> QED BY <1>3, <3>1, <3>2
  <2>2. CASE Bootstrap /\ db.parts = Parts
    <3> DEFINE change == [db EXCEPT !.version = SchemaVersion]
    <3>1. dir' = [dir EXCEPT ![path].db = change] /\ made' = made \cup {db.line}
      BY <2>2 DEF Bootstrap, SetDb, db
    <3>2. db.populated = TRUE
      BY <1>2, <1>6, <2>2 DEF Empty, Parts, Databases
    <3>3. /\ change.line = db.line /\ change.walled = db.walled /\ change.state = db.state
          /\ change.populated = TRUE
      BY <1>2, <3>2 DEF Databases
    <3> HIDE DEF change
    <3> QED BY <1>3, <3>1, <3>3
  <2>3. CASE Migrate
    <3>1. PICK change : /\ dir' = [dir EXCEPT ![path].db = change]
                        /\ change = [db EXCEPT !.version = SchemaVersion]
                           \/ \E k \in 1..4 : change = Applied(db, k + 1)
      <4>1. CASE todo = <<>>
        BY <2>3, <4>1 DEF Migrate, SetDb, db
      <4>2. CASE todo # <<>>
        <5>1. PICK k \in db.version..SchemaVersion : todo = StepsAfter(k)
          BY <2>3 DEF Migrate, SchemaInv, Between, db
        <5>2. db.version \in 1..4
          BY <2>3 DEF Migrate, SchemaInv, Between, SchemaVersion, db
        <5>3. k \in 1..5 /\ SchemaVersion = 5
          BY <5>1, <5>2 DEF SchemaVersion
        <5>4. Head(todo) = k + 1 /\ k \in 1..4
          <6>1. k \in 1..SchemaVersion
            BY <5>3
          <6>2. StepsAfter(k) # <<>>
            BY <4>2, <5>1
          <6>3. k < SchemaVersion /\ Head(StepsAfter(k)) = k + 1
            BY <6>1, <6>2, NextStep
          <6> QED BY <5>1, <5>3, <6>3
        <5> QED BY <2>3, <4>2, <5>4 DEF Migrate, SetDb, db
      <4> QED BY <4>1, <4>2
    <3>2. /\ change.line = db.line /\ change.walled = db.walled /\ change.state = db.state
          /\ change.populated = db.populated
      <4>1. ASSUME NEW k \in 1..4, change = Applied(db, k + 1)
            PROVE  /\ change.line = db.line /\ change.walled = db.walled /\ change.state = db.state
                   /\ change.populated = db.populated
        <5>1. k + 1 \in {2, 3, 4, 5}
          OBVIOUS
        <5>2. CASE k + 1 = 2
          BY <1>2, <4>1, <5>2 DEF Applied, Databases
        <5>3. CASE k + 1 = 3
          BY <1>2, <4>1, <5>3 DEF Applied, Databases
        <5>4. CASE k + 1 = 4
          BY <1>2, <4>1, <5>4 DEF Applied, Databases
        <5>5. CASE k + 1 = 5
          BY <1>2, <4>1, <5>5 DEF Applied, Databases
        <5> QED BY <5>1, <5>2, <5>3, <5>4, <5>5
      <4> QED BY <1>2, <3>1, <4>1 DEF Databases
    <3>3. db.populated = TRUE
      <4>1. db.version # 0
        BY <2>3 DEF Migrate, SchemaInv, Between, SchemaVersion, db
      <4> QED BY <1>2, <1>6, <4>1 DEF Empty, Databases
    <3>4. made' = made
      BY <2>3 DEF Migrate
    <3> QED BY <1>3, <3>1, <3>2, <3>3, <3>4
  <2> QED BY <2>1, <2>2, <2>3
<1>8. new \in Good
  <2>1. phase' \in {"bootstrap", "migrate", "up"} => dir'[path'].db \in Good
    BY <1>4 DEF SchemaInv
  <2> QED BY <1>1, <2>1
<1>9. files \in Directories
  BY <1>1, <1>4 DEF SchemaInv
<1>10. new \in Databases /\ new # NoFile
  BY <1>8, NoFileAssumption DEF Good
<1>11. ~cutShort => Whole(files)
  <2>1. ~cutShort => Whole(dir[path])
    BY <1>1 DEF WholeInv, LogInv
  <2> HIDE DEF db
  <2>2. dir[path].db = db
    BY DEF db
  <2> QED BY <1>2, <1>7, <2>1, <2>2 DEF Whole
<1>12. files.db = new /\ dir[path].db = db
  OBVIOUS
<1> HIDE DEF db, new, files
<1> QED BY <1>1, <1>2, <1>7, <1>8, <1>9, <1>10, <1>11, <1>12, FileChanges DEF Populated, Empty

\* Telemetry goes to the log of the database that is open, and is checkpointed
\* when it is closed.
LEMMA UpKeepsWhole == ASSUME WholeInv, SchemaInv, Store \/ Close PROVE WholeInv'
<1> DEFINE db == dir[path].db
<1>1. /\ dir \in [Places -> Directories] /\ path \in {"home", "custom"} /\ path \in Places
      /\ db \in Good /\ dir[path] \in Directories
      /\ phase = "up" /\ phase' \in {"up", "down"}
      /\ UNCHANGED <<aside, marker, path, cutShort, made>> /\ db.state # "damaged"
      /\ db.version = SchemaVersion
  BY DEF SchemaInv, Places, Store, Close, Go, WholeInv, SoundInv
<1>2. db \in Databases /\ db # NoFile /\ db.populated = TRUE /\ db.line \in Nat
  <2>1. db \in Databases /\ db # NoFile /\ db.version = 5
    BY <1>1, NoFileAssumption DEF Good, SchemaVersion
  <2>2. Empty(db)
    BY <1>1, <2>1 DEF WholeInv, EmptyInv
  <2> QED BY <2>1, <2>2 DEF Empty, Databases
<1>3. ASSUME NEW walled \in BOOLEAN, NEW wal \in Nat \cup {NoFile},
             dir' = [dir EXCEPT ![path].wal = wal, ![path].db.walled = walled],
             walled = TRUE => wal = db.line, wal \in {NoFile, db.line}
      PROVE  WholeInv'
  <2> DEFINE new == [db EXCEPT !.walled = walled]
             files == [dir[path] EXCEPT !.wal = wal, !.db = new]
  <2>1. /\ new \in Databases /\ new.line = db.line /\ new.populated = TRUE
        /\ new.state = db.state /\ new.walled = walled /\ new.version = db.version
        /\ new.parts = db.parts /\ new.prefixes = db.prefixes
    BY <1>2 DEF Databases
  <2>2. new \in Good /\ new # NoFile
    <3> HIDE DEF new
    <3> QED BY <1>1, <2>1, NoFileAssumption DEF Good, Consistent
  <2>3. dir' = [dir EXCEPT ![path] = files]
    BY <1>1, <1>3 DEF Directories
  <2> HIDE DEF new
  <2>4. files \in Directories /\ files.db = new /\ files.wal = wal /\ files.settings = dir[path].settings
    BY <1>1, <2>2 DEF Directories, Good
  <2> HIDE DEF files
  <2>5. ~cutShort => Whole(files)
    <3>1. ~cutShort => Whole(dir[path])
      BY <1>1 DEF WholeInv, LogInv
    <3> HIDE DEF db
    <3>2. dir[path].db = db
      BY DEF db
    <3> QED BY <1>2, <1>3, <2>1, <2>4, <3>1, <3>2 DEF Whole
  <2> QED BY <1>1, <1>2, <2>1, <2>2, <2>3, <2>4, <2>5, FileChanges DEF Populated, Empty
<1>4. CASE Store
  BY <1>2, <1>3, <1>4 DEF Store
<1>5. CASE Close
  BY <1>2, <1>3, <1>5 DEF Close
<1> QED BY <1>4, <1>5

\* The files of a list, in the order in which they are copied.
LEMMA ListOf ==
    ASSUME NEW w \in {<<>>, <<"wal">>}, NEW d \in {<<>>, <<"db">>}, NEW s \in {<<>>, <<"settings">>},
           w # <<>> => d # <<>>
    PROVE  LET list == w \o d \o s
           IN /\ list \in Lists \cup {<<>>}
              /\ "wal" \in Files(list) <=> w # <<>>
              /\ "db" \in Files(list) <=> d # <<>>
              /\ "settings" \in Files(list) <=> s # <<>>
<1>1. /\ <<>> \o <<>> \o <<>> = <<>> /\ <<>> \o <<>> \o <<"settings">> = <<"settings">>
      /\ <<>> \o <<"db">> \o <<>> = <<"db">>
      /\ <<>> \o <<"db">> \o <<"settings">> = <<"db", "settings">>
      /\ <<"wal">> \o <<"db">> \o <<>> = <<"wal", "db">>
      /\ <<"wal">> \o <<"db">> \o <<"settings">> = <<"wal", "db", "settings">>
  <2> DEFINE S == {"wal", "db", "settings"}
  <2>1. <<"wal">> \o <<"db">> = <<"wal", "db">>
    <3> DEFINE list == <<"wal">> \o <<"db">>
    <3>1. list \in Seq(S) /\ Len(list) = 2 /\ list[1] = "wal" /\ list[2] = "db"
      BY ConcatProperties
    <3> DEFINE other == <<"wal", "db">>
    <3>2. other \in Seq(S) /\ Len(other) = 2 /\ \A i \in 1..2 : other[i] = list[i]
      <4> HIDE DEF list
      <4> QED BY <3>1
    <3> HIDE DEF list, other
    <3>3. list = other
      BY <3>1, <3>2, SeqEqual
    <3> QED BY <3>3 DEF list, other
  <2>2. <<"db">> \o <<"settings">> = <<"db", "settings">>
    <3> DEFINE list == <<"db">> \o <<"settings">>
    <3>1. list \in Seq(S) /\ Len(list) = 2 /\ list[1] = "db" /\ list[2] = "settings"
      BY ConcatProperties
    <3> DEFINE other == <<"db", "settings">>
    <3>2. other \in Seq(S) /\ Len(other) = 2 /\ \A i \in 1..2 : other[i] = list[i]
      <4> HIDE DEF list
      <4> QED BY <3>1
    <3> HIDE DEF list, other
    <3>3. list = other
      BY <3>1, <3>2, SeqEqual
    <3> QED BY <3>3 DEF list, other
  <2>3. <<"wal", "db">> \o <<"settings">> = <<"wal", "db", "settings">>
    <3> DEFINE list == <<"wal", "db">> \o <<"settings">>
    <3>1. list \in Seq(S) /\ Len(list) = 3 /\ list[1] = "wal" /\ list[2] = "db" /\ list[3] = "settings"
      BY ConcatProperties
    <3> DEFINE other == <<"wal", "db", "settings">>
    <3>2. other \in Seq(S) /\ Len(other) = 3 /\ \A i \in 1..3 : other[i] = list[i]
      <4> HIDE DEF list
      <4> QED BY <3>1
    <3> HIDE DEF list, other
    <3>3. list = other
      BY <3>1, <3>2, SeqEqual
    <3> QED BY <3>3 DEF list, other
  <2>4. \A list \in Seq(S) : list \o <<>> = list /\ <<>> \o list = list
    BY ConcatEmptySeq
  <2>5. <<"wal", "db">> \in Seq(S) /\ <<"db">> \in Seq(S) /\ <<"settings">> \in Seq(S) /\ <<>> \in Seq(S)
    OBVIOUS
  <2> HIDE DEF S
  <2> QED BY <2>1, <2>2, <2>3, <2>4, <2>5
<1>2. /\ Files(<<>>) = {} /\ Files(<<"settings">>) = {"settings"} /\ Files(<<"db">>) = {"db"}
      /\ Files(<<"wal", "db">>) = {"wal", "db"} /\ Files(<<"db", "settings">>) = {"db", "settings"}
      /\ Files(<<"wal", "db", "settings">>) = {"wal", "db", "settings"}
  BY DEF Files
<1>3. <<"wal">> # <<>> /\ <<"db">> # <<>> /\ <<"settings">> # <<>>
  OBVIOUS
<1>4. CASE w = <<>> /\ d = <<>>
  BY <1>1, <1>2, <1>3, <1>4 DEF Lists
<1>5. CASE w = <<>> /\ d = <<"db">>
  BY <1>1, <1>2, <1>3, <1>5 DEF Lists
<1>6. CASE w = <<"wal">> /\ d = <<"db">>
  BY <1>1, <1>2, <1>3, <1>6 DEF Lists
<1> QED BY <1>4, <1>5, <1>6

\* Scan: an empty file makes way for the old database, and what is to be copied
\* is copied with all that belongs to it.
LEMMA ScanKeepsWhole == ASSUME WholeInv, SchemaInv, Scan PROVE WholeInv'
<1> DEFINE home == dir["home"]
           old == dir["legacy"]
           custom == Custom(IF home.settings # NoFile THEN home.settings ELSE old.settings)
           conflict == ~custom /\ Populated(old.db) /\ Populated(home.db)
           replace == ~custom /\ Populated(old.db) /\ home.db # NoFile /\ ~Populated(home.db)
           kept == IF replace THEN [home EXCEPT !.db = NoFile] ELSE home
           wanted == (IF custom THEN {} ELSE {"wal", "db"}) \cup {"settings"}
           Missing(f) == IF f \in wanted /\ old[f] # NoFile /\ kept[f] = NoFile THEN <<f>> ELSE <<>>
           files == Missing("wal") \o Missing("db") \o Missing("settings")
<1>1. /\ dir \in [Places -> Directories] /\ "home" \in Places /\ "legacy" \in Places
      /\ phase = "scan" /\ marker = NoFile /\ UNCHANGED <<aside, marker, path, made, cutShort>>
      /\ path \in {"home", "custom"}
  BY DEF SchemaInv, Places, Scan, WholeInv, ListInv
<1>2. old \in Directories /\ home \in Directories
  BY <1>1
<1>3. IF conflict THEN UNCHANGED <<dir, todo>> /\ phase' = "path"
      ELSE /\ dir' = [dir EXCEPT !["home"] = kept] /\ todo' = files
           /\ phase' = IF files = <<>> THEN "path" ELSE "mark"
  BY DEF Scan, Go
<1>4. CASE conflict
  <2>1. UNCHANGED dir /\ phase' = "path"
    BY <1>3, <1>4
  <2> QED BY <1>1, <2>1, Idle
<1>5. CASE ~conflict
  <2>1. /\ kept.wal = home.wal /\ kept.settings = home.settings
        /\ kept.db = IF replace THEN NoFile ELSE home.db
    BY <1>2 DEF Directories
  <2>2. home.db # NoFile /\ kept.db = NoFile => ~Populated(home.db)
    BY <2>1
  <2>3. ~cutShort /\ kept.db = NoFile => kept.wal = NoFile
    <3>1. CASE ~cutShort /\ home.db = NoFile
      BY <1>1, <2>1, <3>1 DEF WholeInv, LogInv, Copying
    <3>2. CASE ~cutShort /\ home.db # NoFile /\ kept.db = NoFile
      BY <2>1, <2>2, <3>2 DEF WholeInv, LogInv, Whole, Populated
    <3> QED BY <3>1, <3>2, <2>1
  <2>4. old.wal # NoFile => Populated(old.db)
    BY DEF WholeInv, OldInv, NoFiles, Populated
  <2>5. "wal" \in wanted /\ old.wal # NoFile => old.db # NoFile /\ kept.db = NoFile /\ "db" \in wanted
    BY <1>5, <2>1, <2>4 DEF Populated
  <2>6. "db" \in wanted => "wal" \in wanted
    <3> HIDE DEF custom
    <3> QED OBVIOUS
  <2> DEFINE w == Missing("wal")
             d == Missing("db")
             s == Missing("settings")
  <2>7. /\ w \in {<<>>, <<"wal">>} /\ d \in {<<>>, <<"db">>} /\ s \in {<<>>, <<"settings">>}
        /\ w # <<>> <=> "wal" \in wanted /\ old.wal # NoFile /\ kept.wal = NoFile
        /\ d # <<>> <=> "db" \in wanted /\ old.db # NoFile /\ kept.db = NoFile
        /\ s # <<>> <=> old.settings # NoFile /\ kept.settings = NoFile
    <3>1. \A f : <<f>> # <<>>
      OBVIOUS
    <3> HIDE DEF kept, custom
    <3> QED BY <3>1
  <2> HIDE DEF w, d, s, kept, wanted, custom
  <2>8. /\ files \in Lists \cup {<<>>}
        /\ "wal" \in Files(files) <=> w # <<>>
        /\ "db" \in Files(files) <=> d # <<>>
        /\ "settings" \in Files(files) <=> s # <<>>
    <3>1. files = w \o d \o s
      BY DEF w, d, s
    <3> HIDE DEF files
    <3> QED BY <2>5, <2>7, <3>1, ListOf
  <2> HIDE DEF files
  <2>9. /\ dir'["home"] = kept /\ dir'["legacy"] = old /\ dir'["custom"] = dir["custom"]
        /\ todo' = files /\ (phase' = "path" \/ (phase' = "mark" /\ files # <<>>))
    <3>1. "custom" \in Places
      BY DEF Places
    <3> QED BY <1>1, <1>3, <1>5, <3>1
  <2>10. OldInv' /\ SoundInv' /\ AsideInv'
    BY <1>1, <2>9 DEF WholeInv, OldInv, SoundInv, AsideInv
  <2>11. ListInv'
    <3>1. ASSUME phase' = "mark" PROVE Wanted(todo)' /\ ("db" \in Files(files) => kept.db = NoFile)
      <4>1. files \in Lists
        BY <2>8, <2>9, <3>1
      <4>2. \A f \in Files(files) : old[f] # NoFile
        <5>1. \A f \in Files(files) : f \in {"wal", "db", "settings"}
          BY <4>1, ListFacts
        <5> QED BY <2>7, <2>8, <5>1
      <4>3. "db" \in Files(files) =>
              /\ kept.db = NoFile
              /\ ~cutShort /\ old.wal # NoFile => "wal" \in Files(files)
              /\ old.settings # NoFile => "settings" \in Files(files) \/ kept.settings # NoFile
        BY <2>3, <2>6, <2>7, <2>8
      <4> HIDE DEF old
      <4> QED BY <1>1, <2>9, <4>1, <4>2, <4>3 DEF Wanted, old
    <3> QED BY <1>1, <2>9, <3>1 DEF ListInv
  <2>12. EmptyInv'
    BY <2>1, <2>9 DEF WholeInv, EmptyInv, Places
  <2>13. LogInv'
    <3>1. ASSUME ~cutShort PROVE Whole(kept)
      <4>1. Whole(home)
        BY <3>1 DEF WholeInv, LogInv
      <4> QED BY <2>1, <4>1 DEF Whole
    <3>2. ASSUME ~cutShort
          PROVE  Whole(dir["custom"]) /\ (dir["custom"].db = NoFile => dir["custom"].wal = NoFile)
      BY <1>1, <3>2 DEF WholeInv, LogInv
    <3> QED BY <1>1, <2>3, <2>9, <3>1, <3>2 DEF LogInv, Copying
  <2>14. KeptInv'
    <3>1. ASSUME NEW p \in Places, Populated(dir[p].db) PROVE dir'[p].db = dir[p].db
      BY <2>1, <2>2, <2>9, <3>1 DEF Places, Populated
    <3> QED BY <1>1, <3>1 DEF WholeInv, KeptInv
  <2>15. SettingsInv'
    <3>1. kept.db # NoFile => kept.db = home.db
      BY <2>1
    <3> QED BY <1>1, <2>1, <2>9, <3>1 DEF WholeInv, SettingsInv
  <2> QED BY <2>10, <2>11, <2>12, <2>13, <2>14, <2>15 DEF WholeInv
<1> QED BY <1>4, <1>5

\* CopyFile: the log comes first, so that a database is never there without it.
LEMMA CopyKeepsWhole == ASSUME WholeInv, SchemaInv, CopyFile PROVE WholeInv'
<1> DEFINE f == Head(todo)
           home == dir["home"]
           old == dir["legacy"]
<1>1. /\ dir \in [Places -> Directories] /\ "home" \in Places /\ "legacy" \in Places
      /\ phase = "copy" /\ phase' = "copy" /\ todo' = Tail(todo) /\ todo \in Lists
      /\ UNCHANGED <<aside, marker, path, made, cutShort>>
      /\ marker # NoFile /\ Wanted(marker) /\ path \in {"home", "custom"}
      /\ dir' = IF home[f] = NoFile THEN [dir EXCEPT !["home"] = [home EXCEPT ![f] = old[f]]] ELSE dir
  BY DEF SchemaInv, Places, CopyFile, WholeInv, ListInv
<1>2. /\ home \in Directories /\ old \in Directories /\ f \in {"wal", "db", "settings"}
      /\ todo' \in Lists \cup {<<>>} /\ Files(todo) = {f} \cup Files(todo')
      /\ f \in Files(marker) /\ old[f] # NoFile
      /\ f = "db" => "wal" \notin Files(todo)
  BY <1>1, ListFacts DEF WholeInv, ListInv, Wanted
<1> DEFINE new == dir'["home"]
<1> HIDE DEF f
<1>3. /\ dir'["legacy"] = old /\ dir'["custom"] = dir["custom"]
      /\ new[f] # NoFile
      /\ \A g \in {"wal", "db", "settings"} : g # f => new[g] = home[g]
      /\ new[f] = IF home[f] = NoFile THEN old[f] ELSE home[f]
  <2>1. CASE home[f] = NoFile
    <3>1. DOMAIN home = {"wal", "db", "settings"}
      BY <1>2 DEF Directories
    <3> QED BY <1>1, <1>2, <2>1, <3>1 DEF Places
  <2>2. CASE home[f] # NoFile
    BY <1>1, <1>2, <2>2
  <2> QED BY <2>1, <2>2
<1>4. /\ new.db = (IF f = "db" /\ home.db = NoFile THEN old.db ELSE home.db)
      /\ new.wal = (IF f = "wal" /\ home.wal = NoFile THEN old.wal ELSE home.wal)
      /\ new.settings = (IF f = "settings" /\ home.settings = NoFile THEN old.settings ELSE home.settings)
  BY <1>2, <1>3
<1> HIDE DEF new
<1>5. OldInv' /\ SoundInv' /\ AsideInv'
  BY <1>1, <1>3 DEF WholeInv, OldInv, SoundInv, AsideInv
<1>6. ListInv'
  <2>1. Wanted(marker)'
    BY <1>1, <1>3, <1>4 DEF Wanted, new
  <2>2. \A g \in Files(marker) : g \in Files(todo') \/ new[g] # NoFile
    <3>1. \A g \in Files(marker) : g \in {"wal", "db", "settings"}
      BY <1>1, ListFacts DEF Wanted
    <3>2. ASSUME NEW g \in Files(marker), g \notin Files(todo') PROVE new[g] # NoFile
      <4>1. CASE g = f
        BY <1>3, <4>1
      <4>2. CASE g # f
        BY <1>1, <1>2, <1>3, <3>1, <3>2, <4>2 DEF WholeInv, ListInv
      <4> QED BY <4>1, <4>2
    <3> QED BY <3>2
  <2>3. \A g \in Files(todo') : g \in Files(marker)
    BY <1>1, <1>2 DEF WholeInv, ListInv
  <2> QED BY <1>1, <1>2, <2>1, <2>2, <2>3 DEF ListInv, new
<1>7. EmptyInv'
  <2>1. old.db # NoFile => Empty(old.db)
    BY <1>1 DEF WholeInv, EmptyInv
  <2> QED BY <1>1, <1>3, <1>4, <2>1 DEF WholeInv, EmptyInv, Places, new
<1>8. LogInv'
  <2>1. ASSUME ~cutShort PROVE Whole(dir["custom"]) /\ (dir["custom"].db = NoFile => dir["custom"].wal = NoFile)
    BY <1>1, <2>1 DEF WholeInv, LogInv
  <2>2. ASSUME ~cutShort
        PROVE  /\ Whole(new) /\ (new.db = NoFile /\ new.wal # NoFile => Copying)
               /\ Copying => new.wal = old.wal \/ (new.db = NoFile /\ new.wal = NoFile)
    <3>1. /\ Whole(home) /\ (home.db = NoFile /\ home.wal # NoFile => Copying)
          /\ Copying => home.wal = old.wal \/ (home.db = NoFile /\ home.wal = NoFile)
      BY <1>1, <2>2 DEF WholeInv, LogInv
    <3>2. CASE f = "settings" \/ home[f] # NoFile
      <4>1. new.db = home.db /\ new.wal = home.wal
        BY <1>2, <1>4, <3>2
      <4> QED BY <3>1, <4>1 DEF Whole
    <3>3. CASE f = "wal" /\ home.wal = NoFile
      <4>1. Copying /\ old.wal # NoFile
        BY <1>1, <1>2, <3>3, ListFacts DEF Copying, Wanted
      <4>2. home.db = NoFile /\ new.db = NoFile /\ new.wal = old.wal
        BY <1>4, <3>1, <3>3, <4>1
      <4> QED BY <4>1, <4>2 DEF Whole
    <3>4. CASE f = "db" /\ home.db = NoFile
      <4>1. Copying /\ old.db # NoFile /\ new.db = old.db /\ new.wal = home.wal
        BY <1>1, <1>2, <1>4, <3>4 DEF Copying
      <4>2. home.wal = old.wal
        <5>1. old.wal # NoFile => home.wal # NoFile
          BY <1>1, <1>2, <2>2, <3>4, <4>1 DEF WholeInv, ListInv, Wanted, Copying
        <5> QED BY <3>1, <4>1, <5>1
      <4>3. /\ old.db.populated /\ old.db.line = 1 /\ old.db.state = "sound"
            /\ old.wal = IF old.db.walled THEN 1 ELSE NoFile
        BY <4>1 DEF WholeInv, OldInv
      <4> HIDE DEF old
      <4> QED BY <4>1, <4>2, <4>3 DEF Whole
    <3> QED BY <1>2, <3>2, <3>3, <3>4
  <2> QED BY <1>1, <1>3, <2>1, <2>2 DEF LogInv, Copying, new
<1>9. KeptInv'
  <2>1. ASSUME NEW p \in Places, Populated(dir[p].db) PROVE dir'[p].db = dir[p].db
    BY <1>3, <1>4, <2>1 DEF Places, Populated, new
  <2> QED BY <1>1, <2>1 DEF WholeInv, KeptInv
<1>10. SettingsInv'
  <2>1. CASE new.settings = NoFile /\ old.settings # NoFile /\ home.db = NoFile /\ new.db # NoFile
    <3>1. f = "db" /\ home.settings = NoFile
      BY <1>4, <2>1
    <3> QED BY <1>1, <1>2, <1>3, <2>1, <3>1 DEF WholeInv, SettingsInv, Wanted, new
  <2>2. CASE ~(new.settings = NoFile /\ old.settings # NoFile /\ home.db = NoFile /\ new.db # NoFile)
    <3>1. new.settings = NoFile => home.settings = NoFile
      BY <1>2, <1>4
    <3>2. home.db # NoFile => new.db = home.db
      BY <1>4
    <3> QED BY <1>1, <1>3, <2>2, <3>1, <3>2 DEF WholeInv, SettingsInv, new
  <2> QED BY <2>1, <2>2
<1> QED BY <1>5, <1>6, <1>7, <1>8, <1>9, <1>10 DEF WholeInv

\* Quarantine: the database goes aside, then its log.
LEMMA QuarantineKeepsWhole == ASSUME WholeInv, SchemaInv, Quarantine PROVE WholeInv'
<1>1. /\ dir \in [Places -> Directories] /\ path \in {"home", "custom"} /\ path \in Places
      /\ dir[path] \in Directories /\ dir[path].db \in Good \cup {NoFile}
      /\ phase = "quarantine" /\ marker = NoFile /\ UNCHANGED <<marker, path, made, cutShort>>
  BY DEF SchemaInv, Places, Quarantine, WholeInv, ListInv
<1>2. CASE dir[path].db = NoFile /\ dir[path].wal = NoFile
  <2>1. UNCHANGED <<dir, aside>> /\ phase' = "reopen"
    BY <1>2 DEF Quarantine, Go
  <2> QED BY <1>1, <1>2, <2>1, Idle
<1>3. ASSUME NEW f \in {"db", "wal"}, dir[path][f] # NoFile, f = "wal" => dir[path].db = NoFile,
             aside' = aside \cup {[name |-> f, file |-> dir[path][f]]},
             dir' = [dir EXCEPT ![path][f] = NoFile], phase' = "quarantine"
      PROVE  WholeInv'
  <2> DEFINE new == dir'[path]
  <2>1. /\ new[f] = NoFile /\ new.settings = dir[path].settings
        /\ f = "db" => new.wal = dir[path].wal
        /\ f = "wal" => new.db = NoFile
        /\ \A p \in Places : p # path => dir'[p] = dir[p]
    BY <1>1, <1>3 DEF Directories
  <2> DEFINE taken == [name |-> f, file |-> dir[path][f]]
  <2>2. aside' = aside \cup {taken} /\ taken.name = f /\ taken.file = dir[path][f]
    BY <1>3
  <2>3. dir'["legacy"] = dir["legacy"]
    BY <1>1, <2>1 DEF Places
  <2>4. new.db = NoFile
    BY <2>1
  <2> HIDE DEF taken, new
  <2>5. OldInv' /\ SoundInv' /\ ListInv' /\ EmptyInv'
    <3>1. OldInv' /\ SoundInv' /\ ListInv'
      BY <1>1, <1>3, <2>3 DEF WholeInv, OldInv, SoundInv, ListInv
    <3>2. EmptyInv'
      BY <2>1, <2>4 DEF WholeInv, EmptyInv, new
    <3> QED BY <3>1, <3>2
  <2>6. LogInv'
    <3>1. ASSUME ~cutShort, NEW p \in {"home", "custom"}, p # path
          PROVE  Whole(dir'[p]) /\ (dir'[p].db = NoFile => dir'[p].wal = NoFile)
      <4>1. dir'[p] = dir[p]
        BY <2>1, <3>1 DEF Places
      <4> QED BY <1>1, <3>1, <4>1 DEF WholeInv, LogInv, Copying
    <3>2. Whole(dir'[path])
      BY <2>4 DEF Whole, new
    <3> QED BY <1>1, <1>3, <3>1, <3>2 DEF LogInv, Copying
  <2>7. AsideInv'
    <3> SUFFICES ASSUME ~cutShort, NEW g \in aside', g.name = "db", g.file.walled
                 PROVE  \/ \E h \in aside' : h.name = "wal" /\ h.file = g.file.line
                        \/ /\ new.db = NoFile /\ new.wal = g.file.line /\ new.wal # NoFile
      BY <1>1, <1>3 DEF AsideInv, new
    <3>1. CASE f = "db" /\ g \in aside
      BY <1>3, <2>2, <3>1 DEF WholeInv, AsideInv
    <3>2. CASE f = "db" /\ g = taken
      <4>1. g.file = dir[path].db /\ dir[path].db \in Databases /\ dir[path].db.line \in Nat
        BY <1>1, <1>3, <2>2, <3>2 DEF Good, Databases
      <4>2. Whole(dir[path])
        BY <1>1 DEF WholeInv, LogInv
      <4>3. new.wal = g.file.line /\ g.file.line # NoFile
        BY <1>3, <2>1, <3>2, <4>1, <4>2, NoFileAssumption DEF Whole
      <4> QED BY <2>4, <4>3
    <3>3. CASE f = "wal"
      <4>1. g \in aside
        BY <2>2, <3>3
      <4>2. CASE \E h \in aside : h.name = "wal" /\ h.file = g.file.line
        BY <2>2, <4>2
      <4>3. CASE dir[path].wal = g.file.line
        BY <2>2, <3>3, <4>3
      <4> QED BY <4>1, <4>2, <4>3 DEF WholeInv, AsideInv
    <3> QED BY <2>2, <3>1, <3>2, <3>3
  <2>8. KeptInv'
    <3> SUFFICES ASSUME NEW line \in made
                 PROVE  \/ \E g \in aside' : g.name = "db" /\ Populated(g.file) /\ g.file.line = line
                        \/ \E p \in Places : Populated(dir'[p].db) /\ dir'[p].db.line = line
      BY <1>1 DEF KeptInv
    <3>1. CASE \E g \in aside : g.name = "db" /\ Populated(g.file) /\ g.file.line = line
      BY <2>2, <3>1
    <3>2. CASE \E p \in Places : Populated(dir[p].db) /\ dir[p].db.line = line
      <4>1. PICK p \in Places : Populated(dir[p].db) /\ dir[p].db.line = line
        BY <3>2
      <4>2. CASE p = path
        <5>1. f = "db"
          BY <1>3, <4>1, <4>2 DEF Populated
        <5> QED BY <2>2, <4>1, <4>2, <5>1
      <4>3. CASE p # path
        BY <2>1, <4>1, <4>3
      <4> QED BY <4>2, <4>3
    <3> QED BY <3>1, <3>2 DEF WholeInv, KeptInv
  <2>9. SettingsInv'
    <3>1. CASE path = "home"
      BY <1>1, <2>1, <2>4, <3>1 DEF WholeInv, SettingsInv, Places, new
    <3>2. CASE path = "custom"
      BY <1>1, <2>1, <2>4, <3>2 DEF WholeInv, SettingsInv, Places, new
    <3> QED BY <1>1, <3>1, <3>2
  <2> QED BY <2>5, <2>6, <2>7, <2>8, <2>9 DEF WholeInv
<1>4. CASE ~(dir[path].db = NoFile /\ dir[path].wal = NoFile)
  <2> DEFINE first == {f \in {"db", "wal"} : dir[path][f] # NoFile /\ (f = "wal" => dir[path].db = NoFile)}
  <2>1. first # {}
    <3>1. dir[path]["db"] = dir[path].db /\ dir[path]["wal"] = dir[path].wal
      OBVIOUS
    <3>2. "db" \in first \/ "wal" \in first
      BY <1>4, <3>1
    <3> QED BY <3>2
  <2>2. \E f \in first : /\ aside' = aside \cup {[name |-> f, file |-> dir[path][f]]}
                         /\ dir' = [dir EXCEPT ![path][f] = NoFile]
                         /\ phase' = "quarantine"
    BY <1>1, <2>1 DEF Quarantine, Aside
  <2>3. PICK f \in {"db", "wal"} :
          /\ dir[path][f] # NoFile /\ (f = "wal" => dir[path].db = NoFile)
          /\ aside' = aside \cup {[name |-> f, file |-> dir[path][f]]}
          /\ dir' = [dir EXCEPT ![path][f] = NoFile]
          /\ phase' = "quarantine"
    BY <2>2
  <2> QED BY <1>3, <2>3
<1> QED BY <1>2, <1>4

LEMMA DamageKeepsWhole == ASSUME WholeInv, SchemaInv, Damage PROVE WholeInv'
<1> DEFINE db == dir["home"].db
           new == [db EXCEPT !.state = "damaged"]
<1>1. /\ dir \in [Places -> Directories] /\ db \in Good /\ dir["home"] \in Directories
      /\ phase = "down" /\ UNCHANGED <<aside, marker, phase, path, made, cutShort>>
      /\ db # NoFile /\ dir' = [dir EXCEPT !["home"].db = new]
  BY DEF SchemaInv, Places, Damage, Populated
<1>2. /\ new.line = db.line /\ new.populated = db.populated /\ new.walled = db.walled
      /\ new.state = "damaged" /\ new.version = db.version /\ new.parts = db.parts
      /\ new \in Databases /\ new # NoFile
  BY <1>1, NoFileAssumption DEF Good, Databases
<1> HIDE DEF new
<1>3. /\ dir'["home"].db = new /\ dir'["home"].wal = dir["home"].wal
      /\ dir'["home"].settings = dir["home"].settings
      /\ dir'["legacy"] = dir["legacy"] /\ dir'["custom"] = dir["custom"]
  BY <1>1 DEF Places, Directories
<1>4. OldInv' /\ SoundInv' /\ AsideInv'
  BY <1>1, <1>3 DEF WholeInv, OldInv, SoundInv, AsideInv
<1>5. ListInv'
  <2>1. \A list : Wanted(list) => Wanted(list)'
    BY <1>1, <1>3 DEF Wanted
  <2> QED BY <1>1, <2>1 DEF WholeInv, ListInv
<1>6. EmptyInv'
  <2>1. Empty(db)
    BY <1>1 DEF WholeInv, EmptyInv, Places
  <2> HIDE DEF db
  <2> QED BY <1>2, <1>3, <2>1 DEF WholeInv, EmptyInv, Empty, Places
<1>7. LogInv'
  <2>1. ASSUME ~cutShort PROVE Whole(dir'["home"])
    <3>1. Whole(dir["home"])
      BY <2>1 DEF WholeInv, LogInv
    <3> QED BY <1>1, <1>2, <1>3, <3>1 DEF Whole
  <2>2. ASSUME ~cutShort
        PROVE  /\ Whole(dir["custom"]) /\ (dir["custom"].db = NoFile => dir["custom"].wal = NoFile)
               /\ Copying => dir["home"].wal = dir["legacy"].wal
    BY <1>1, <2>2 DEF WholeInv, LogInv
  <2> QED BY <1>1, <1>2, <1>3, <2>1, <2>2 DEF LogInv, Copying
<1>8. KeptInv'
  <2>1. ASSUME NEW p \in Places, Populated(dir[p].db)
        PROVE  Populated(dir'[p].db) /\ dir'[p].db.line = dir[p].db.line
    BY <1>2, <1>3, <2>1 DEF Places, Populated
  <2> QED BY <1>1, <2>1 DEF WholeInv, KeptInv
<1>9. SettingsInv'
  BY <1>1, <1>2, <1>3 DEF WholeInv, SettingsInv
<1> QED BY <1>4, <1>5, <1>6, <1>7, <1>8, <1>9 DEF WholeInv

LEMMA WholeStep == SchemaInv /\ WholeInv /\ [Next]_vars => WholeInv'
<1> SUFFICES ASSUME SchemaInv, WholeInv, [Next]_vars PROVE WholeInv'
  OBVIOUS
<1>1. path \in {"home", "custom"} /\ (marker # NoFile => phase \in {"down", "marker", "copy"})
  BY DEF SchemaInv, WholeInv, ListInv
<1>2. CASE Start \/ ChoosePath
  <2>1. UNCHANGED <<dir, aside, made, marker, cutShort>> /\ path' \in {"home", "custom"}
        /\ phase \in {"down", "path"} /\ phase' \in {"marker", "open"} /\ (phase = "path" => marker = NoFile)
        /\ (phase = "down" => phase' = "marker")
    BY <1>1, <1>2 DEF Start, ChoosePath, Go
  <2> QED BY <1>1, <2>1, Idle
<1>3. CASE ReadMarker \/ WriteMarker \/ RemoveMarker
  BY <1>3, MarkerPreserves
<1>4. CASE Scan
  BY <1>4, ScanKeepsWhole
<1>5. CASE CopyFile
  BY <1>5, CopyKeepsWhole
<1>6. CASE OpenDatabase
  BY <1>6, OpenKeepsWhole
<1>7. CASE OpenFails \/ MigrationFails
  <2>1. UNCHANGED <<dir, aside, made, marker, cutShort>> /\ path' \in {"home", "custom"}
        /\ phase \in {"open", "reopen", "migrate"} /\ phase' \in {"quarantine", "open", "down"}
    BY <1>1, <1>7 DEF OpenFails, MigrationFails, GiveUp, Go
  <2> QED BY <1>1, <2>1, Idle
<1>8. CASE Quarantine
  BY <1>8, QuarantineKeepsWhole
<1>9. CASE Bootstrap \/ Migrate
  BY <1>9, SchemaKeepsWhole
<1>10. CASE Store \/ Close
  BY <1>10, UpKeepsWhole
<1>11. CASE Crash
  <2>1. UNCHANGED <<dir, aside, made, marker, path>> /\ phase' = "down"
        /\ cutShort' = (cutShort \/ (phase = "quarantine" /\ dir[path].db = NoFile /\ dir[path].wal # NoFile))
    BY <1>11 DEF Crash, Go
  <2> QED BY <1>1, <2>1, Idle
<1>12. CASE Damage
  BY <1>12, DamageKeepsWhole
<1>13. CASE UNCHANGED vars
  BY <1>13 DEF vars, WholeInv, OldInv, ListInv, Wanted, EmptyInv, LogInv, Whole, Copying, SoundInv,
               AsideInv, KeptInv, SettingsInv
<1> QED BY <1>2, <1>3, <1>4, <1>5, <1>6, <1>7, <1>8, <1>9, <1>10, <1>11, <1>12, <1>13
        DEF Next, Begin, Settle

\* The inductive invariant of the files.
THEOREM WholeInvariant == Spec => [](SchemaInv /\ WholeInv)
<1>1. Init => SchemaInv /\ WholeInv
  BY SchemaInit, WholeInit
<1>2. (SchemaInv /\ WholeInv) /\ [Next]_vars => (SchemaInv /\ WholeInv)'
  BY SchemaStep, WholeStep
<1> QED BY <1>1, <1>2, PTL DEF Spec

\* migration.ts, "an interrupted migration resumable before SQLite is opened":
\* the database that a runtime opens has all of its commits and none of
\* another's, and a copy of the old one has the old settings, however often the
\* copy was cut short.
THEOREM OpenedWholeCorrect == Spec => []OpenedWhole
<1>1. SchemaInv /\ WholeInv => OpenedWhole
  <2> SUFFICES ASSUME SchemaInv, WholeInv, phase = "up"
               PROVE  /\ ~cutShort => dir[path].db.state = "sound"
                      /\ dir[path].db.line = 1 /\ dir["legacy"].settings # NoFile
                            => dir["home"].settings # NoFile
    BY DEF OpenedWhole
  <2>1. dir[path].db \in Databases /\ path \in {"home", "custom"} /\ marker = NoFile
        /\ dir[path].db # NoFile /\ dir[path].db.state # "damaged"
    BY NoFileAssumption DEF SchemaInv, Good, WholeInv, ListInv, SoundInv
  <2>2. ~cutShort => dir[path].db.state # "torn"
    BY <2>1 DEF WholeInv, LogInv, Whole
  <2> QED BY <2>1, <2>2 DEF Databases, WholeInv, SettingsInv
<1> QED BY <1>1, WholeInvariant, PTL

\* db.ts, "preserved on disk for manual recovery, never deleted": every database
\* that there was is in place or set aside, with the log that has commits of it,
\* whatever is copied, damaged, cut short or does not open, unless a quarantine
\* was cut short.
THEOREM NothingLostCorrect == Spec => []NothingLost
<1>1. SchemaInv /\ WholeInv => NothingLost
  <2> SUFFICES ASSUME SchemaInv, WholeInv, ~cutShort
               PROVE  LET set == {g.file : g \in {f \in aside : f.name = "db"}}
                          logs == {g.file : g \in {f \in aside : f.name = "wal"}}
                      IN /\ \A line \in made : \E f \in set \cup {dir[p].db : p \in DOMAIN dir} :
                               f # NoFile /\ f.line = line
                         /\ \A f \in set : f.walled => f.line \in logs \cup {dir[p].wal : p \in DOMAIN dir}
    BY DEF NothingLost
  <2> DEFINE set == {g.file : g \in {f \in aside : f.name = "db"}}
             logs == {g.file : g \in {f \in aside : f.name = "wal"}}
  <2>1. DOMAIN dir = Places /\ path \in Places
    BY DEF SchemaInv, Places
  <2>2. ASSUME NEW line \in made
        PROVE  \E f \in set \cup {dir[p].db : p \in DOMAIN dir} : f # NoFile /\ f.line = line
    BY <2>1, <2>2 DEF WholeInv, KeptInv, Populated
  <2>3. ASSUME NEW f \in set, f.walled
        PROVE  f.line \in logs \cup {dir[p].wal : p \in DOMAIN dir}
    BY <2>1, <2>3 DEF WholeInv, AsideInv
  <2> QED BY <2>2, <2>3
<1> QED BY <1>1, WholeInvariant, PTL

-----------------------------------------------------------------------------

(***************************************************************************)
(* A start comes to its end: there is no way back in it but by a fault.    *)
(***************************************************************************)
Count(file) == IF file = NoFile THEN 0 ELSE 1

\* The steps that are left to an open database, at most.
StepsToDo ==
    CASE phase = "down" -> 23 [] phase = "marker" -> 22 [] phase = "scan" -> 21
      [] phase = "mark" -> 20
      [] phase = "copy" -> 16 + Len(todo)
      [] phase = "path" -> 15
      [] phase = "open" -> 14
      [] phase = "quarantine" -> 11 + Count(dir[path].db) + Count(dir[path].wal)
      [] phase = "reopen" -> 10
      [] phase = "migrate" -> 1 + Len(todo)
      [] phase = "bootstrap" -> 1 + (IF dir[path].db.parts = Parts THEN 0 ELSE 1)
      [] OTHER -> 0

\* What is opened again after a quarantine is a new file, which always opens.
ReopenInv == phase = "reopen" => dir[path].db = NoFile

LEMMA ListsAreShort ==
    \A list \in Lists \cup {<<>>} :
        /\ Len(list) \in 0..3
        /\ list # <<>> => Tail(list) \in Lists \cup {<<>>} /\ Len(Tail(list)) = Len(list) - 1
<1>1. /\ Len(<<"settings">>) = 1 /\ Len(<<"db">>) = 1 /\ Len(<<"wal", "db">>) = 2
      /\ Len(<<"db", "settings">>) = 2 /\ Len(<<"wal", "db", "settings">>) = 3 /\ Len(<<>>) = 0
  OBVIOUS
<1>2. /\ Tail(<<"settings">>) = <<>> /\ Tail(<<"db">>) = <<>> /\ Tail(<<"wal", "db">>) = <<"db">>
      /\ Tail(<<"db", "settings">>) = <<"settings">>
      /\ Tail(<<"wal", "db", "settings">>) = <<"db", "settings">>
  OBVIOUS
<1> SUFFICES ASSUME NEW list \in Lists \cup {<<>>}
             PROVE  /\ Len(list) \in 0..3
                    /\ list # <<>> => Tail(list) \in Lists \cup {<<>>} /\ Len(Tail(list)) = Len(list) - 1
  OBVIOUS
<1>3. CASE list = <<>>
  BY <1>1, <1>3
<1>4. CASE list = <<"settings">>
  BY <1>1, <1>2, <1>4
<1>5. CASE list = <<"db">>
  BY <1>1, <1>2, <1>5
<1>6. CASE list = <<"wal", "db">>
  <2>1. Tail(list) = <<"db">>
    BY <1>2, <1>6
  <2>2. Len(list) = 2 /\ Len(Tail(list)) = 1
    BY <1>1, <1>6, <2>1
  <2> QED BY <2>1, <2>2 DEF Lists
<1>7. CASE list = <<"db", "settings">>
  <2>1. Tail(list) = <<"settings">>
    BY <1>2, <1>7
  <2>2. Len(list) = 2 /\ Len(Tail(list)) = 1
    BY <1>1, <1>7, <2>1
  <2> QED BY <2>1, <2>2 DEF Lists
<1>8. CASE list = <<"wal", "db", "settings">>
  <2>1. Tail(list) = <<"db", "settings">>
    BY <1>2, <1>8
  <2>2. Len(list) = 3 /\ Len(Tail(list)) = 2
    BY <1>1, <1>8, <2>1
  <2> QED BY <2>1, <2>2 DEF Lists
<1> QED BY <1>3, <1>4, <1>5, <1>6, <1>7, <1>8 DEF Lists

LEMMA MigrationsAreFew ==
    ASSUME NEW v \in 1..SchemaVersion
    PROVE  Len(StepsAfter(v)) = SchemaVersion - v
<1>1. v \in 1..5 /\ SchemaVersion = 5 /\ 5 - v \in Nat
  BY DEF SchemaVersion
<1> QED BY <1>1 DEF StepsAfter

LEMMA ReopenStep == ReopenInv /\ SchemaInv /\ [Next]_vars => ReopenInv'
<1> SUFFICES ASSUME ReopenInv, SchemaInv, [Next]_vars, phase' = "reopen" PROVE dir'[path'].db = NoFile
  BY DEF ReopenInv
<1>1. CASE UNCHANGED vars
  BY <1>1 DEF vars, ReopenInv
<1>2. CASE Begin \/ Store \/ Close \/ Crash \/ Damage
  BY <1>2 DEF Begin, Store, Close, Crash, Damage, Start, ReadMarker, Scan, WriteMarker, CopyFile,
     RemoveMarker, ChoosePath, Go
<1>3. CASE MigrationFails
  BY <1>3 DEF MigrationFails, GiveUp, Go
<1>4. CASE OpenDatabase
  BY <1>4 DEF OpenDatabase, Go
<1>5. CASE OpenFails
  BY <1>5 DEF OpenFails, GiveUp, Go
<1>6. CASE Quarantine
  <2> DEFINE first == {f \in {"db", "wal"} : dir[path][f] # NoFile /\ (f = "wal" => dir[path].db = NoFile)}
  <2>1. first = {}
    BY <1>6 DEF Quarantine, Go
  <2>2. dir[path]["db"] = NoFile
    BY <2>1
  <2>3. UNCHANGED <<dir, path>>
    BY <1>6, <2>1 DEF Quarantine
  <2> QED BY <2>2, <2>3
<1>7. CASE Bootstrap \/ Migrate
  BY <1>7 DEF Bootstrap, Migrate, Go
<1> QED BY <1>1, <1>2, <1>3, <1>4, <1>5, <1>6, <1>7 DEF Next, Settle

LEMMA BeginFalls ==
    ASSUME SchemaInv, WholeInv, Begin
    PROVE  StepsToDo \in 1..23 /\ StepsToDo' < StepsToDo
<1>1. CASE Start \/ ChoosePath
  BY <1>1 DEF Start, ChoosePath, Go, StepsToDo
<1>2. CASE ReadMarker
  <2>1. CASE marker # NoFile
    <3>1. marker \in Lists \cup {<<>>} /\ todo' = marker /\ phase = "marker" /\ phase' = "copy"
      BY <1>2, <2>1 DEF ReadMarker, Go, WholeInv, ListInv, Wanted
    <3>2. Len(todo') \in 0..3
      BY <3>1, ListsAreShort
    <3> DEFINE n == Len(todo')
    <3>3. n \in 0..3 /\ StepsToDo = 22 /\ StepsToDo' = 16 + n
      BY <3>1, <3>2 DEF StepsToDo
    <3> HIDE DEF n
    <3> QED BY <3>3
  <2>2. CASE marker = NoFile
    BY <1>2, <2>2 DEF ReadMarker, Go, StepsToDo
  <2> QED BY <2>1, <2>2
<1>3. CASE Scan
  <2>1. phase = "scan" /\ phase' \in {"path", "mark"}
    BY <1>3 DEF Scan, Go
  <2> QED BY <2>1 DEF StepsToDo
<1>4. CASE WriteMarker
  <2>1. todo \in Lists \cup {<<>>} /\ todo' = todo /\ phase = "mark" /\ phase' = "copy"
    BY <1>4 DEF WriteMarker, Go, WholeInv, ListInv, Wanted
  <2>2. Len(todo') \in 0..3
    BY <2>1, ListsAreShort
  <2> DEFINE n == Len(todo')
  <2>3. StepsToDo = 20 /\ StepsToDo' = 16 + n
    BY <2>1 DEF StepsToDo
  <2>4. n \in 0..3
    BY <2>2
  <2> HIDE DEF n
  <2> QED BY <2>3, <2>4
<1>5. CASE CopyFile
  <2>1. todo \in Lists \cup {<<>>} /\ todo # <<>> /\ todo' = Tail(todo) /\ phase = "copy" /\ phase' = "copy"
    BY <1>5 DEF CopyFile, WholeInv, ListInv
  <2>2. Len(todo) \in 0..3 /\ Len(todo') = Len(todo) - 1
    BY <2>1, ListsAreShort
  <2>3. StepsToDo = 16 + Len(todo) /\ StepsToDo' = 16 + Len(todo')
    BY <2>1 DEF StepsToDo
  <2> DEFINE n == Len(todo)
             m == Len(todo')
  <2>4. n \in 0..3 /\ m = n - 1 /\ StepsToDo = 16 + n /\ StepsToDo' = 16 + m
    BY <2>2, <2>3
  <2> HIDE DEF n, m
  <2> QED BY <2>4
<1>6. CASE RemoveMarker
  <2>1. Len(todo) = 0 /\ phase = "copy" /\ phase' = "path"
    BY <1>6 DEF RemoveMarker, Go
  <2> QED BY <2>1 DEF StepsToDo
<1> QED BY <1>1, <1>2, <1>3, <1>4, <1>5, <1>6 DEF Begin

LEMMA SettleFalls ==
    ASSUME SchemaInv, ReopenInv, Settle, faults' = faults, faults \in Nat
    PROVE  StepsToDo \in 1..23 /\ StepsToDo' < StepsToDo
<1>0. /\ dir \in [Places -> Directories] /\ path \in {"home", "custom"} /\ path \in Places
      /\ NoFile \notin Databases
  BY NoFileAssumption DEF SchemaInv, Places
<1>1. CASE OpenDatabase
  <2> DEFINE files == Replayed(dir[path], NewLine)
  <2>1. /\ phase \in {"open", "reopen"} /\ phase' \in {"bootstrap", "migrate", "up"}
        /\ todo' = StepsAfter(files.db.version)
        /\ phase' = "migrate" => Old(files.db)
    <3>1. phase' = CASE files.db.version = 0 -> "bootstrap" [] Old(files.db) -> "migrate" [] OTHER -> "up"
      BY <1>1 DEF OpenDatabase, Go
    <3>2. phase \in {"open", "reopen"} /\ todo' = StepsAfter(files.db.version)
      BY <1>1 DEF OpenDatabase
    <3> HIDE DEF files
    <3> QED BY <3>1, <3>2
  <2>2. StepsToDo \in {14, 10}
    BY <2>1 DEF StepsToDo
  <2> HIDE DEF files
  <2>3. StepsToDo' \in 0..5
    <3>1. CASE phase' = "migrate"
      <4>1. files.db.version \in 1..4 /\ SchemaVersion = 5
        BY <2>1, <3>1 DEF Old, SchemaVersion
      <4>2. Len(todo') = 5 - files.db.version
        BY <2>1, <4>1, MigrationsAreFew
      <4>3. StepsToDo' = 1 + Len(todo')
        BY <3>1 DEF StepsToDo
      <4> QED BY <4>1, <4>2, <4>3
    <3>2. CASE phase' = "bootstrap" \/ phase' = "up"
      BY <3>2 DEF StepsToDo
    <3> QED BY <2>1, <3>1, <3>2
  <2> QED BY <2>2, <2>3
<1>2. CASE OpenFails
  <2>1. phase \in {"open", "reopen"} /\ Unusable(dir[path].db)
    BY <1>2 DEF OpenFails, Fault
  <2>2. phase = "open" /\ phase' = "quarantine" /\ dir' = dir /\ path' = path
    BY <1>2, <2>1 DEF OpenFails, ReopenInv, Unusable, Go
  <2>3. Count(dir'[path'].db) \in 0..1 /\ Count(dir'[path'].wal) \in 0..1
    BY DEF Count
  <2> QED BY <2>2, <2>3 DEF StepsToDo
<1>3. CASE Quarantine
  <2> DEFINE first == {f \in {"db", "wal"} : dir[path][f] # NoFile /\ (f = "wal" => dir[path].db = NoFile)}
  <2>0. phase = "quarantine" /\ path' = path
    BY <1>3 DEF Quarantine
  <2>1. StepsToDo = 11 + Count(dir[path].db) + Count(dir[path].wal)
    BY <2>0 DEF StepsToDo
  <2>2. Count(dir[path].db) \in 0..1 /\ Count(dir[path].wal) \in 0..1
    BY DEF Count
  <2>3. CASE first = {}
    <3>1. phase' = "reopen"
      BY <1>3, <2>3 DEF Quarantine, Go
    <3>2. StepsToDo' = 10
      BY <3>1 DEF StepsToDo
    <3> QED BY <2>1, <2>2, <3>2
  <2>4. CASE first # {}
    <3>1. PICK f \in first : dir' = [dir EXCEPT ![path][f] = NoFile] /\ phase' = phase
      BY <1>3, <2>4 DEF Quarantine
    <3>2. dir[path] \in Directories
      BY <1>0
    <3>3. StepsToDo' = 11 + Count(dir'[path].db) + Count(dir'[path].wal)
      BY <2>0, <3>1 DEF StepsToDo
    <3>4. CASE f = "db"
      <4>1. dir'[path].db = NoFile /\ dir'[path].wal = dir[path].wal /\ dir[path].db # NoFile
        BY <1>0, <3>1, <3>2, <3>4 DEF Directories
      <4> QED BY <2>1, <2>2, <3>3, <4>1 DEF Count
    <3>5. CASE f = "wal"
      <4>1. dir'[path].wal = NoFile /\ dir'[path].db = dir[path].db /\ dir[path].wal # NoFile
        BY <1>0, <3>1, <3>2, <3>5 DEF Directories
      <4> QED BY <2>1, <2>2, <3>3, <4>1 DEF Count
    <3> QED BY <3>1, <3>4, <3>5
  <2> QED BY <2>3, <2>4
<1>4. CASE Bootstrap
  <2> DEFINE db == dir[path].db
  <2>0. phase = "bootstrap" /\ path' = path /\ db \in Databases /\ dir[path] \in Directories
    BY <1>0, <1>4 DEF Bootstrap, SchemaInv, Good
  <2>1. CASE /\ db.parts # Parts /\ phase' = phase
             /\ dir' = [dir EXCEPT ![path].db = [db EXCEPT !.parts = Parts, !.populated = TRUE]]
    <3>1. dir'[path].db.parts = Parts
      BY <1>0, <2>0, <2>1 DEF Databases, Directories
    <3> QED BY <2>0, <2>1, <3>1 DEF StepsToDo
  <2>2. CASE db.parts = Parts /\ phase' = "up"
    BY <2>0, <2>2 DEF StepsToDo
  <2> QED BY <1>4, <2>1, <2>2 DEF Bootstrap, SetDb, Go
<1>5. CASE Migrate
  <2>1. PICK k \in dir[path].db.version..SchemaVersion : todo = StepsAfter(k)
    BY <1>5 DEF Migrate, SchemaInv, Between
  <2>2. k \in 1..SchemaVersion /\ SchemaVersion = 5
    <3>1. dir[path].db.version \in 1..SchemaVersion - 1
      BY <1>5 DEF Migrate, SchemaInv, Between
    <3> QED BY <2>1, <3>1 DEF SchemaVersion
  <2>3. Len(todo) = 5 - k
    BY <2>1, <2>2, MigrationsAreFew
  <2>4. StepsToDo = 1 + Len(todo) /\ StepsToDo \in 1..5
    <3>1. phase = "migrate"
      BY <1>5 DEF Migrate
    <3> QED BY <2>2, <2>3, <3>1 DEF StepsToDo
  <2>5. CASE todo # <<>>
    <3>1. todo' = Tail(todo) /\ phase' = "migrate"
      BY <1>5, <2>5 DEF Migrate
    <3>2. k < SchemaVersion /\ todo' = StepsAfter(k + 1)
      BY <2>1, <2>2, <2>5, <3>1, NextStep
    <3>3. k + 1 \in 1..SchemaVersion
      BY <2>2, <3>2
    <3>4. Len(todo') = 5 - (k + 1)
      BY <2>2, <3>2, <3>3, MigrationsAreFew
    <3>5. StepsToDo' = 1 + Len(todo')
      BY <3>1 DEF StepsToDo
    <3> QED BY <2>2, <2>3, <2>4, <3>4, <3>5
  <2>6. CASE todo = <<>>
    <3>1. phase' = "up"
      BY <1>5, <2>6 DEF Migrate, Go
    <3>2. StepsToDo' = 0
      BY <3>1 DEF StepsToDo
    <3> QED BY <2>4, <3>2
  <2> QED BY <2>5, <2>6
<1> QED BY <1>1, <1>2, <1>3, <1>4, <1>5 DEF Settle

\* Until its database is open, a step of a start leaves fewer to be done, 23 at
\* most, or is a fault: it comes back to no earlier point by itself, however the
\* copy, the quarantine and the migration of before it were cut short.
THEOREM StartEnds ==
    Spec => [][phase # "up" => faults' = faults + 1 \/ (StepsToDo \in 1..23 /\ StepsToDo' < StepsToDo)]_vars
<1>1. Init => ReopenInv /\ faults \in Nat
  BY DEF Init, ReopenInv
<1>2. (ReopenInv /\ faults \in Nat) /\ SchemaInv /\ [Next]_vars => (ReopenInv /\ faults \in Nat)'
  <2>1. faults \in Nat /\ [Next]_vars => faults' \in Nat
    <3> SUFFICES ASSUME faults \in Nat, [Next]_vars PROVE faults' = faults \/ faults' = faults + 1
      OBVIOUS
    <3> QED BY DEF Next, vars, Begin, Settle, Store, Close, Crash, Damage, MigrationFails, Start,
          ReadMarker, Scan, WriteMarker, CopyFile, RemoveMarker, ChoosePath, OpenDatabase, OpenFails,
          Quarantine, Bootstrap, Migrate, Fault
  <2> QED BY <2>1, ReopenStep
<1>3. SchemaInv /\ WholeInv /\ ReopenInv /\ faults \in Nat /\ [Next]_vars
        => [phase # "up" => faults' = faults + 1 \/ (StepsToDo \in 1..23 /\ StepsToDo' < StepsToDo)]_vars
  <2> SUFFICES ASSUME SchemaInv, WholeInv, ReopenInv, faults \in Nat, Next, phase # "up", faults' # faults + 1
               PROVE  StepsToDo \in 1..23 /\ StepsToDo' < StepsToDo
    OBVIOUS
  <2>1. CASE Begin
    BY <2>1, BeginFalls
  <2>2. CASE Settle
    <3>1. faults' = faults
      BY <2>2 DEF Settle, OpenDatabase, OpenFails, Quarantine, Bootstrap, Migrate, Fault
    <3> QED BY <2>2, <3>1, SettleFalls
  <2>3. CASE MigrationFails \/ Store \/ Close \/ Crash \/ Damage
    BY <2>3 DEF MigrationFails, Store, Close, Crash, Damage, Fault
  <2> QED BY <2>1, <2>2, <2>3 DEF Next
<1> QED BY <1>1, <1>2, <1>3, WholeInvariant, PTL DEF Spec
=============================================================================
