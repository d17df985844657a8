-------------------------- MODULE DurableLogProofs --------------------------
(***************************************************************************)
(* Proofs about DurableLog: whatever the operator configures, whatever     *)
(* database an earlier release has left, and wherever crashes and power    *)
(* losses cut start-up and posts off.                                      *)
(***************************************************************************)
EXTENDS DurableLog, WellFoundedInduction, TLAPS

(* A table is there or not, with some of the known columns. *)
Schemas == UNION {[T -> SUBSET Columns] : T \in SUBSET Tables}

(* What the file holds: the schema, the log and the counter. *)
Image == [schema : Schemas, messages : Seq(Nat), last_message_cursor : Nat]

(* A database as some release leaves it between transactions. *)
SoundImage(db) ==
    /\ db \in Image
    /\ KnownSchema(db.schema)
    /\ Len(db.messages) = db.last_message_cursor

(* Every image that a crash or a power loss can leave is sound. *)
DiskInv ==
    /\ SoundImage(synced)
    /\ unsynced \in Seq(Image)
    /\ \A k \in DOMAIN unsynced : SoundImage(unsynced[k])

(* The running process has the configuration of the operator, which cannot *)
(* change under it; opening the database is never refused.                 *)
RunInv ==
    /\ sources \in Environments
    /\ loaded = Load(sources)
    /\ process \in {"down", "opening", "serving", "stopped"}
    /\ process \in {"opening", "serving"} => loaded.ok /\ cfg = loaded.value
    /\ process = "opening" => cfg.storage.backend = "sqlite" /\ step < Len(Statements)
    /\ process = "serving" /\ cfg.storage.backend = "sqlite" => step = Len(Statements)
    /\ step \in 0 .. Len(Statements)
    /\ posted \in 0 .. MaxPosts
    /\ crashes \in 0 .. MaxCrashes
    /\ memory \in Seq(1 .. MaxPosts)

(* No statement that has run is needed again. *)
SchemaInv ==
    process \in {"opening", "serving"} /\ cfg.storage.backend = "sqlite" =>
        \A k \in 1 .. step : ~ Needed(Database, Statements[k])

(* The transaction works on the last commit and has added its message to   *)
(* it; a committed one is on stable storage if the process runs with full. *)
TxInv ==
    /\ tx = NoTx \/ process = "serving"
    /\ \/ tx = NoTx
       \/ /\ tx \in [at : {"read", "inserted", "routed"}, cursor : Nat, message : 1 .. MaxPosts,
                     db : Image]
          /\ cfg.storage.backend = "sqlite"
          /\ tx.cursor = Database.last_message_cursor + 1
          /\ tx.db.schema = Database.schema
          /\ tx.db.messages = IF tx.at = "read" THEN Database.messages
                              ELSE Append(Database.messages, tx.message)
          /\ tx.db.last_message_cursor =
               IF tx.at = "routed" THEN tx.cursor ELSE Database.last_message_cursor
       \/ /\ tx \in [at : {"committed"}, cursor : Nat, message : 1 .. MaxPosts, db : Image]
          /\ cfg.storage.backend = "sqlite"
          /\ tx.cursor \in DOMAIN Database.messages
          /\ Database.messages[tx.cursor] = tx.message
          /\ cfg.storage.synchronous = "full" => unsynced = <<>>
       \/ /\ tx \in [at : {"committed"}, cursor : Nat, message : 1 .. MaxPosts]
          /\ cfg.storage.backend = "memory"
          /\ tx.cursor \in DOMAIN memory
          /\ memory[tx.cursor] = tx.message

(* The message a client was told is where the client was told it is. *)
Kept(log, r) == r.cursor \in DOMAIN log /\ log[r.cursor] = r.message

(* A durable promise is kept by every image a power loss can leave. *)
PromiseInv ==
    \A r \in given :
        /\ r.backend = "sqlite" => Kept(Database.messages, r)
        /\ r.backend = "sqlite" /\ r.durable => \A db \in Images : Kept(db.messages, r)
        /\ r.backend # "sqlite" => process = "serving" /\ Kept(memory, r)

(* The inductive invariant. *)
LogInv == DiskInv /\ RunInv /\ SchemaInv /\ TxInv /\ PromiseInv

-----------------------------------------------------------------------------
(* FirstAssignment finds the first match, if there is one. *)
LEMMA FirstMatch ==
    ASSUME NEW file \in Seq(STRING \X STRING), NEW name
    PROVE  LET at == FirstAssignment(file, name) IN
           IF \E k \in DOMAIN file : file[k][1] = name
           THEN /\ at \in DOMAIN file /\ file[at][1] = name
                /\ \A k \in DOMAIN file : file[k][1] = name => at <= k
           ELSE at = 0
<1> DEFINE I == {i \in 1 .. Len(file) : file[i][1] = name}
<1>1. CASE I = {}
  BY <1>1 DEF FirstAssignment, SelectInSeq
<1>2. CASE I # {}
  <2>1. \E n \in I : \A m \in I : n <= m
    <3>1. I \subseteq Nat
      OBVIOUS
    <3> HIDE DEF I
    <3>2. PICK n \in I : \A m \in I : ~ (<<m, n>> \in OpToRel(<, Nat))
      BY <1>2, <3>1, WFMin, NatLessThanWellFounded
    <3>3. \A m \in I : ~ (m < n)
      BY <3>1, <3>2 DEF OpToRel
    <3> QED
      BY <3>1, <3>3
  <2>2. Min(I) \in I /\ \A m \in I : Min(I) <= m
    <3> HIDE DEF I
    <3> QED  BY <2>1, Zenon DEF Min
  <2>3. FirstAssignment(file, name) = Min(I)
    BY <1>2 DEF FirstAssignment, SelectInSeq
  <2>4. DOMAIN file = 1 .. Len(file)
    OBVIOUS
  <2> QED
    BY <2>2, <2>3, <2>4
<1> QED
  BY <1>1, <1>2

(* A file assigns the variable. *)
Assigns(file, name) == \E k \in DOMAIN file : file[k][1] = name

(* The first assignment in two files read one after the other is that of   *)
(* the first file, and that of the second only where the first has none.   *)
LEMMA FirstOfTwo ==
    ASSUME NEW env \in Seq(STRING \X STRING), NEW local \in Seq(STRING \X STRING), NEW name
    PROVE  LET files == env \o local
               at == FirstAssignment(files, name)
           IN  IF Assigns(env, name)
               THEN at # 0 /\ files[at] = env[FirstAssignment(env, name)]
               ELSE IF Assigns(local, name)
               THEN at # 0 /\ files[at] = local[FirstAssignment(local, name)]
               ELSE at = 0
<1> DEFINE files == env \o local
           at == FirstAssignment(files, name)
           inenv == FirstAssignment(env, name)
           inlocal == FirstAssignment(local, name)
<1>1. /\ DOMAIN env = 1 .. Len(env) /\ DOMAIN local = 1 .. Len(local)
      /\ DOMAIN files = 1 .. (Len(env) + Len(local))
      /\ Len(env) \in Nat /\ Len(local) \in Nat
      /\ files \in Seq(STRING \X STRING)
  OBVIOUS
<1>2. /\ \A k \in 1 .. Len(env) : files[k] = env[k]
      /\ \A k \in 1 .. Len(local) : files[Len(env) + k] = local[k]
      /\ \A k \in (Len(env) + 1) .. (Len(env) + Len(local)) : files[k] = local[k - Len(env)]
  OBVIOUS
<1>3. IF Assigns(env, name)
      THEN /\ inenv \in 1 .. Len(env) /\ env[inenv][1] = name
           /\ \A k \in 1 .. Len(env) : env[k][1] = name => inenv <= k
      ELSE inenv = 0
  BY <1>1, FirstMatch DEF Assigns
<1>4. IF Assigns(local, name)
      THEN /\ inlocal \in 1 .. Len(local) /\ local[inlocal][1] = name
           /\ \A k \in 1 .. Len(local) : local[k][1] = name => inlocal <= k
      ELSE inlocal = 0
  BY <1>1, FirstMatch DEF Assigns
<1> HIDE DEF files, inenv, inlocal
<1>5. IF Assigns(files, name)
      THEN /\ at \in DOMAIN files /\ files[at][1] = name
           /\ \A k \in DOMAIN files : files[k][1] = name => at <= k
      ELSE at = 0
  BY <1>1, FirstMatch DEF Assigns
<1> HIDE DEF at
<1>6. CASE Assigns(env, name)
  <2>1. inenv \in DOMAIN files /\ files[inenv][1] = name
    BY <1>1, <1>2, <1>3, <1>6
  <2>2. Assigns(files, name)
    BY <2>1 DEF Assigns
  <2>3. at <= inenv /\ at \in 1 .. Len(env)
    BY <1>1, <1>3, <1>5, <1>6, <2>1, <2>2
  <2>4. inenv <= at
    BY <1>1, <1>2, <1>3, <1>5, <1>6, <2>2, <2>3
  <2>5. at = inenv
    BY <2>3, <2>4, <1>3, <1>6, <1>1
  <2> QED
    BY <2>5, <2>3, <1>2, <1>1, <1>6 DEF files, at, inenv
<1>7. CASE ~ Assigns(env, name) /\ Assigns(local, name)
  <2>1. Len(env) + inlocal \in DOMAIN files /\ files[Len(env) + inlocal][1] = name
    BY <1>1, <1>2, <1>4, <1>7
  <2>2. Assigns(files, name)
    BY <2>1 DEF Assigns
  <2>3. at <= Len(env) + inlocal /\ at \in DOMAIN files /\ files[at][1] = name
    BY <1>5, <2>1, <2>2
  <2>4. at \notin 1 .. Len(env)
    BY <1>1, <1>2, <1>7, <2>3 DEF Assigns
  <2>5. at - Len(env) \in 1 .. Len(local) /\ files[at] = local[at - Len(env)]
    BY <1>1, <1>2, <2>3, <2>4
  <2>6. inlocal <= at - Len(env)
    BY <1>4, <1>7, <2>3, <2>5
  <2>7. at - Len(env) = inlocal /\ at # 0
    BY <2>3, <2>5, <2>6, <1>1, <1>4, <1>7
  <2> QED
    BY <2>5, <2>7, <1>7 DEF files, at, inlocal
<1>8. CASE ~ Assigns(env, name) /\ ~ Assigns(local, name)
  <2>1. ~ Assigns(files, name)
    <3> SUFFICES ASSUME NEW k \in DOMAIN files, files[k][1] = name
                 PROVE  FALSE
      BY DEF Assigns
    <3>1. CASE k \in 1 .. Len(env)
      BY <3>1, <1>1, <1>2, <1>8 DEF Assigns
    <3>2. CASE k \in (Len(env) + 1) .. (Len(env) + Len(local))
      <4>1. k - Len(env) \in 1 .. Len(local) /\ files[k] = local[k - Len(env)]
        BY <3>2, <1>1, <1>2
      <4> QED
        BY <4>1, <1>1, <1>8 DEF Assigns
    <3> QED
      BY <3>1, <3>2, <1>1
  <2> QED
    BY <2>1, <1>5, <1>8 DEF files, at
<1> QED
  BY <1>6, <1>7, <1>8

(* load_env_files gives every variable the text the operator asked for:    *)
(* the process environment, then the first assignment of the files.        *)
LEMMA AskedIsRead ==
    ASSUME sources \in Environments, NEW name, NEW default
    PROVE  OptString(LoadEnvFiles(sources), name, default) = Asked(name, default)
<1> DEFINE env == sources.env
           local == sources.env_local
           one == LoadEnvFile(sources.process, env)
<1>1. env \in Seq(STRING \X STRING) /\ local \in Seq(STRING \X STRING)
  BY DurableAssumption
<1>2. CASE name \in DOMAIN sources.process
  BY <1>2 DEF Asked, LoadEnvFiles, LoadEnvFile, OptString, Given
<1>3. CASE name \notin DOMAIN sources.process /\ Assigns(env, name)
  <2>1. name \in DOMAIN one /\ one[name] = env[FirstAssignment(env, name)][2]
    BY <1>3 DEF LoadEnvFile, Assigns
  <2>2. /\ name \in DOMAIN LoadEnvFile(one, local)
        /\ LoadEnvFile(one, local)[name] = env[FirstAssignment(env, name)][2]
    <3> HIDE DEF one
    <3> QED  BY <2>1 DEF LoadEnvFile
  <2> QED
    BY <1>1, <1>3, <2>2, FirstOfTwo DEF Asked, LoadEnvFiles, OptString, Given
<1>4. CASE name \notin DOMAIN sources.process /\ ~ Assigns(env, name)
  <2>1. name \notin DOMAIN one
    BY <1>4 DEF LoadEnvFile, Assigns
  <2>2. CASE Assigns(local, name)
    <3>1. /\ name \in DOMAIN LoadEnvFile(one, local)
          /\ LoadEnvFile(one, local)[name] = local[FirstAssignment(local, name)][2]
      <4> HIDE DEF one
      <4> QED  BY <2>1, <2>2 DEF LoadEnvFile, Assigns
    <3> QED
      BY <1>1, <1>4, <2>2, <3>1, FirstOfTwo DEF Asked, LoadEnvFiles, OptString, Given
  <2>3. CASE ~ Assigns(local, name)
    <3>1. name \notin DOMAIN LoadEnvFile(one, local)
      <4> HIDE DEF one
      <4> QED  BY <2>1, <2>3 DEF LoadEnvFile, Assigns
    <3> QED
      BY <1>1, <1>4, <2>3, <3>1, FirstOfTwo DEF Asked, LoadEnvFiles, OptString, Given
  <2> QED  BY <2>2, <2>3
<1> QED
  BY <1>2, <1>3, <1>4

(* A configuration that loads has the backend, and with sqlite the level   *)
(* of synchronous, that the operator asked for.                            *)
LEMMA LoadedConfig ==
    ASSUME sources \in Environments, Load(sources).ok
    PROVE  LET c == Load(sources).value IN
           /\ c.burst \in Nat
           /\ c.storage.backend \in {"memory", "sqlite"}
           /\ c.storage.backend = Asked("CORDN_STORAGE_BACKEND", "memory")
           /\ c.storage.backend = "sqlite" =>
                c.storage.synchronous =
                  IF Asked("CORDN_SQLITE_SYNCHRONOUS", "normal") \in FullTexts
                  THEN "full" ELSE "normal"
<1> DEFINE env == LoadEnvFiles(sources)
<1>1. Load(sources) = ReadServerConfig(env) /\ ReadServerConfig(env).ok
  <2>1. ~ Err.ok
    BY DEF Err
  <2>2. Load(sources) = Err \/ Load(sources) = ReadServerConfig(env)
    BY Zenon DEF Load
  <2> QED  BY <2>1, <2>2, Zenon
<1> HIDE DEF env
<1>2. /\ StorageOf(env).ok /\ PosInt(env, "CORDN_RATE_LIMIT_BURST", 160).ok
      /\ ReadServerConfig(env).value.storage = StorageOf(env).value
      /\ ReadServerConfig(env).value.burst = PosInt(env, "CORDN_RATE_LIMIT_BURST", 160).value
  <2> DEFINE burst == PosInt(env, "CORDN_RATE_LIMIT_BURST", 160)
  <2>1. /\ "storage" \in DOMAIN Reads(env) /\ Reads(env)["storage"] = StorageOf(env)
        /\ "burst" \in DOMAIN Reads(env) /\ Reads(env)["burst"] = burst
    BY DEF Reads
  <2>2. ~ Err.ok
    BY DEF Err
  <2>3. ReadServerConfig(env) = Ok([f \in DOMAIN Reads(env) |-> Reads(env)[f].value])
        /\ \A f \in DOMAIN Reads(env) : Reads(env)[f].ok
    BY <1>1, <2>2, Zenon DEF ReadServerConfig
  <2>4. ReadServerConfig(env).value = [f \in DOMAIN Reads(env) |-> Reads(env)[f].value]
    BY <2>3 DEF Ok
  <2> QED
    BY <2>1, <2>3, <2>4
<1>3. PosInt(env, "CORDN_RATE_LIMIT_BURST", 160).value \in Nat
  BY <1>2, TextsAssumption DEF PosInt, Ok, Err
<1>4. OptString(env, "CORDN_STORAGE_BACKEND", "memory") = Asked("CORDN_STORAGE_BACKEND", "memory")
  BY AskedIsRead, Zenon DEF env
<1>5. OptString(env, "CORDN_SQLITE_SYNCHRONOUS", "normal")
        = Asked("CORDN_SQLITE_SYNCHRONOUS", "normal")
  BY AskedIsRead, Zenon DEF env
<1>6. /\ StorageOf(env).value.backend \in {"memory", "sqlite"}
      /\ StorageOf(env).value.backend = Asked("CORDN_STORAGE_BACKEND", "memory")
      /\ StorageOf(env).value.backend = "sqlite" =>
           Synchronous(env).ok /\ StorageOf(env).value.synchronous = Synchronous(env).value
  <2> HIDE DEF Synchronous
  <2> QED  BY <1>2, <1>4 DEF StorageOf, Ok, Err
<1>7. Synchronous(env).ok =>
        Synchronous(env).value = IF Asked("CORDN_SQLITE_SYNCHRONOUS", "normal") \in FullTexts
                                 THEN "full" ELSE "normal"
  <2> HIDE DEF OptString
  <2> QED  BY <1>5 DEF Synchronous, Ok, Err, FullTexts, NormalTexts
<1> QED
  BY <1>1, <1>2, <1>3, <1>6, <1>7

-----------------------------------------------------------------------------
(* What the connection reads is one of the images. *)
LEMMA DatabaseSound ==
    ASSUME DiskInv
    PROVE  /\ SoundImage(Database)
           /\ Database \in Images
           /\ \A db \in Images : SoundImage(db)
           /\ unsynced # <<>> => Len(unsynced) \in DOMAIN unsynced /\ Database = unsynced[Len(unsynced)]
BY DEF DiskInv, Database, Images, ToSet, Last

(* A commit makes its database the one that is read, keeps the earlier     *)
(* images, and syncs at once under full.                                   *)
LEMMA CommitToDisk ==
    ASSUME DiskInv, NEW db, SoundImage(db), CommitTo(db)
    PROVE  /\ DiskInv'
           /\ Database' = db
           /\ Images' \subseteq Images \cup {db}
           /\ cfg.storage.synchronous = "full" => unsynced' = <<>>
<1>1. CASE cfg.storage.synchronous = "full"
  BY <1>1 DEF CommitTo, DiskInv, Database, Images, ToSet, Last
<1>2. CASE cfg.storage.synchronous # "full"
  <2>1. unsynced' = Append(unsynced, db) /\ synced' = synced /\ db \in Image
    BY <1>2 DEF CommitTo, SoundImage
  <2>2. /\ unsynced' \in Seq(Image)
        /\ Len(unsynced') = Len(unsynced) + 1
        /\ unsynced'[Len(unsynced) + 1] = db
        /\ \A k \in DOMAIN unsynced' : \/ unsynced'[k] = db
                                          \/ (k \in DOMAIN unsynced /\ unsynced'[k] = unsynced[k])
    BY <2>1 DEF DiskInv
  <2>3. unsynced' # <<>>
    BY <2>2 DEF DiskInv
  <2> QED
    BY <1>2, <2>1, <2>2, <2>3 DEF DiskInv, Database, Images, ToSet, Last
<1> QED  BY <1>1, <1>2

-----------------------------------------------------------------------------
(* The statements of init one by one, as the provers need them. *)
LEMMA StatementList ==
    /\ Len(Statements) = 9
    /\ DOMAIN Statements = 1 .. 9
    /\ Statements[1] = Create("key_packages", {"key_package_ref"})
    /\ Statements[2] = Create("welcomes", {"key_package_reference"})
    /\ Statements[3] = Create("join_requests", {"key_package_ref"})
    /\ Statements[4] = Alter("add", "welcomes", "join_after_cursor")
    /\ Statements[5] = Create("group_routing", {"last_message_cursor"})
    /\ Statements[6] = Create("group_messages", {"cursor"})
    /\ Statements[7] = Alter("drop", "group_messages", "ephemeral_sender_pubkey")
    /\ Statements[8] = Alter("drop", "group_messages", "epoch")
    /\ Statements[9] = Alter("drop", "group_routing", "latest_handshake_epoch")
BY DEF Statements

(* When each statement is needed. *)
LEMMA NeededForms ==
    ASSUME NEW db
    PROVE  /\ Needed(db, Statements[1]) <=> "key_packages" \notin DOMAIN db.schema
           /\ Needed(db, Statements[2]) <=> "welcomes" \notin DOMAIN db.schema
           /\ Needed(db, Statements[3]) <=> "join_requests" \notin DOMAIN db.schema
           /\ Needed(db, Statements[4]) <=> ~ HasColumn(db, "welcomes", "join_after_cursor")
           /\ Needed(db, Statements[5]) <=> "group_routing" \notin DOMAIN db.schema
           /\ Needed(db, Statements[6]) <=> "group_messages" \notin DOMAIN db.schema
           /\ Needed(db, Statements[7]) <=> HasColumn(db, "group_messages", "ephemeral_sender_pubkey")
           /\ Needed(db, Statements[8]) <=> HasColumn(db, "group_messages", "epoch")
           /\ Needed(db, Statements[9]) <=> HasColumn(db, "group_routing", "latest_handshake_epoch")
<1> HIDE DEF HasColumn
<1>1. ASSUME NEW t, NEW cs PROVE Needed(db, Create(t, cs)) <=> t \notin DOMAIN db.schema
  BY DEF Needed, Create
<1>2. ASSUME NEW t, NEW c PROVE Needed(db, Alter("add", t, c)) <=> ~ HasColumn(db, t, c)
  BY DEF Needed, Alter
<1>3. ASSUME NEW t, NEW c PROVE Needed(db, Alter("drop", t, c)) <=> HasColumn(db, t, c)
  BY DEF Needed, Alter
<1> QED
  BY StatementList, <1>1, <1>2, <1>3

(* What a migration leaves of the database: one table with its columns.    *)
LEMMA MigratedShape ==
    ASSUME NEW db, SoundImage(db), NEW s, s.table \in Tables,
           s.columns \subseteq KnownColumns[s.table],
           IF s.op = "drop" THEN LastingColumn[s.table] \notin s.columns /\ s.table \in DOMAIN db.schema
           ELSE s.table \in DOMAIN db.schema \/ LastingColumn[s.table] \in s.columns
    PROVE  /\ SoundImage(Migrated(db, s))
           /\ Migrated(db, s).messages = db.messages
           /\ DOMAIN Migrated(db, s).schema = DOMAIN db.schema \cup {s.table}
           /\ \A t \in DOMAIN db.schema : t # s.table =>
                Migrated(db, s).schema[t] = db.schema[t]
           /\ Migrated(db, s).schema[s.table] =
                LET old == IF s.table \in DOMAIN db.schema THEN db.schema[s.table] ELSE {}
                IN  IF s.op = "drop" THEN old \ s.columns ELSE old \cup s.columns
<1> DEFINE old == IF s.table \in DOMAIN db.schema THEN db.schema[s.table] ELSE {}
           new == IF s.op = "drop" THEN old \ s.columns ELSE old \cup s.columns
           schema == [t \in DOMAIN db.schema \cup {s.table} |->
                        IF t = s.table THEN new ELSE db.schema[t]]
<1>1. db \in Image /\ KnownSchema(db.schema) /\ Len(db.messages) = db.last_message_cursor
  BY DEF SoundImage
<1>2. Migrated(db, s) = [db EXCEPT !.schema = schema]
  BY DEF Migrated
<1>3. /\ new \subseteq KnownColumns[s.table]
      /\ LastingColumn[s.table] \in new
  <2> HIDE DEF KnownColumns, LastingColumn, Tables
  <2> QED  BY <1>1 DEF KnownSchema
<1> HIDE DEF new
<1>4. KnownSchema(schema)
  BY <1>1, <1>3 DEF KnownSchema
<1>5. schema \in Schemas
  <2>1. \A t \in Tables : KnownColumns[t] \subseteq Columns
    BY DEF Columns
  <2>2. \A t \in DOMAIN schema : schema[t] \in SUBSET Columns
    BY <2>1, <1>4 DEF KnownSchema
  <2>3. schema \in [DOMAIN schema -> SUBSET Columns]
    BY <2>2
  <2>4. DOMAIN schema \in SUBSET Tables
    BY <1>4 DEF KnownSchema
  <2> HIDE DEF schema
  <2> QED  BY <2>3, <2>4 DEF Schemas
<1> HIDE DEF schema
<1>6. /\ Migrated(db, s) \in Image
      /\ Migrated(db, s).schema = schema
      /\ Migrated(db, s).messages = db.messages
      /\ Migrated(db, s).last_message_cursor = db.last_message_cursor
  BY <1>1, <1>2, <1>5 DEF Image
<1>7. SoundImage(Migrated(db, s))
  BY <1>1, <1>4, <1>6 DEF SoundImage
<1> QED
  BY <1>6, <1>7 DEF schema, new

(* In terms of has_column: a migration adds or drops its columns only.     *)
LEMMA MigratedColumns ==
    ASSUME NEW db, SoundImage(db), NEW s, s.table \in Tables,
           s.columns \subseteq KnownColumns[s.table],
           IF s.op = "drop" THEN LastingColumn[s.table] \notin s.columns /\ s.table \in DOMAIN db.schema
           ELSE s.table \in DOMAIN db.schema \/ LastingColumn[s.table] \in s.columns
    PROVE  /\ SoundImage(Migrated(db, s))
           /\ Migrated(db, s).messages = db.messages
           /\ DOMAIN Migrated(db, s).schema = DOMAIN db.schema \cup {s.table}
           /\ \A t, c : HasColumn(Migrated(db, s), t, c) <=>
                IF s.op = "drop" THEN HasColumn(db, t, c) /\ ~ (t = s.table /\ c \in s.columns)
                ELSE HasColumn(db, t, c) \/ (t = s.table /\ c \in s.columns)
<1> DEFINE new == Migrated(db, s)
           old == IF s.table \in DOMAIN db.schema THEN db.schema[s.table] ELSE {}
<1>1. /\ SoundImage(new)
      /\ new.messages = db.messages
      /\ DOMAIN new.schema = DOMAIN db.schema \cup {s.table}
      /\ \A t \in DOMAIN db.schema : t # s.table => new.schema[t] = db.schema[t]
      /\ new.schema[s.table] = IF s.op = "drop" THEN old \ s.columns ELSE old \cup s.columns
  <2> HIDE DEF Tables, KnownColumns, LastingColumn
  <2> QED  BY MigratedShape
<1> HIDE DEF new
<1>2. ASSUME NEW t, NEW c
      PROVE  HasColumn(new, t, c) <=>
               IF s.op = "drop" THEN HasColumn(db, t, c) /\ ~ (t = s.table /\ c \in s.columns)
               ELSE HasColumn(db, t, c) \/ (t = s.table /\ c \in s.columns)
  <2>1. CASE t = s.table
    BY <2>1, <1>1 DEF HasColumn
  <2>2. CASE t # s.table
    BY <2>2, <1>1 DEF HasColumn
  <2> QED  BY <2>1, <2>2
<1> QED
  BY <1>1, <1>2 DEF new

(* A statement of init that is needed is possible, and once it has run,    *)
(* neither it nor one before it is needed.                                 *)
LEMMA StatementRuns ==
    ASSUME NEW db, SoundImage(db), NEW k \in 1 .. 9,
           \A j \in 1 .. (k - 1) : ~ Needed(db, Statements[j]),
           Needed(db, Statements[k])
    PROVE  LET new == Migrated(db, Statements[k]) IN
           /\ Possible(db, Statements[k])
           /\ SoundImage(new)
           /\ new.messages = db.messages
           /\ \A j \in 1 .. k : ~ Needed(new, Statements[j])
<1> DEFINE s == Statements[k]
           new == Migrated(db, s)
           Effect == /\ SoundImage(new)
                     /\ new.messages = db.messages
                     /\ DOMAIN new.schema = DOMAIN db.schema \cup {s.table}
                     /\ \A t, c : HasColumn(new, t, c) <=>
                          IF s.op = "drop"
                          THEN HasColumn(db, t, c) /\ ~ (t = s.table /\ c \in s.columns)
                          ELSE HasColumn(db, t, c) \/ (t = s.table /\ c \in s.columns)
           Old == /\ k > 1 => "key_packages" \in DOMAIN db.schema
                  /\ k > 2 => "welcomes" \in DOMAIN db.schema
                  /\ k > 3 => "join_requests" \in DOMAIN db.schema
                  /\ k > 4 => HasColumn(db, "welcomes", "join_after_cursor")
                  /\ k > 5 => "group_routing" \in DOMAIN db.schema
                  /\ k > 6 => "group_messages" \in DOMAIN db.schema
                  /\ k > 7 => ~ HasColumn(db, "group_messages", "ephemeral_sender_pubkey")
                  /\ k > 8 => ~ HasColumn(db, "group_messages", "epoch")
           New == /\ k >= 1 => "key_packages" \in DOMAIN new.schema
                  /\ k >= 2 => "welcomes" \in DOMAIN new.schema
                  /\ k >= 3 => "join_requests" \in DOMAIN new.schema
                  /\ k >= 4 => HasColumn(new, "welcomes", "join_after_cursor")
                  /\ k >= 5 => "group_routing" \in DOMAIN new.schema
                  /\ k >= 6 => "group_messages" \in DOMAIN new.schema
                  /\ k >= 7 => ~ HasColumn(new, "group_messages", "ephemeral_sender_pubkey")
                  /\ k >= 8 => ~ HasColumn(new, "group_messages", "epoch")
                  /\ k >= 9 => ~ HasColumn(new, "group_routing", "latest_handshake_epoch")
<1>1. Tables = {"key_packages", "welcomes", "join_requests", "group_routing", "group_messages"}
  BY DEF Tables, KnownColumns
<1>2. Old
  BY NeededForms
<1>3. ASSUME NEW op, NEW table, NEW column,
             s.op = op /\ s.table = table /\ s.columns = {column},
             table \in Tables, column \in KnownColumns[table],
             \/ op = "create" /\ column = LastingColumn[table]
             \/ op = "add" /\ table \in DOMAIN db.schema
             \/ op = "drop" /\ column # LastingColumn[table] /\ table \in DOMAIN db.schema
      PROVE  /\ Effect
             /\ s.op = "create" => Possible(db, s)
  <2>1. Effect
    <3> HIDE DEF s, LastingColumn, KnownColumns, Tables
    <3> QED  BY <1>3, MigratedColumns
  <2> QED
    BY <2>1 DEF Possible
<1>4. ASSUME k = 1 PROVE Effect /\ Possible(db, s) /\ New
  <2>1. s.op = "create" /\ s.table = "key_packages" /\ s.columns = {"key_package_ref"}
    BY <1>4, StatementList DEF Create
  <2>2. Effect /\ Possible(db, s)
    BY <1>1, <1>3, <2>1 DEF KnownColumns, LastingColumn
  <2> HIDE DEF s, new
  <2> QED
    BY <1>2, <1>4, <2>1, <2>2
<1>5. ASSUME k = 2 PROVE Effect /\ Possible(db, s) /\ New
  <2>1. s.op = "create" /\ s.table = "welcomes" /\ s.columns = {"key_package_reference"}
    BY <1>5, StatementList DEF Create
  <2>2. Effect /\ Possible(db, s)
    BY <1>1, <1>3, <2>1 DEF KnownColumns, LastingColumn
  <2> HIDE DEF s, new
  <2> QED
    BY <1>2, <1>5, <2>1, <2>2
<1>6. ASSUME k = 3 PROVE Effect /\ Possible(db, s) /\ New
  <2>1. s.op = "create" /\ s.table = "join_requests" /\ s.columns = {"key_package_ref"}
    BY <1>6, StatementList DEF Create
  <2>2. Effect /\ Possible(db, s)
    BY <1>1, <1>3, <2>1 DEF KnownColumns, LastingColumn
  <2> HIDE DEF s, new
  <2> QED
    BY <1>2, <1>6, <2>1, <2>2
<1>7. ASSUME k = 4 PROVE Effect /\ Possible(db, s) /\ New
  <2>1. s.op = "add" /\ s.table = "welcomes" /\ s.columns = {"join_after_cursor"}
    BY <1>7, StatementList DEF Alter
  <2>2. "welcomes" \in DOMAIN db.schema
    BY <1>2, <1>7
  <2>3. Effect
    BY <1>1, <1>3, <2>1, <2>2 DEF KnownColumns, LastingColumn
  <2>4. Possible(db, s)
    BY <1>7, <2>1, <2>2, NeededForms DEF Possible
  <2> HIDE DEF s, new
  <2> QED
    BY <1>2, <1>7, <2>1, <2>3, <2>4
<1>8. ASSUME k = 5 PROVE Effect /\ Possible(db, s) /\ New
  <2>1. s.op = "create" /\ s.table = "group_routing" /\ s.columns = {"last_message_cursor"}
    BY <1>8, StatementList DEF Create
  <2>2. Effect /\ Possible(db, s)
    BY <1>1, <1>3, <2>1 DEF KnownColumns, LastingColumn
  <2> HIDE DEF s, new
  <2> QED
    BY <1>2, <1>8, <2>1, <2>2
<1>9. ASSUME k = 6 PROVE Effect /\ Possible(db, s) /\ New
  <2>1. s.op = "create" /\ s.table = "group_messages" /\ s.columns = {"cursor"}
    BY <1>9, StatementList DEF Create
  <2>2. Effect /\ Possible(db, s)
    BY <1>1, <1>3, <2>1 DEF KnownColumns, LastingColumn
  <2> HIDE DEF s, new
  <2> QED
    BY <1>2, <1>9, <2>1, <2>2
<1>10. ASSUME k = 7 PROVE Effect /\ Possible(db, s) /\ New
  <2>1. s.op = "drop" /\ s.table = "group_messages" /\ s.columns = {"ephemeral_sender_pubkey"}
    BY <1>10, StatementList DEF Alter
  <2>2. "group_messages" \in DOMAIN db.schema
    BY <1>10, NeededForms DEF HasColumn
  <2>3. Effect
    BY <1>1, <1>3, <2>1, <2>2 DEF KnownColumns, LastingColumn
  <2>4. Possible(db, s)
    BY <1>10, <2>1, <2>2, NeededForms DEF Possible
  <2> HIDE DEF s, new
  <2> QED
    BY <1>2, <1>10, <2>1, <2>3, <2>4
<1>11. ASSUME k = 8 PROVE Effect /\ Possible(db, s) /\ New
  <2>1. s.op = "drop" /\ s.table = "group_messages" /\ s.columns = {"epoch"}
    BY <1>11, StatementList DEF Alter
  <2>2. "group_messages" \in DOMAIN db.schema
    BY <1>11, NeededForms DEF HasColumn
  <2>3. Effect
    BY <1>1, <1>3, <2>1, <2>2 DEF KnownColumns, LastingColumn
  <2>4. Possible(db, s)
    BY <1>11, <2>1, <2>2, NeededForms DEF Possible
  <2> HIDE DEF s, new
  <2> QED
    BY <1>2, <1>11, <2>1, <2>3, <2>4
<1>12. ASSUME k = 9 PROVE Effect /\ Possible(db, s) /\ New
  <2>1. s.op = "drop" /\ s.table = "group_routing" /\ s.columns = {"latest_handshake_epoch"}
    BY <1>12, StatementList DEF Alter
  <2>2. "group_routing" \in DOMAIN db.schema
    BY <1>12, NeededForms DEF HasColumn
  <2>3. Effect
    BY <1>1, <1>3, <2>1, <2>2 DEF KnownColumns, LastingColumn
  <2>4. Possible(db, s)
    BY <1>12, <2>1, <2>2, NeededForms DEF Possible
  <2> HIDE DEF s, new
  <2> QED
    BY <1>2, <1>12, <2>1, <2>3, <2>4
<1>13. Effect /\ Possible(db, s) /\ New
  BY <1>4, <1>5, <1>6, <1>7, <1>8, <1>9, <1>10, <1>11, <1>12
<1> QED
  BY <1>13, NeededForms

-----------------------------------------------------------------------------
(* A step that commits nothing leaves every image as it is. *)
LEMMA SameDisk ==
    ASSUME UNCHANGED disk
    PROVE  /\ DiskInv => DiskInv'
           /\ Database' = Database
           /\ Images' = Images
BY DEF disk, DiskInv, Database, Images

(* With the database, the memory and the process as they were, every       *)
(* promise still stands.                                                   *)
LEMMA SamePromises ==
    ASSUME PromiseInv, UNCHANGED <<disk, given, memory, process>>
    PROVE  PromiseInv'
<1>1. Database' = Database /\ Images' = Images
  BY SameDisk
<1> QED
  BY <1>1 DEF PromiseInv

(* Before the first start nothing was promised and the file is sound. *)
LEMMA InitLog == Init => LogInv
<1> SUFFICES ASSUME Init PROVE LogInv
  OBVIOUS
<1> USE DEF Init
<1>1. SoundImage(synced)
  <2>1. /\ synced \in [schema : [DOMAIN synced.schema -> SUBSET Columns],
                       messages : Seq(Nat), last_message_cursor : Nat]
        /\ KnownSchema(synced.schema)
        /\ Len(synced.messages) = synced.last_message_cursor
    BY DurableAssumption
  <2>2. synced.schema \in Schemas
    <3>1. synced.schema \in [DOMAIN synced.schema -> SUBSET Columns]
      BY <2>1
    <3>2. DOMAIN synced.schema \in SUBSET Tables
      BY <2>1 DEF KnownSchema
    <3> QED  BY <3>1, <3>2 DEF Schemas
  <2>3. synced \in Image
    <3> HIDE DEF Schemas
    <3> QED  BY <2>1, <2>2 DEF Image
  <2> QED  BY <2>1, <2>3 DEF SoundImage
<1>2. DiskInv /\ Database = synced /\ Images = {synced}
  BY <1>1 DEF DiskInv, Database, Images, ToSet
<1>3. RunInv
  BY StatementList, DurableAssumption DEF RunInv
<1>4. SchemaInv
  BY DEF SchemaInv
<1>5. TxInv
  BY DEF TxInv
<1>6. PromiseInv
  <2> SUFFICES ASSUME NEW c \in DOMAIN synced.messages, NEW r,
                      r = Promise("sqlite", c, synced.messages[c], TRUE)
               PROVE  /\ r.backend = "sqlite"
                      /\ Kept(synced.messages, r)
    BY <1>2 DEF PromiseInv
  <2> QED  BY DEF Promise, Kept
<1> QED
  BY <1>2, <1>3, <1>4, <1>5, <1>6 DEF LogInv

(* An operator reconfigures only a process that does not run. *)
LEMMA ConfigureStep ==
    ASSUME LogInv, NEW e \in Environments, Configure(e)
    PROVE  LogInv'
<1> USE DEF LogInv, Configure, running
<1>1. DiskInv' /\ PromiseInv'
  BY SameDisk, SamePromises
<1>2. RunInv'
  BY DEF RunInv
<1>3. SchemaInv' /\ TxInv'
  BY DEF SchemaInv, TxInv
<1> QED
  BY <1>1, <1>2, <1>3

(* A start takes the configuration as it is loaded, and runs no statement. *)
LEMMA StartStep ==
    ASSUME LogInv, Start
    PROVE  LogInv'
<1> USE DEF LogInv, Start, configuration
<1>1. DiskInv' /\ Database' = Database /\ Images' = Images
  BY SameDisk
<1>2. loaded.value.storage.backend \in {"memory", "sqlite"}
  BY LoadedConfig DEF RunInv
<1>3. RunInv'
  BY <1>2, StatementList DEF RunInv
<1>4. SchemaInv'
  BY DEF SchemaInv
<1>5. tx' = NoTx
  BY DEF TxInv
<1>6. TxInv'
  BY <1>5 DEF TxInv
<1>7. PromiseInv'
  BY <1>1 DEF PromiseInv
<1> QED
  BY <1>1, <1>3, <1>4, <1>6, <1>7

(* A statement of init runs or is skipped; none is refused, and no log     *)
(* changes.                                                                *)
LEMMA OpenLogStep ==
    ASSUME LogInv, OpenStep
    PROVE  LogInv'
<1> USE DEF LogInv, OpenStep, configuration
<1> DEFINE s == Statements[step + 1]
<1>1. /\ process = "opening" /\ cfg.storage.backend = "sqlite" /\ tx = NoTx
      /\ step \in 0 .. 8 /\ step + 1 \in 1 .. 9
      /\ \A j \in 1 .. step : ~ Needed(Database, Statements[j])
  BY StatementList DEF RunInv, TxInv, SchemaInv
<1>2. SoundImage(Database) /\ Database \in Images
  BY DatabaseSound
<1>3. CASE ~ Needed(Database, s)
  <2>1. /\ UNCHANGED disk /\ step' = step + 1 /\ cfg' = cfg /\ tx' = tx
        /\ process' = IF step' = 9 THEN "serving" ELSE "opening"
    BY <1>3, StatementList
  <2>2. DiskInv' /\ Database' = Database /\ Images' = Images
    BY <2>1, SameDisk
  <2>3. RunInv'
    BY <1>1, <2>1, StatementList DEF RunInv
  <2>4. SchemaInv'
    <3> HIDE DEF OpenStep
    <3>1. \A j \in 1 .. (step + 1) : ~ Needed(Database, Statements[j])
      BY <1>1, <1>3
    <3> QED  BY <2>1, <2>2, <3>1 DEF SchemaInv
  <2>5. TxInv'
    BY <1>1, <2>1 DEF TxInv
  <2>6. PromiseInv'
    BY <1>1, <2>2 DEF PromiseInv
  <2> QED
    BY <2>2, <2>3, <2>4, <2>5, <2>6
<1>4. CASE Needed(Database, s)
  <2> DEFINE new == Migrated(Database, s)
  <2>1. /\ Possible(Database, s) /\ SoundImage(new)
        /\ new.messages = Database.messages
        /\ \A j \in 1 .. (step + 1) : ~ Needed(new, Statements[j])
    <3> HIDE DEF OpenStep
    <3>1. (step + 1) - 1 = step
      BY <1>1
    <3> QED  BY <1>1, <1>2, <1>4, <3>1, StatementRuns
  <2>2. /\ CommitTo(new) /\ step' = step + 1 /\ cfg' = cfg /\ tx' = tx
        /\ process' = IF step' = 9 THEN "serving" ELSE "opening"
    BY <1>4, <2>1, StatementList
  <2> HIDE DEF new
  <2>3. DiskInv' /\ Database' = new /\ Images' \subseteq Images \cup {new}
    BY <2>1, <2>2, CommitToDisk
  <2>4. RunInv'
    BY <1>1, <2>2, StatementList DEF RunInv
  <2>5. SchemaInv'
    <3> HIDE DEF OpenStep
    <3> QED  BY <2>1, <2>2, <2>3 DEF SchemaInv
  <2>6. TxInv'
    BY <1>1, <2>2 DEF TxInv
  <2>7. PromiseInv'
    <3> HIDE DEF s
    <3> QED  BY <1>1, <1>2, <2>1, <2>3 DEF PromiseInv, Kept
  <2> QED
    BY <2>3, <2>4, <2>5, <2>6, <2>7
<1> QED
  BY <1>3, <1>4

-----------------------------------------------------------------------------
(* The steps of a post leave the process and its configuration alone.      *)
LEMMA SameProcess ==
    ASSUME RunInv, SchemaInv, UNCHANGED <<configuration, running, crashes>>,
           posted' \in 0 .. MaxPosts, memory' \in Seq(1 .. MaxPosts),
           Database'.schema = Database.schema
    PROVE  RunInv' /\ SchemaInv'
<1>1. RunInv'
  BY DEF RunInv, configuration, running
<1>2. \A k \in 1 .. step : Needed(Database', Statements[k]) <=> Needed(Database, Statements[k])
  BY DEF Needed, HasColumn
<1>3. SchemaInv'
  BY <1>2 DEF SchemaInv, running
<1> QED
  BY <1>1, <1>3

(* A post of the memory backend extends its log. *)
LEMMA MemoryStep ==
    ASSUME LogInv, AppendInMemory
    PROVE  LogInv'
<1> USE DEF LogInv, AppendInMemory
<1>1. DiskInv' /\ Database' = Database /\ Images' = Images
  BY SameDisk
<1>2. /\ memory \in Seq(1 .. MaxPosts) /\ posted + 1 \in 1 .. MaxPosts
      /\ MaxPosts \in Nat
  BY DurableAssumption DEF RunInv
<1>3. /\ memory' \in Seq(1 .. MaxPosts)
      /\ Len(memory) + 1 \in DOMAIN memory' /\ memory'[Len(memory) + 1] = posted + 1
      /\ \A c \in DOMAIN memory : c \in DOMAIN memory' /\ memory'[c] = memory[c]
  BY <1>2
<1>4. RunInv' /\ SchemaInv'
  BY <1>1, <1>2, <1>3, SameProcess
<1>5. TxInv'
  <2>1. /\ tx' \in [at : {"committed"}, cursor : Nat, message : 1 .. MaxPosts]
        /\ tx'.cursor = Len(memory) + 1 /\ tx'.message = posted + 1
    BY <1>2
  <2>2. process' = "serving" /\ cfg'.storage.backend = "memory"
    BY DEF running
  <2> QED  BY <2>1, <2>2, <1>3 DEF TxInv
<1>6. PromiseInv'
  BY <1>1, <1>3 DEF PromiseInv, Kept, running
<1> QED
  BY <1>1, <1>4, <1>5, <1>6

(* A transaction reads the counter, which is the length of the log. *)
LEMMA BeginStep ==
    ASSUME LogInv, BeginPost
    PROVE  LogInv'
<1> USE DEF LogInv, BeginPost
<1>1. DiskInv' /\ Database' = Database /\ Images' = Images
  BY SameDisk
<1>2. Database \in Image
  BY DatabaseSound DEF SoundImage
<1>3. posted + 1 \in 1 .. MaxPosts /\ Database.last_message_cursor \in Nat
  BY <1>2, DurableAssumption DEF RunInv, Image
<1>4. RunInv' /\ SchemaInv'
  <2>1. posted' \in 0 .. MaxPosts /\ memory' \in Seq(1 .. MaxPosts)
    BY <1>3 DEF RunInv
  <2> QED  BY <1>1, <2>1, SameProcess
<1>5. TxInv'
  <2>1. /\ tx' \in [at : {"read", "inserted", "routed"}, cursor : Nat,
                    message : 1 .. MaxPosts, db : Image]
        /\ tx'.at = "read" /\ tx'.cursor = Database.last_message_cursor + 1
        /\ tx'.db = Database
    BY <1>2, <1>3
  <2>2. process' = "serving" /\ cfg'.storage.backend = "sqlite"
    BY DEF running
  <2> QED  BY <2>1, <2>2, <1>1 DEF TxInv
<1>6. PromiseInv'
  BY SamePromises DEF running
<1> QED
  BY <1>1, <1>4, <1>5, <1>6

(* A transaction that is not over. *)
OpenTx ==
    /\ tx \in [at : {"read", "inserted", "routed"}, cursor : Nat, message : 1 .. MaxPosts,
               db : Image]
    /\ process = "serving" /\ cfg.storage.backend = "sqlite"
    /\ tx.cursor = Database.last_message_cursor + 1
    /\ tx.db.schema = Database.schema
    /\ tx.db.messages = IF tx.at = "read" THEN Database.messages
                        ELSE Append(Database.messages, tx.message)
    /\ tx.db.last_message_cursor =
         IF tx.at = "routed" THEN tx.cursor ELSE Database.last_message_cursor

(* Before the commit, a transaction belongs to a serving sqlite process. *)
LEMMA TxIsOpen ==
    ASSUME TxInv, tx.at \in {"read", "inserted", "routed"}
    PROVE  OpenTx
BY DEF TxInv, OpenTx, NoTx

(* The insert changes only what the transaction sees. *)
LEMMA InsertStep ==
    ASSUME LogInv, InsertMessage
    PROVE  LogInv'
<1> USE DEF LogInv, InsertMessage
<1> DEFINE log == [c \in DOMAIN tx.db.messages \cup {tx.cursor} |->
                     IF c = tx.cursor THEN tx.message ELSE tx.db.messages[c]]
<1>1. DiskInv' /\ Database' = Database /\ Images' = Images
  BY SameDisk
<1>2. OpenTx /\ tx.at = "read"
  BY TxIsOpen
<1>3. /\ Database.messages \in Seq(Nat) /\ Len(Database.messages) = Database.last_message_cursor
  BY DatabaseSound DEF SoundImage, Image
<1>4. log = Append(Database.messages, tx.message)
  <2>1. /\ tx.db.messages = Database.messages /\ tx.cursor = Len(Database.messages) + 1
    BY <1>2, <1>3 DEF OpenTx
  <2>2. tx.message \in Nat
    BY <1>2, DurableAssumption DEF OpenTx
  <2> QED  BY <2>1, <2>2, <1>3
<1> HIDE DEF log
<1>5. log \in Seq(Nat)
  <2>1. tx.message \in Nat
    BY <1>2, DurableAssumption DEF OpenTx
  <2> QED  BY <2>1, <1>3, <1>4
<1>6. /\ tx' = [tx EXCEPT !.at = "inserted", !.db = [tx.db EXCEPT !.messages = log]]
  BY <1>2 DEF log, OpenTx, Image
<1>7. [tx.db EXCEPT !.messages = log] \in Image
  BY <1>2, <1>5 DEF OpenTx, Image
<1>8. OpenTx'
  <2>1. /\ tx' \in [at : {"read", "inserted", "routed"}, cursor : Nat,
                    message : 1 .. MaxPosts, db : Image]
        /\ tx'.at = "inserted" /\ tx'.cursor = tx.cursor /\ tx'.message = tx.message
        /\ tx'.db = [tx.db EXCEPT !.messages = log]
    BY <1>2, <1>6, <1>7 DEF OpenTx
  <2>2. /\ tx'.db.schema = tx.db.schema /\ tx'.db.messages = log
        /\ tx'.db.last_message_cursor = tx.db.last_message_cursor
    BY <1>2, <2>1 DEF OpenTx, Image
  <2>3. process' = "serving" /\ cfg'.storage.backend = "sqlite"
    BY <1>2 DEF OpenTx, running
  <2> HIDE DEF InsertMessage
  <2> QED
    BY <1>1, <1>2, <1>4, <2>1, <2>2, <2>3 DEF OpenTx
<1>9. RunInv' /\ SchemaInv'
  <2>1. posted' \in 0 .. MaxPosts /\ memory' \in Seq(1 .. MaxPosts)
    BY DEF RunInv
  <2> QED  BY <1>1, <2>1, SameProcess
<1>10. PromiseInv'
  BY SamePromises DEF running
<1>11. TxInv'
  BY <1>8 DEF OpenTx, TxInv
<1> QED
  BY <1>1, <1>9, <1>10, <1>11

(* The upsert brings the counter of the transaction up to its log. *)
LEMMA RoutingStep ==
    ASSUME LogInv, UpsertRouting
    PROVE  LogInv'
<1> USE DEF LogInv, UpsertRouting
<1>1. DiskInv' /\ Database' = Database /\ Images' = Images
  BY SameDisk
<1>2. OpenTx /\ tx.at = "inserted"
  BY TxIsOpen
<1>3. tx' = [tx EXCEPT !.at = "routed", !.db = [tx.db EXCEPT !.last_message_cursor = tx.cursor]]
  BY <1>2 DEF OpenTx, Image
<1>4. [tx.db EXCEPT !.last_message_cursor = tx.cursor] \in Image
  BY <1>2 DEF OpenTx, Image
<1>5. OpenTx'
  BY <1>1, <1>2, <1>3, <1>4 DEF OpenTx, Image, running
<1>6. RunInv' /\ SchemaInv'
  <2>1. posted' \in 0 .. MaxPosts /\ memory' \in Seq(1 .. MaxPosts)
    BY DEF RunInv
  <2> QED  BY <1>1, <2>1, SameProcess
<1>7. PromiseInv'
  BY SamePromises DEF running
<1>8. TxInv'
  BY <1>5 DEF OpenTx, TxInv
<1> QED
  BY <1>1, <1>6, <1>7, <1>8

(* A commit adds one image, which extends the last one by one message. *)
LEMMA CommitStep ==
    ASSUME LogInv, Commit
    PROVE  LogInv'
<1> USE DEF LogInv, Commit
<1>1. OpenTx /\ tx.at = "routed"
  BY TxIsOpen
<1>2. SoundImage(Database)
  BY DatabaseSound
<1>3. /\ Database.messages \in Seq(Nat) /\ Len(Database.messages) = Database.last_message_cursor
      /\ KnownSchema(Database.schema)
  BY <1>2 DEF SoundImage, Image
<1>4. tx.message \in Nat
  BY <1>1, DurableAssumption DEF OpenTx
<1>5. /\ tx.db.messages = Append(Database.messages, tx.message)
      /\ tx.db.last_message_cursor = Len(Database.messages) + 1
      /\ tx.cursor = Len(Database.messages) + 1
      /\ tx.db.schema = Database.schema /\ tx.db \in Image
  BY <1>1, <1>3 DEF OpenTx
<1>6. SoundImage(tx.db)
  BY <1>3, <1>4, <1>5 DEF SoundImage
<1>7. /\ DiskInv' /\ Database' = tx.db /\ Images' \subseteq Images \cup {tx.db}
      /\ cfg.storage.synchronous = "full" => unsynced' = <<>>
  BY <1>6, CommitToDisk
<1>8. /\ tx.cursor \in DOMAIN tx.db.messages /\ tx.db.messages[tx.cursor] = tx.message
      /\ \A c \in DOMAIN Database.messages :
           c \in DOMAIN tx.db.messages /\ tx.db.messages[c] = Database.messages[c]
  BY <1>3, <1>4, <1>5
<1>9. RunInv' /\ SchemaInv'
  <2>1. posted' \in 0 .. MaxPosts /\ memory' \in Seq(1 .. MaxPosts)
    BY DEF RunInv
  <2> QED  BY <1>5, <1>7, <2>1, SameProcess
<1>10. TxInv'
  <2>1. /\ tx' \in [at : {"committed"}, cursor : Nat, message : 1 .. MaxPosts, db : Image]
        /\ tx'.cursor = tx.cursor /\ tx'.message = tx.message
    BY <1>1 DEF OpenTx
  <2>2. process' = "serving" /\ cfg'.storage.backend = "sqlite" /\ cfg' = cfg
    BY <1>1 DEF running, OpenTx
  <2> QED  BY <2>1, <2>2, <1>7, <1>8 DEF TxInv
<1>11. PromiseInv'
  <2>1. Database \in Images
    BY DatabaseSound
  <2> QED  BY <2>1, <1>7, <1>8 DEF PromiseInv, Kept, running
<1> QED
  BY <1>7, <1>9, <1>10, <1>11

(* The promise of a reply is one that the operator's configuration, and so *)
(* the commit before it, can keep.                                         *)
LEMMA ReplyStep ==
    ASSUME LogInv, Reply
    PROVE  LogInv'
<1> USE DEF LogInv, Reply
<1> DEFINE backend == Asked("CORDN_STORAGE_BACKEND", "memory")
           full == Asked("CORDN_SQLITE_SYNCHRONOUS", "normal") \in FullTexts
           new == Promise(backend, tx.cursor, tx.message, full)
<1>1. DiskInv' /\ Database' = Database /\ Images' = Images
  BY SameDisk
<1>2. process = "serving" /\ tx.at = "committed"
  BY DEF TxInv, NoTx
<1>3. /\ cfg.storage.backend = backend
      /\ backend = "sqlite" /\ full => cfg.storage.synchronous = "full"
  BY <1>2, LoadedConfig DEF RunInv
<1>4. RunInv' /\ SchemaInv'
  <2>1. posted' \in 0 .. MaxPosts /\ memory' \in Seq(1 .. MaxPosts)
    BY DEF RunInv
  <2> QED  BY <1>1, <2>1, SameProcess
<1>5. TxInv'
  BY DEF TxInv
<1> HIDE DEF backend, full
<1>6. new.backend = backend /\ new.cursor = tx.cursor /\ new.message = tx.message
      /\ new.durable = full
  BY DEF Promise
<1>7. \/ /\ cfg.storage.backend = "sqlite"
         /\ tx.cursor \in DOMAIN Database.messages
         /\ Database.messages[tx.cursor] = tx.message
         /\ cfg.storage.synchronous = "full" => unsynced = <<>>
      \/ /\ cfg.storage.backend = "memory"
         /\ tx.cursor \in DOMAIN memory
         /\ memory[tx.cursor] = tx.message
  BY <1>2 DEF TxInv, NoTx
<1>8. unsynced = <<>> => Images = {Database}
  BY DEF Images, Database, ToSet
<1>9. /\ new.backend = "sqlite" => Kept(Database.messages, new)
      /\ new.backend = "sqlite" /\ new.durable => \A db \in Images : Kept(db.messages, new)
      /\ new.backend # "sqlite" => process = "serving" /\ Kept(memory, new)
  <2> HIDE DEF new, LogInv, Reply
  <2> QED  BY <1>2, <1>3, <1>6, <1>7, <1>8 DEF Kept
<1>10. given' = given \cup {new} /\ memory' = memory /\ process' = process
  BY DEF backend, full, running
<1>11. PromiseInv'
  <2> HIDE DEF new, Reply
  <2> QED  BY <1>1, <1>9, <1>10 DEF PromiseInv
<1> QED
  BY <1>1, <1>4, <1>5, <1>11

(* A failed transaction leaves every image as it was. *)
LEMMA FailStep ==
    ASSUME LogInv, PostFails
    PROVE  LogInv'
<1> USE DEF LogInv, PostFails
<1>1. DiskInv' /\ Database' = Database
  BY SameDisk
<1>2. RunInv' /\ SchemaInv'
  <2>1. posted' \in 0 .. MaxPosts /\ memory' \in Seq(1 .. MaxPosts)
    BY DEF RunInv
  <2> QED  BY <1>1, <2>1, SameProcess
<1>3. TxInv'
  BY DEF TxInv
<1>4. PromiseInv'
  BY SamePromises DEF running
<1> QED
  BY <1>1, <1>2, <1>3, <1>4

(* A checkpoint leaves the last image only, which kept all promises. *)
LEMMA CheckpointStep ==
    ASSUME LogInv, Checkpoint
    PROVE  LogInv'
<1> USE DEF LogInv, Checkpoint
<1>1. SoundImage(Database) /\ Database \in Images /\ Database = Last(unsynced)
  BY DatabaseSound DEF Database
<1>2. synced' = Database /\ unsynced' = <<>>
  BY <1>1
<1>3. DiskInv' /\ Database' = Database /\ Images' = {Database}
  <2> HIDE DEF Checkpoint
  <2>1. Database' = Database
    BY <1>2 DEF Database
  <2>2. Images' = {Database}
    BY <1>2 DEF Images, ToSet
  <2>3. DiskInv'
    BY <1>1, <1>2 DEF DiskInv
  <2> QED  BY <2>1, <2>2, <2>3
<1>4. RunInv' /\ SchemaInv'
  <2>1. posted' \in 0 .. MaxPosts /\ memory' \in Seq(1 .. MaxPosts)
    BY DEF RunInv
  <2> QED  BY <1>3, <2>1, SameProcess
<1>5. TxInv'
  BY <1>2, <1>3 DEF TxInv, running
<1>6. PromiseInv'
  BY <1>1, <1>3 DEF PromiseInv, running
<1> QED
  BY <1>3, <1>4, <1>5, <1>6

(* The end of the process, with what it leaves of promises and disk.       *)
LEMMA EndStep ==
    ASSUME LogInv, NEW state \in {"down", "stopped"}, ProcessEnds(state), DiskInv',
           UNCHANGED <<configuration, posted>>, crashes' \in 0 .. MaxCrashes,
           given' \subseteq {r \in given : r.backend = "sqlite"},
           \A r \in given' : /\ Kept(Database'.messages, r)
                             /\ r.durable => \A db \in Images' : Kept(db.messages, r)
    PROVE  LogInv'
<1> USE DEF LogInv, ProcessEnds
<1>1. RunInv'
  BY StatementList DEF RunInv, configuration
<1>2. SchemaInv' /\ TxInv'
  BY DEF SchemaInv, TxInv
<1>3. PromiseInv'
  BY DEF PromiseInv
<1> QED
  BY <1>1, <1>2, <1>3

(* An orderly end takes the memory log and what was promised of it. *)
LEMMA ShutdownStep ==
    ASSUME LogInv, Shutdown
    PROVE  LogInv'
<1>1. DiskInv' /\ Database' = Database /\ Images' = Images
  BY SameDisk DEF LogInv, Shutdown
<1>2. crashes' \in 0 .. MaxCrashes
  BY DEF LogInv, RunInv, Shutdown
<1>3. \A r \in given' : /\ Kept(Database'.messages, r)
                        /\ r.durable => \A db \in Images' : Kept(db.messages, r)
  BY <1>1 DEF LogInv, PromiseInv, Shutdown
<1> QED
  BY <1>1, <1>2, <1>3, EndStep DEF Shutdown

(* A crash takes the transaction and the memory log, and no commit. *)
LEMMA CrashStep ==
    ASSUME LogInv, Crash
    PROVE  LogInv'
<1>1. DiskInv' /\ Database' = Database /\ Images' = Images
  BY SameDisk DEF LogInv, Crash
<1>2. crashes' \in 0 .. MaxCrashes
  BY DurableAssumption DEF LogInv, RunInv, Crash
<1>3. \A r \in given' : /\ Kept(Database'.messages, r)
                        /\ r.durable => \A db \in Images' : Kept(db.messages, r)
  BY <1>1 DEF LogInv, PromiseInv, Crash
<1> QED
  BY <1>1, <1>2, <1>3, EndStep DEF Crash

(* A power loss takes unsynced commits, and the promises that rest on      *)
(* them.                                                                   *)
LEMMA PowerLossStep ==
    ASSUME LogInv, PowerLoss
    PROVE  LogInv'
<1> USE DEF PowerLoss
<1>1. PICK n \in 0 .. Len(unsynced) : synced' = IF n = 0 THEN synced ELSE unsynced[n]
  OBVIOUS
<1>2. synced' \in Images /\ SoundImage(synced')
  BY <1>1 DEF LogInv, DiskInv, Images, ToSet
<1>3. DiskInv' /\ Database' = synced' /\ Images' = {synced'}
  BY <1>2 DEF DiskInv, Database, Images, ToSet
<1>4. crashes' \in 0 .. MaxCrashes
  BY DurableAssumption DEF LogInv, RunInv
<1>5. \A r \in given' : /\ Kept(Database'.messages, r)
                        /\ r.durable => \A db \in Images' : Kept(db.messages, r)
  BY <1>2, <1>3 DEF LogInv, PromiseInv
<1> QED
  BY <1>3, <1>4, <1>5, EndStep

(* A stuttering step changes nothing. *)
LEMMA LogStutter ==
    ASSUME LogInv, UNCHANGED vars
    PROVE  LogInv'
<1>1. DiskInv' /\ Database' = Database /\ Images' = Images
  BY SameDisk DEF LogInv, vars
<1>2. RunInv'
  BY DEF LogInv, RunInv, vars, configuration, running
<1>3. SchemaInv'
  BY <1>1 DEF LogInv, SchemaInv, vars, running
<1>4. TxInv'
  BY <1>1 DEF LogInv, TxInv, vars, running, disk
<1>5. PromiseInv'
  BY <1>1 DEF LogInv, PromiseInv, vars, running
<1> QED
  BY <1>1, <1>2, <1>3, <1>4, <1>5 DEF LogInv

-----------------------------------------------------------------------------
(* The inductive invariant: images, configuration, schema, transaction and *)
(* promises, over every start, post, checkpoint, crash and power loss.     *)
THEOREM LogInvariant == Spec => []LogInv
<1>1. LogInv /\ [Next]_vars => LogInv'
  <2> SUFFICES ASSUME LogInv, [Next]_vars PROVE LogInv'
    OBVIOUS
  <2>1. ASSUME NEW e \in Environments, Configure(e) PROVE LogInv'
    BY <2>1, ConfigureStep
  <2>2. CASE Start
    BY <2>2, StartStep
  <2>3. CASE OpenStep
    BY <2>3, OpenLogStep
  <2>4. CASE Serve
    BY <2>4, MemoryStep, BeginStep, InsertStep, RoutingStep, CommitStep, ReplyStep, FailStep
       DEF Serve
  <2>5. CASE Checkpoint
    BY <2>5, CheckpointStep
  <2>6. CASE Shutdown
    BY <2>6, ShutdownStep
  <2>7. CASE Crash
    BY <2>7, CrashStep
  <2>8. CASE PowerLoss
    BY <2>8, PowerLossStep
  <2>9. CASE UNCHANGED vars
    BY <2>9, LogStutter
  <2> QED
    BY <2>1, <2>2, <2>3, <2>4, <2>5, <2>6, <2>7, <2>8, <2>9 DEF Next
<1> QED
  BY <1>1, InitLog, PTL DEF Spec

(* The types, for the life of the server: the parsed configuration of a    *)
(* running process, the images, the memory log and the counters.           *)
THEOREM LogTypeCorrect == Spec => []TypeOK
<1>1. LogInv => TypeOK
  <2> SUFFICES ASSUME LogInv PROVE TypeOK
    OBVIOUS
  <2>1. process \in {"opening", "serving"} =>
          cfg.storage.backend \in {"memory", "sqlite"} /\ cfg.burst \in Nat
    BY LoadedConfig DEF LogInv, RunInv
  <2>2. ASSUME NEW db \in Images
        PROVE  /\ DOMAIN db.messages \subseteq Nat
               /\ db.last_message_cursor \in Nat
               /\ \A t \in DOMAIN db.schema : db.schema[t] # {}
    <3>1. SoundImage(db)
      BY <2>2, DatabaseSound DEF LogInv
    <3>2. db.messages \in Seq(Nat) /\ db.last_message_cursor \in Nat
      BY <3>1 DEF SoundImage, Image
    <3>3. \A t \in DOMAIN db.schema : db.schema[t] # {}
      BY <3>1 DEF SoundImage, KnownSchema
    <3> QED  BY <3>2, <3>3
  <2>3. tx.at \in {"none", "read", "inserted", "routed", "committed"}
    BY DEF LogInv, TxInv, NoTx
  <2> QED
    BY <2>1, <2>2, <2>3 DEF LogInv, RunInv, TypeOK
<1> QED
  BY <1>1, LogInvariant, PTL

(* A cursor a client was told designates its message ever after, as far as *)
(* the operator asked for: append_group_message commits before it returns, *)
(* and configuration, migrations and restarts do not undo what it wrote.   *)
THEOREM CursorsStayValid == Spec => []PromisesKept
<1>1. LogInv => PromisesKept
  BY DEF LogInv, PromiseInv, PromisesKept, Kept
<1> QED
  BY <1>1, LogInvariant, PTL

(* No crash or power loss separates a group's counter from its log: the    *)
(* message and the routing row are written by one transaction.             *)
THEOREM CountersAgree == Spec => []CountersMatchLog
<1>1. LogInv => CountersMatchLog
  <2> SUFFICES ASSUME LogInv, NEW db \in Images
               PROVE  DOMAIN db.messages = 1 .. db.last_message_cursor
    BY DEF CountersMatchLog
  <2>1. SoundImage(db)
    BY DatabaseSound DEF LogInv
  <2>2. db.messages \in Seq(Nat) /\ Len(db.messages) = db.last_message_cursor
    BY <2>1 DEF SoundImage, Image
  <2> QED  BY <2>2
<1> QED
  BY <1>1, LogInvariant, PTL

(* init brings every database of this or an earlier release to the current *)
(* schema before the first post, however often it was cut off before.      *)
THEOREM SchemaCurrent == Spec => []ServesCurrentSchema
<1>1. LogInv => ServesCurrentSchema
  <2> SUFFICES ASSUME LogInv, process = "serving", cfg.storage.backend = "sqlite"
               PROVE  /\ DOMAIN Database.schema = {Statements[k].table : k \in DOMAIN Statements}
                      /\ HasColumn(Database, "welcomes", "join_after_cursor")
                      /\ Database.schema["group_messages"] \ {"encrypted"} = {"cursor"}
                      /\ Database.schema["group_routing"] = {"last_message_cursor"}
    BY DEF ServesCurrentSchema
  <2>1. \A k \in 1 .. 9 : ~ Needed(Database, Statements[k])
    BY StatementList DEF LogInv, RunInv, SchemaInv
  <2>2. KnownSchema(Database.schema)
    BY DatabaseSound DEF LogInv, SoundImage
  <2>3. Tables = {"key_packages", "welcomes", "join_requests", "group_routing", "group_messages"}
    BY DEF Tables, KnownColumns
  <2>4. /\ {"key_packages", "welcomes", "join_requests", "group_routing", "group_messages"}
             \subseteq DOMAIN Database.schema
        /\ HasColumn(Database, "welcomes", "join_after_cursor")
        /\ ~ HasColumn(Database, "group_messages", "ephemeral_sender_pubkey")
        /\ ~ HasColumn(Database, "group_messages", "epoch")
        /\ ~ HasColumn(Database, "group_routing", "latest_handshake_epoch")
    BY <2>1, NeededForms
  <2>5. DOMAIN Database.schema = Tables
    BY <2>2, <2>3, <2>4 DEF KnownSchema
  <2>6. {Statements[k].table : k \in DOMAIN Statements} = Tables
    BY <2>3, StatementList DEF Create, Alter
  <2>7. /\ Database.schema["group_messages"]
             \subseteq {"cursor", "ephemeral_sender_pubkey", "epoch", "encrypted"}
        /\ "cursor" \in Database.schema["group_messages"]
        /\ Database.schema["group_routing"] \subseteq {"last_message_cursor", "latest_handshake_epoch"}
        /\ "last_message_cursor" \in Database.schema["group_routing"]
    BY <2>2, <2>3, <2>5 DEF KnownSchema, KnownColumns, LastingColumn
  <2>8. Database.schema["group_messages"] \ {"encrypted"} = {"cursor"}
    BY <2>3, <2>4, <2>5, <2>7 DEF HasColumn
  <2>9. Database.schema["group_routing"] = {"last_message_cursor"}
    BY <2>3, <2>4, <2>5, <2>7 DEF HasColumn
  <2> QED
    BY <2>4, <2>5, <2>6, <2>8, <2>9
<1> QED
  BY <1>1, LogInvariant, PTL

(* Opening such a database never fails on a statement of init: an ALTER    *)
(* that its has_column test asks for finds the table and the column as it  *)
(* needs them.                                                             *)
THEOREM OpenNeverRefused == Spec => [](process # "refused")
<1>1. LogInv => process # "refused"
  BY DEF LogInv, RunInv
<1> QED
  BY <1>1, LogInvariant, PTL
=============================================================================
