----------------------------- MODULE DurableLog -----------------------------
(***************************************************************************)
(* The life of a server process over its database: configuration and       *)
(* start-up (main.rs), opening the database with its schema and migrations *)
(* (storage/sqlite.rs, init), posts as the transactions of                 *)
(* append_group_message, and the end of the process by shutdown, crash or  *)
(* power loss, after which it is started again, perhaps configured anew.   *)
(*                                                                         *)
(* The database is one file in WAL mode: CORDN_SQLITE_PATH always names    *)
(* the same one, and never ":memory:".  Every statement outside a          *)
(* transaction commits by itself.  A commit survives the process; it       *)
(* survives a power loss once the log is synced, which synchronous=FULL    *)
(* does at every commit and NORMAL leaves to a later checkpoint (SQLite,   *)
(* external).  One group is followed: groups share no rows.                *)
(***************************************************************************)
EXTENDS ServerConfig, FiniteSets

CONSTANTS
    Environments,  \* what an operator may configure: process, env, env_local
    Databases,     \* what the file may hold before the first start
    MaxPosts,      \* bound: posts
    MaxCrashes     \* bound: crashes and power losses

(* The columns of this and of earlier releases, by table, and the one that *)
(* each table has had in all of them.  Columns that no statement and no    *)
(* comment of init is about are not listed.                                *)
KnownColumns ==
    [key_packages |-> {"key_package_ref"},
     welcomes |-> {"key_package_reference", "join_after_cursor"},
     join_requests |-> {"key_package_ref"},
     group_routing |-> {"last_message_cursor", "latest_handshake_epoch"},
     group_messages |-> {"cursor", "ephemeral_sender_pubkey", "epoch", "encrypted"}]

LastingColumn ==
    [key_packages |-> "key_package_ref",
     welcomes |-> "key_package_reference",
     join_requests |-> "key_package_ref",
     group_routing |-> "last_message_cursor",
     group_messages |-> "cursor"]

Tables == DOMAIN KnownColumns
Columns == UNION {KnownColumns[t] : t \in Tables}

KnownSchema(schema) ==
    /\ DOMAIN schema \subseteq Tables
    /\ \A t \in DOMAIN schema : /\ schema[t] \subseteq KnownColumns[t]
                                /\ LastingColumn[t] \in schema[t]

(* The file was written by some release, so its counter fits its log; and  *)
(* it may be without any of the tables.  A file is a list of assignments.  *)
ASSUME DurableAssumption ==
    /\ MaxPosts \in Nat /\ MaxCrashes \in Nat
    /\ \A e \in Environments : /\ e.env \in Seq(STRING \X STRING)
                               /\ e.env_local \in Seq(STRING \X STRING)
    /\ \A db \in Databases :
         /\ db \in [schema : [DOMAIN db.schema -> SUBSET Columns],
                   messages : Seq(Nat), last_message_cursor : Nat]
         /\ KnownSchema(db.schema)
         /\ Len(db.messages) = db.last_message_cursor

VARIABLES
    sources,   \* the operator's configuration
    loaded,    \* what reading it returns
    process,   \* down, opening, serving, refused (init returned an error),
               \* or stopped (shut down in order)
    cfg,       \* the configuration of the running process
    step,      \* opening: the statements of init that have run
    synced,    \* the database as it is on stable storage
    unsynced,  \* later commits, each with the database it leaves
    memory,    \* the log of the memory backend
    tx,        \* the post in progress
    posted,    \* history: posts begun, which also number the messages
    crashes,   \* history: crashes and power losses
    given      \* history: what clients were told and may rely on

configuration == <<sources, loaded>>
running == <<process, cfg, step>>
disk == <<synced, unsynced>>
vars == <<configuration, running, disk, memory, tx, posted, crashes, given>>

NoTx == [at |-> "none"]
NoConfig == [storage |-> [backend |-> "none"]]

(* What the connection reads: the last commit. *)
Database == IF unsynced = <<>> THEN synced ELSE Last(unsynced)

(* A commit under the pragma of the running process. *)
CommitTo(db) ==
    IF cfg.storage.synchronous = "full"
    THEN synced' = db /\ unsynced' = <<>>
    ELSE unsynced' = Append(unsynced, db) /\ UNCHANGED synced

(***************************************************************************)
(* init: the statements, in order.  The indexes are left out.              *)
(***************************************************************************)
HasColumn(db, table, column) ==
    table \in DOMAIN db.schema /\ column \in db.schema[table]

Create(table, columns) == [op |-> "create", table |-> table, columns |-> columns]
Alter(op, table, column) == [op |-> op, table |-> table, columns |-> {column}]

StatementsForgetEpoch ==
    <<Create("key_packages", {"key_package_ref"}),
      Create("welcomes", {"key_package_reference"}),
      Create("join_requests", {"key_package_ref"}),
      Alter("add", "welcomes", "join_after_cursor"),
      Create("group_routing", {"last_message_cursor"}),
      Create("group_messages", {"cursor"}),
      Alter("drop", "group_messages", "ephemeral_sender_pubkey"),
      Alter("drop", "group_routing", "latest_handshake_epoch")>>

(* Columns no statement of init is about are not listed. *)
Statements ==
    <<Create("key_packages", {"key_package_ref"}),
      Create("welcomes", {"key_package_reference"}),
      Create("join_requests", {"key_package_ref"}),
      Alter("add", "welcomes", "join_after_cursor"),
      Create("group_routing", {"last_message_cursor"}),
      Create("group_messages", {"cursor"}),
      Alter("drop", "group_messages", "ephemeral_sender_pubkey"),
      Alter("drop", "group_messages", "epoch"),
      Alter("drop", "group_routing", "latest_handshake_epoch")>>

NeededUnguarded(db, s) == s.op # "create" \/ s.table \notin DOMAIN db.schema

(* IF NOT EXISTS, and the has_column tests before the migrations. *)
Needed(db, s) ==
    CASE s.op = "create" -> s.table \notin DOMAIN db.schema
      [] s.op = "add" -> \A c \in s.columns : ~ HasColumn(db, s.table, c)
      [] s.op = "drop" -> \A c \in s.columns : HasColumn(db, s.table, c)

(* SQLite's own verdict: ALTER needs the table, and the column to be       *)
(* absent or present.                                                      *)
Possible(db, s) ==
    CASE s.op = "create" -> TRUE
      [] s.op = "add" -> /\ s.table \in DOMAIN db.schema
                         /\ \A c \in s.columns : ~ HasColumn(db, s.table, c)
      [] s.op = "drop" -> \A c \in s.columns : HasColumn(db, s.table, c)

Migrated(db, s) ==
    LET old == IF s.table \in DOMAIN db.schema THEN db.schema[s.table] ELSE {}
        new == IF s.op = "drop" THEN old \ s.columns ELSE old \cup s.columns
    IN  [db EXCEPT !.schema = [t \in DOMAIN @ \cup {s.table} |->
                                 IF t = s.table THEN new ELSE @[t]]]

-----------------------------------------------------------------------------
(* What the operator asked for: the process environment has the last word, *)
(* then .env, then .env.local, and in a file the first assignment; an      *)
(* empty text is no request.                                               *)
Asked(name, default) ==
    LET files == sources.env \o sources.env_local
        at == FirstAssignment(files, name)
        text == IF name \in DOMAIN sources.process THEN sources.process[name]
                ELSE IF at = 0 THEN "" ELSE files[at][2]
    IN  IF text = "" THEN default ELSE text

(* A message, where it is stored, and whether it was promised to outlive a *)
(* power loss.                                                             *)
Promise(backend, cursor, message, durable) ==
    [backend |-> backend, cursor |-> cursor, message |-> message, durable |-> durable]

(* What config::load makes of the sources when the server is next started; *)
(* signer::from_sk (external) refuses some texts, and without one a key is *)
(* generated.                                                              *)
Load(e) ==
    LET env == LoadEnvFiles(e)
    IN  IF OptString(env, "CORDN_SERVER_PRIVATE_KEY", "generated") = "not a key"
        THEN Err ELSE ReadServerConfig(env)

Init ==
    /\ sources \in Environments
    /\ loaded = Load(sources)
    /\ process = "down"
    /\ cfg = NoConfig
    /\ step = 0
    /\ synced \in Databases
    /\ unsynced = <<>>
    /\ memory = <<>>
    /\ tx = NoTx
    /\ posted = 0
    /\ crashes = 0
    /\ given = {Promise("sqlite", c, synced.messages[c], TRUE) : c \in DOMAIN synced.messages}

(* The operator edits the environment or the files while the server is down. *)
Configure(e) ==
    /\ process \in {"down", "stopped"}
    /\ sources' = e
    /\ loaded' = Load(e)
    /\ UNCHANGED <<running, disk, memory, tx, posted, crashes, given>>

(* main up to the storage: a bad configuration or key ends the process,    *)
(* the memory backend starts empty, the sqlite backend opens its file.     *)
Start ==
    /\ process \in {"down", "stopped"}
    /\ loaded.ok
    /\ cfg' = loaded.value
    /\ process' = IF cfg'.storage.backend = "memory" THEN "serving" ELSE "opening"
    /\ memory' = <<>>
    /\ step' = 0
    /\ UNCHANGED <<configuration, disk, tx, posted, crashes, given>>

OpenStep ==
    LET s == Statements[step + 1] IN
    /\ process = "opening"
    /\ IF ~ Needed(Database, s) THEN
         /\ step' = step + 1
         /\ process' = IF step' = Len(Statements) THEN "serving" ELSE "opening"
         /\ UNCHANGED disk
       ELSE IF Possible(Database, s) THEN
         /\ step' = step + 1
         /\ process' = IF step' = Len(Statements) THEN "serving" ELSE "opening"
         /\ CommitTo(Migrated(Database, s))
       ELSE
         /\ process' = "refused"
         /\ UNCHANGED <<step, disk>>
    /\ UNCHANGED <<configuration, cfg, memory, tx, posted, crashes, given>>

(***************************************************************************)
(* append_group_message                                                    *)
(***************************************************************************)
(* The memory backend appends in one step under its mutex. *)
AppendInMemory ==
    /\ process = "serving"
    /\ cfg.storage.backend = "memory"
    /\ tx = NoTx
    /\ posted < MaxPosts
    /\ posted' = posted + 1
    /\ memory' = Append(memory, posted + 1)
    /\ tx' = [at |-> "committed", cursor |-> Len(memory) + 1, message |-> posted + 1]
    /\ UNCHANGED <<configuration, running, disk, crashes, given>>

(* The transaction begins by reading the counter.  The error for a cursor  *)
(* that is not positive is left out: a counter is never negative, and no   *)
(* log comes near 2^63 messages.                                           *)
BeginPost ==
    /\ process = "serving"
    /\ cfg.storage.backend = "sqlite"
    /\ tx = NoTx
    /\ posted < MaxPosts
    /\ posted' = posted + 1
    /\ tx' = [at |-> "read", cursor |-> Database.last_message_cursor + 1,
              message |-> posted + 1, db |-> Database]
    /\ UNCHANGED <<configuration, running, disk, memory, crashes, given>>

InsertMessageCommits ==
    /\ tx.at = "read"
    /\ tx.cursor \notin DOMAIN tx.db.messages
    /\ LET db == [tx.db EXCEPT !.messages = [c \in DOMAIN @ \cup {tx.cursor} |->
                                              IF c = tx.cursor THEN tx.message ELSE @[c]]]
       IN  CommitTo(db) /\ tx' = [tx EXCEPT !.at = "inserted", !.db = db]
    /\ UNCHANGED <<configuration, running, memory, posted, crashes, given>>

(* (group_id, cursor) is unique: an insert at a cursor in use is an error. *)
InsertMessage ==
    /\ tx.at = "read"
    /\ tx.cursor \notin DOMAIN tx.db.messages
    /\ tx' = [tx EXCEPT !.at = "inserted",
                        !.db.messages = [c \in DOMAIN @ \cup {tx.cursor} |->
                                           IF c = tx.cursor THEN tx.message ELSE @[c]]]
    /\ UNCHANGED <<configuration, running, disk, memory, posted, crashes, given>>

UpsertRouting ==
    /\ tx.at = "inserted"
    /\ tx' = [tx EXCEPT !.at = "routed", !.db.last_message_cursor = tx.cursor]
    /\ UNCHANGED <<configuration, running, disk, memory, posted, crashes, given>>

Commit ==
    /\ tx.at = "routed"
    /\ CommitTo(tx.db)
    /\ tx' = [tx EXCEPT !.at = "committed"]
    /\ UNCHANGED <<configuration, running, memory, posted, crashes, given>>

(* The client is told its cursor, and may resume from it ever after, as    *)
(* far as the operator asked for.                                          *)
Reply ==
    /\ tx.at = "committed"
    /\ given' = given \cup {Promise(Asked("CORDN_STORAGE_BACKEND", "memory"), tx.cursor,
                                    tx.message,
                                    Asked("CORDN_SQLITE_SYNCHRONOUS", "normal") \in FullTexts)}
    /\ tx' = NoTx
    /\ UNCHANGED <<configuration, running, disk, memory, posted, crashes>>

(* A statement fails: the transaction is rolled back as it is dropped. *)
PostFails ==
    /\ tx.at \in {"read", "inserted", "routed"}
    /\ tx' = NoTx
    /\ UNCHANGED <<configuration, running, disk, memory, posted, crashes, given>>

(* SQLite copies the log into the database file and syncs (external). *)
Checkpoint ==
    /\ process = "serving"
    /\ tx.at \in {"none", "committed"}
    /\ unsynced # <<>>
    /\ synced' = Last(unsynced)
    /\ unsynced' = <<>>
    /\ UNCHANGED <<configuration, running, memory, tx, posted, crashes, given>>

(* The process is gone, with the open transaction and the memory backend. *)
ProcessEnds(state) ==
    /\ process' = state
    /\ cfg' = NoConfig
    /\ step' = 0
    /\ memory' = <<>>
    /\ tx' = NoTx

(* SIGINT, SIGTERM or the end of the service: no storage call is cut off. *)
Shutdown ==
    /\ process = "serving"
    /\ tx.at \in {"none", "committed"}
    /\ ProcessEnds("stopped")
    /\ given' = {r \in given : r.backend = "sqlite"}
    /\ UNCHANGED <<configuration, disk, posted, crashes>>

Crash ==
    /\ process \in {"opening", "serving"}
    /\ crashes < MaxCrashes
    /\ crashes' = crashes + 1
    /\ ProcessEnds("down")
    /\ given' = {r \in given : r.backend = "sqlite"}
    /\ UNCHANGED <<configuration, disk, posted>>

(* The machine goes down: a prefix of the commits not yet synced is left.  *)
(* Clients were promised more than that only under synchronous=full.       *)
PowerLoss ==
    /\ crashes < MaxCrashes
    /\ crashes' = crashes + 1
    /\ ProcessEnds("down")
    /\ \E n \in 0 .. Len(unsynced) :
         synced' = IF n = 0 THEN synced ELSE unsynced[n]
    /\ unsynced' = <<>>
    /\ given' = {r \in given : r.backend = "sqlite" /\ r.durable}
    /\ UNCHANGED <<configuration, posted>>

Serve ==
    \/ AppendInMemory
    \/ BeginPost
    \/ InsertMessage
    \/ UpsertRouting
    \/ Commit
    \/ Reply
    \/ PostFails

Next ==
    \/ \E e \in Environments : Configure(e)
    \/ Start
    \/ OpenStep
    \/ Serve
    \/ Checkpoint
    \/ Shutdown
    \/ Crash
    \/ PowerLoss

Spec == Init /\ [][Next]_vars

(* The service manager starts the server after a failure and at boot, not  *)
(* after an orderly stop, and a process that is opening its database goes  *)
(* on.                                                                     *)
FairSpec ==
    /\ Spec
    /\ WF_vars(process = "down" /\ Start)
    /\ WF_vars(OpenStep)

-----------------------------------------------------------------------------
Images == {synced} \cup ToSet(unsynced)

TypeOK ==
    /\ sources \in Environments
    /\ process \in {"down", "opening", "serving", "refused", "stopped"}
    /\ process \in {"opening", "serving"} =>
         cfg.storage.backend \in {"memory", "sqlite"} /\ cfg.burst \in Nat
    /\ step \in 0 .. Len(Statements)
    /\ \A db \in Images : /\ DOMAIN db.messages \subseteq Nat
                          /\ db.last_message_cursor \in Nat
                          /\ \A t \in DOMAIN db.schema : db.schema[t] # {}
    /\ memory \in Seq(1 .. MaxPosts)
    /\ tx.at \in {"none", "read", "inserted", "routed", "committed"}
    /\ posted \in 0 .. MaxPosts /\ crashes \in 0 .. MaxCrashes

(* A cursor a client was given designates the message it was given for,    *)
(* over crashes, restarts, migrations and new configurations: so a client  *)
(* that resumes after it misses nothing and gets nothing twice.  A power   *)
(* loss may break that only if the operator did not ask for full, the end  *)
(* of the process only if it did not ask for sqlite.  (An operator who     *)
(* changes CORDN_SQLITE_PATH, or sets it to ":memory:", asks for another   *)
(* database; that is left out.)                                            *)
PromisesKept ==
    \A r \in given :
        LET stored == IF r.backend = "sqlite" THEN Database.messages ELSE memory
        IN  r.cursor \in DOMAIN stored /\ stored[r.cursor] = r.message

(* Whatever a crash or a power loss leaves on disk, the group's counter is *)
(* the cursor of its last message and there is no hole below it: the next  *)
(* post gets a new cursor, and the unique index does not refuse it.        *)
CountersMatchLog ==
    \A db \in Images : DOMAIN db.messages = 1 .. db.last_message_cursor

(* Posts are served only on the current schema, also when an earlier start *)
(* was cut off in the middle of the migrations.  The column encrypted of   *)
(* files from before 0.5 is not a matter of init and may stay.             *)
ServesCurrentSchema ==
    process = "serving" /\ cfg.storage.backend = "sqlite" =>
        /\ DOMAIN Database.schema = {Statements[k].table : k \in DOMAIN Statements}
        /\ HasColumn(Database, "welcomes", "join_after_cursor")
        /\ Database.schema["group_messages"] \ {"encrypted"} = {"cursor"}
        /\ Database.schema["group_routing"] = {"last_message_cursor"}

(* A server that went down and can read its configuration comes up again,  *)
(* whatever database the starts before have left.                          *)
ComesUp ==
    process = "down" /\ loaded.ok ~> (process = "serving" \/ ~ loaded.ok)
=============================================================================
