---------------------------- MODULE MCDurableLog ----------------------------
(***************************************************************************)
(* Instance of DurableLog for TLC.                                         *)
(***************************************************************************)
EXTENDS DurableLog

Texts == [t \in {"-1", "7", "30"} |->
            CASE t = "-1" -> -1 [] t = "7" -> 7 [] t = "30" -> 30]

None == [name \in {} |-> ""]
Set(name, text) == [n \in {name} |-> text]

Sqlite == <<"CORDN_STORAGE_BACKEND", "sqlite">>
Mode(text) == <<"CORDN_SQLITE_SYNCHRONOUS", text>>

Source(proc, file, local) == [process |-> proc, env |-> file, env_local |-> local]

(* The defaults; full in a file, contradicted later in it and in the next  *)
(* file; a process variable over the file; an empty one over the file; and *)
(* values that are refused, one of them only where it is read.             *)
Operators ==
    {Source(None, <<>>, <<>>),
     Source(None, <<Sqlite, Mode("FULL"), Mode("normal")>>, <<Mode("normal")>>),
     Source(Set("CORDN_SQLITE_SYNCHRONOUS", "normal"), <<Sqlite, Mode("FULL")>>, <<>>),
     Source(Set("CORDN_SQLITE_SYNCHRONOUS", ""), <<Sqlite>>, <<Mode("full")>>),
     Source(None, <<Mode("turbo")>>, <<<<"CORDN_MAX_AGE_DAYS", "7">>>>),
     Source(None, <<Sqlite>>, <<Mode("turbo")>>),
     Source(Set("CORDN_RATE_LIMIT_BURST", "-1"), <<Sqlite>>, <<>>),
     Source(Set("CORDN_SERVER_PRIVATE_KEY", "not a key"), <<>>, <<>>)}

NoTables == [t \in {} |-> {}]

(* No file yet, and a schema of before 0.5 with a message in it. *)
FreshOrLegacy ==
    {[schema |-> NoTables, messages |-> <<>>, last_message_cursor |-> 0],
     [schema |-> [t \in {"group_routing", "group_messages"} |->
                    IF t = "group_routing"
                    THEN {"last_message_cursor", "latest_handshake_epoch"}
                    ELSE {"cursor", "epoch", "ephemeral_sender_pubkey", "encrypted"}],
      messages |-> <<0>>, last_message_cursor |-> 1]}
=============================================================================
