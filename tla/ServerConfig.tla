---------------------------- MODULE ServerConfig ----------------------------
(***************************************************************************)
(* The server's configuration (cordn-server/src/config.rs): the process    *)
(* environment completed from the files .env and .env.local, and the       *)
(* values read from it with their defaults and errors.                     *)
(*                                                                         *)
(* An environment is a function from the variables that are set to their   *)
(* trimmed text; a file is the sequence of the assignments that parse.     *)
(***************************************************************************)
EXTENDS Integers, Sequences, SequencesExt

CONSTANTS
    I64Texts,   \* texts that parse as an i64, with their value
    Width,      \* bits of an i64
    DayMs,      \* milliseconds of a day
    SecondMs    \* milliseconds of a second

ASSUME WidthAssumption == Width \in Nat \ {0} /\ DayMs \in Nat /\ SecondMs \in Nat

ASSUME TextsAssumption == \A text \in DOMAIN I64Texts : I64Texts[text] \in Int

(***************************************************************************)
(* load_env_files                                                          *)
(***************************************************************************)
(* Where a file first assigns a variable, 0 if nowhere. *)
FirstAssignment(file, name) == SelectInSeq(file, LAMBDA a : a[1] = name)

LoadEnvFileOverwriting(env, file) ==
    [name \in DOMAIN env \cup {file[k][1] : k \in DOMAIN file} |->
        LET at == FirstAssignment(file, name)
        IN  IF at # 0 THEN file[at][2] ELSE env[name]]

(* One file: the first assignment of a variable counts, and one that is    *)
(* set already, were it to the empty text, is left alone.                  *)
LoadEnvFile(env, file) ==
    [name \in DOMAIN env \cup {file[k][1] : k \in DOMAIN file} |->
        IF name \in DOMAIN env THEN env[name]
        ELSE file[FirstAssignment(file, name)][2]]

LoadEnvFiles(sources) ==
    LoadEnvFile(LoadEnvFile(sources.process, sources.env), sources.env_local)

(***************************************************************************)
(* read_server_config.  A reader returns a value or Err.                   *)
(***************************************************************************)
Ok(v) == [ok |-> TRUE, value |-> v]
Err == [ok |-> FALSE]

(* opt_string: an empty variable reads as an unset one. *)
Given(env, name) == name \in DOMAIN env /\ env[name] # ""
OptString(env, name, default) == IF Given(env, name) THEN env[name] ELSE default

OptBool(env, name, default) ==
    LET text == OptString(env, name, IF default THEN "true" ELSE "false")
    IN  CASE text \in {"true", "1"} -> Ok(TRUE)
          [] text \in {"false", "0"} -> Ok(FALSE)
          [] OTHER -> Err

PosIntSigned(env, name, default) ==
    IF ~ Given(env, name) THEN Ok(default)
    ELSE IF env[name] \in DOMAIN I64Texts THEN Ok(I64Texts[env[name]])
    ELSE Err

PosInt(env, name, default) ==
    IF ~ Given(env, name) THEN Ok(default)
    ELSE IF env[name] \in DOMAIN I64Texts /\ I64Texts[env[name]] >= 0
    THEN Ok(I64Texts[env[name]])
    ELSE Err

(* i64 multiplication; the release build wraps. *)
Wrap(n) == ((n + 2 ^ (Width - 1)) % 2 ^ Width) - 2 ^ (Width - 1)

Scaled(read, factor) == IF read.ok THEN Ok(Wrap(read.value * factor)) ELSE read

(* Synchronous::from_config ignores the case; three spellings stand for all. *)
FullTexts == {"full", "Full", "FULL"}
NormalTexts == {"normal", "Normal", "NORMAL"}

(* Read only with the sqlite backend. *)
Synchronous(env) ==
    LET text == OptString(env, "CORDN_SQLITE_SYNCHRONOUS", "normal")
    IN  CASE text \in FullTexts -> Ok("full")
          [] text \in NormalTexts -> Ok("normal")
          [] OTHER -> Err

(* The path of the sqlite file, CORDN_SQLITE_PATH, is left out. *)
StorageOf(env) ==
    CASE OptString(env, "CORDN_STORAGE_BACKEND", "memory") = "memory" ->
           Ok([backend |-> "memory", synchronous |-> "normal"])
      [] OptString(env, "CORDN_STORAGE_BACKEND", "memory") = "sqlite" ->
           IF Synchronous(env).ok
           THEN Ok([backend |-> "sqlite", synchronous |-> Synchronous(env).value])
           ELSE Synchronous(env)
      [] OTHER -> Err

(* Texts that are only passed on (key, relays, name) cannot fail. *)
Reads(env) ==
    [is_announced |-> OptBool(env, "CORDN_ANNOUNCED", FALSE),
     storage |-> StorageOf(env),
     rate_limit_enabled |-> OptBool(env, "CORDN_RATE_LIMIT_ENABLED", TRUE),
     refill_per_minute |-> PosInt(env, "CORDN_RATE_LIMIT_REFILL_PER_MINUTE", 500),
     burst |-> PosInt(env, "CORDN_RATE_LIMIT_BURST", 160),
     idle_ttl_ms |->
       Scaled(PosInt(env, "CORDN_RATE_LIMIT_IDLE_TTL_SECONDS", 3600), SecondMs),
     max_per_identity |-> PosInt(env, "CORDN_MAX_KEY_PACKAGES_PER_IDENTITY", 50),
     max_last_resort_per_identity |->
       PosInt(env, "CORDN_MAX_LAST_RESORT_KEY_PACKAGES_PER_IDENTITY", 1),
     log_rejections |-> OptBool(env, "CORDN_LOG_ABUSE_REJECTIONS", TRUE),
     max_age_ms |-> Scaled(PosInt(env, "CORDN_MAX_AGE_DAYS", 30), DayMs)]

(* Any error is returned; which one comes first is left out. *)
ReadServerConfig(env) ==
    IF \E f \in DOMAIN Reads(env) : ~ Reads(env)[f].ok THEN Err
    ELSE Ok([f \in DOMAIN Reads(env) |-> Reads(env)[f].value])
=============================================================================
