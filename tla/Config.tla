------------------------------- MODULE Config -------------------------------
(***************************************************************************)
(* load_toml_config (src/config/toml_loader.cpp): the values of a TOML file  *)
(* over a base AppConfig, validated in the order of the code.                *)
(*                                                                           *)
(* A file is a function from the dotted names of its keys to values          *)
(* <<type, value>>, the type being the one value<T>() of toml++ accepts      *)
(* ("other" for none).  max_body_size is counted in KiB: its limit in bytes  *)
(* is beyond TLC's integers.                                                 *)
(***************************************************************************)
EXTENDS Integers, Sequences

(* The order of validation; a section comes before its keys. *)
Keys == <<"port", "host", "backlog", "max_body_size", "request_timeout",
          "max_header_count", "max_read_bytes",
          "executor", "executor.thread_count", "executor.cpu_pool_threads",
          "executor.drain_timeout",
          "logging", "logging.enabled", "logging.level", "logging.format",
          "logging.destination", "logging.file_path", "logging.queue_capacity">>

IntegerKeys == {"port", "backlog", "max_body_size", "request_timeout", "max_header_count",
                "max_read_bytes", "executor.thread_count", "executor.cpu_pool_threads",
                "executor.drain_timeout", "logging.queue_capacity"}

Limits ==
    [k \in IntegerKeys |->
        CASE k \in {"port", "backlog"}           -> <<1, 65535>>
          [] k = "max_body_size"                 -> <<1, 2097152>>
          [] k \in {"request_timeout", "executor.drain_timeout"} -> <<1, 3600>>
          [] k = "max_header_count"              -> <<1, 1000>>
          [] k = "max_read_bytes"                -> <<512, 16777216>>
          [] k = "executor.thread_count"         -> <<0, 1024>>
          [] k = "executor.cpu_pool_threads"     -> <<0, 256>>
          [] k = "logging.queue_capacity"        -> <<1, 1048576>>]

(* The names the logging section knows for the values of an enumeration. *)
Names ==
    [k \in {"logging.level", "logging.format", "logging.destination"} |->
        CASE k = "logging.level"       -> [trace |-> "Trace", debug |-> "Debug", info |-> "Info",
                                           warn |-> "Warn", error |-> "Error", fatal |-> "Fatal"]
          [] k = "logging.format"      -> [json |-> "Json", pretty |-> "Pretty"]
          [] k = "logging.destination" -> [stdout |-> "Stdout", stderr |-> "Stderr",
                                           file |-> "File", disabled |-> "Disabled"]]

(* AppConfig{} *)
Fields == IntegerKeys \cup DOMAIN Names \cup {"host", "logging.enabled", "logging.file_path"}

Defaults ==
    [k \in Fields |->
        CASE k = "port"                      -> 8080
          [] k = "host"                      -> "0.0.0.0"
          [] k = "backlog"                   -> 1024
          [] k = "max_body_size"             -> 10240
          [] k = "max_header_count"          -> 100
          [] k = "max_read_bytes"            -> 65536
          [] k = "executor.thread_count"     -> 0
          [] k = "executor.cpu_pool_threads" -> 4
          [] k \in {"request_timeout", "executor.drain_timeout"} -> 30
          [] k = "logging.enabled"           -> TRUE
          [] k = "logging.level"             -> "Info"
          [] k = "logging.format"            -> "Json"
          [] k = "logging.destination"       -> "Stdout"
          [] k = "logging.file_path"         -> ""
          [] k = "logging.queue_capacity"    -> 8192]

-----------------------------------------------------------------------------
(* An integer within limits, ends included. *)
in_range(key, v) == v[1] = "int" /\ Limits[key][1] <= v[2] /\ v[2] <= Limits[key][2]

(* Mutant: the upper limit is one too high. *)
valid_top_level_OffByOne(key, v) ==
    IF key = "host" THEN v[1] = "string" /\ v[2] # ""
    ELSE v[1] = "int" /\ Limits[key][1] <= v[2] /\ v[2] <= Limits[key][2] + 1

valid_top_level(key, v) ==
    IF key = "host" THEN v[1] = "string" /\ v[2] # "" ELSE in_range(key, v)

(* A section that is present must be a table. *)
valid_executor(key, v) ==
    IF key = "executor" THEN v[1] = "table" ELSE in_range(key, v)

valid_logging(key, v) ==
    IF key = "logging" THEN v[1] = "table"
    ELSE IF key = "logging.enabled" THEN v[1] = "bool"
    ELSE IF key \in DOMAIN Names THEN v[1] = "string" /\ v[2] \in DOMAIN Names[key]
    ELSE IF key = "logging.file_path" THEN v[1] = "string"
    ELSE in_range(key, v)

TopLevelKeys == {Keys[i] : i \in 1..7}
ExecutorKeys == {Keys[i] : i \in 8..11}

valid(key, v) ==
    IF key \in TopLevelKeys THEN valid_top_level(key, v)
    ELSE IF key \in ExecutorKeys THEN valid_executor(key, v) ELSE valid_logging(key, v)

(* The port becomes a std::uint16_t; the names of an enumeration its values. *)
field(key, v) ==
    IF key = "port" THEN v[2] % 65536
    ELSE IF key \in DOMAIN Names THEN Names[key][v[2]] ELSE v[2]

-----------------------------------------------------------------------------
Failed(code, key) == [error |-> code, key |-> key, config |-> <<>>]

(* Unknown keys are only warned about; the first invalid one ends the load. *)
load_toml_config(file, base) ==
    LET present == {i \in DOMAIN Keys : Keys[i] \in DOMAIN file.values}
        bad     == {i \in present : ~valid(Keys[i], file.values[Keys[i]])}
    IN  IF file.status = "missing" THEN Failed("FileNotFound", "")
        ELSE IF file.status = "unreadable" THEN Failed("ParseError", "")
        ELSE IF bad # {}
        THEN Failed("InvalidValue", Keys[CHOOSE i \in bad : \A j \in bad : i <= j])
        ELSE [error |-> "none", key |-> "",
              config |-> [k \in DOMAIN base |->
                             IF k \in DOMAIN file.values THEN field(k, file.values[k])
                             ELSE base[k]]]

(* App::create: no path, or an empty one, is the base alone. *)
create(file, base) ==
    IF file.status = "no path"
    THEN [error |-> "none", key |-> "", config |-> base]
    ELSE load_toml_config(file, base)

-----------------------------------------------------------------------------
(* LogWriter::open_destination: whether the writer may start, and may fail to. *)
destination_opens(c) ==
    c["logging.destination"] # "File" \/ c["logging.file_path"] # ""
destination_fails(c) == c["logging.destination"] = "File"
=============================================================================
