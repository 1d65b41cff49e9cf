----------------------------- MODULE RunConfig -----------------------------
(***************************************************************************)
(* The configuration of a process of dmt: what loading a file makes of it  *)
(* on a machine.  Values that the file leaves out come from the global     *)
(* defaults of the secrets file, from the driver of each database and from *)
(* the machine's cores and memory; the result is validated, and the flags  *)
(* of the run command are put on top of it.  A run keeps a hash of all     *)
(* that, for resume to compare.                                            *)
(*                                                                         *)
(* A file is a record with the fields of config.Config that matter here;   *)
(* "" and 0 are values it leaves out.  Of the settings that are derived    *)
(* from the machine and only tune a transfer (workers, readers, writers,   *)
(* buffers, chunk sizes, all in the hash) the workers stand for the rest.  *)
(***************************************************************************)
EXTENDS Integers

SetOr(n, default) == IF n = 0 THEN default ELSE n
NameOr(name, default) == IF name = "" THEN default ELSE name
Clamp(low, n, high) == IF n < low THEN low ELSE IF n > high THEN high ELSE n

-----------------------------------------------------------------------------
(***************************************************************************)
(* The registry of drivers.                                                *)
(***************************************************************************)

Aliases == [mssql    |-> {"mssql", "sqlserver", "sql-server"},
            mysql    |-> {"mysql", "mariadb", "maria"},
            oracle   |-> {"oracle", "ora", "oracledb"},
            postgres |-> {"postgres", "postgresql", "pg"}]
Drivers == DOMAIN Aliases

Registered(type) == \E d \in Drivers : type \in Aliases[d]
Canonicalize(type) ==
  IF Registered(type) THEN CHOOSE d \in Drivers : type \in Aliases[d] ELSE type

DriverDefaults ==
  [mssql    |-> [port |-> 1433, schema |-> "dbo"],
   mysql    |-> [port |-> 3306, schema |-> ""],
   oracle   |-> [port |-> 1521, schema |-> ""],
   postgres |-> [port |-> 5432, schema |-> "public"]]

DefaultOf(type, field, otherwise) ==
  IF Registered(type) THEN DriverDefaults[Canonicalize(type)][field] ELSE otherwise

\* Hosts are compared without regard to case.
Fold(host) == IF host = "DB1" THEN "db1" ELSE host

-----------------------------------------------------------------------------
(***************************************************************************)
(* Defaults.                                                               *)
(***************************************************************************)

\* What the global defaults give a setting that the file leaves out.
ApplyGlobalDefaults(file, defaults) ==
  [file EXCEPT !.workers = SetOr(@, defaults.workers)]

\* One side of the migration.  The database's name is the schema of type "mysql",
\* which is not the name of an alias.
Endpoint(side, fallback, isTarget) ==
  LET type == NameOr(side.type, fallback)
      schema == NameOr(side.schema, DefaultOf(type, "schema", ""))
  IN [side EXCEPT !.type = type,
                  !.port = SetOr(@, DefaultOf(type, "port", 0)),
                  !.schema = IF isTarget /\ type = "mysql" THEN NameOr(schema, side.database)
                             ELSE schema]

AutoWorkers(machine) == Clamp(4, machine.cores - 2, 12)

ApplyDefaults(written, machine) ==
  LET file == ApplyGlobalDefaults(written, machine.defaults)
  IN [source |-> Endpoint(file.source, "mssql", FALSE),
      target |-> Endpoint(file.target, "postgres", TRUE),
      mode |-> NameOr(file.mode, "drop_recreate"),
      workers |-> SetOr(file.workers, AutoWorkers(machine)),
      dateColumns |-> file.dateColumns]

-----------------------------------------------------------------------------
(***************************************************************************)
(* Validation, flags and the hash.                                         *)
(***************************************************************************)

Named(side) == side.host # "" /\ side.database # "" /\ Registered(side.type)

Valid(cfg) ==
  /\ Named(cfg.source) /\ Named(cfg.target)
  /\ ~ /\ Canonicalize(cfg.source.type) = Canonicalize(cfg.target.type)
       /\ Fold(cfg.source.host) = Fold(cfg.target.host)
       /\ cfg.source.port = cfg.target.port
       /\ cfg.source.database = cfg.target.database
  /\ cfg.mode \in {"drop_recreate", "upsert"}

\* --workers, of the run command only.
WithFlags(cfg, flags) == [cfg EXCEPT !.workers = SetOr(flags.workers, @)]

Sanitized(cfg) ==
  [cfg EXCEPT !.source.password = "[REDACTED]", !.target.password = "[REDACTED]"]

\* Two configurations have the same hash if they are equal but for passwords.
ComputeConfigHash(cfg) == Sanitized(cfg)
=============================================================================
