------------------------------ MODULE DataSources ------------------------------
(***************************************************************************)
(* Configuration and data sources: NewConfig validates the configuration,  *)
(* SqlAdapters.Connect opens the default and then the external databases,  *)
(* DataManager hands connections out by alias, Disconnect closes them at   *)
(* shutdown.  There is one Adapter value per driver in the process, and it *)
(* remembers only the last connection it made.                             *)
(***************************************************************************)
EXTENDS Naturals, Sequences

CONSTANTS
  Aliases,         \* names of connections
  MaxDatabases     \* databases in the configuration, the default one included

VARIABLES
  databases,   \* the default database, then the external ones
  boot,        \* config, connecting, connected, panicked, closing, closed
  next,        \* the database Connect is about to open
  open,        \* databases that have an open handle (the *sql.DB or the one under GORM)
  held,        \* held[a]: the database adapter a's connection is to, 0 if none
  result,      \* result[n]: the database alias n stands for, 0 if none
  alias,       \* alias[n]: the adapter registered for alias n, or none
  left         \* aliases Disconnect has not reached yet

sourceVars == <<databases, boot, next, open, held, result, alias, left>>

\* RegisteredSQLAdapters, by DriverName.  A configuration may name none of them.
RegisteredSQLAdapters ==
  {"postgres-sql/db", "mysql", "postgres-gorm", "sqlite", "sqlite-gorm"}

\* A database of the configuration, whose fields are all filled in, or only the file's
\* name beside adapter and alias, or not even that.
DatabaseConfigs ==
  [adapter : RegisteredSQLAdapters \cup {"unknown"}, alias : Aliases,
   fields : {"all", "path", "few"}]

Entries == 0 .. MaxDatabases

SourceTypeOK ==
  /\ databases \in Seq(DatabaseConfigs) /\ Len(databases) \in 1 .. MaxDatabases
  /\ boot \in {"config", "connecting", "connected", "panicked", "closing", "closed"}
  /\ next \in 1 .. MaxDatabases + 1
  /\ open \subseteq 1 .. MaxDatabases
  /\ held \in [RegisteredSQLAdapters -> Entries] /\ result \in [Aliases -> Entries]
  /\ alias \in [Aliases -> RegisteredSQLAdapters \cup {"none"}] /\ left \subseteq Aliases

SourceInit ==
  /\ databases \in UNION {[1 .. n -> DatabaseConfigs] : n \in 1 .. MaxDatabases}
  /\ boot = "config" /\ next = 1 /\ open = {}
  /\ held = [a \in RegisteredSQLAdapters |-> 0] /\ result = [n \in Aliases |-> 0]
  /\ alias = [n \in Aliases |-> "none"] /\ left = {}

IsSQLite(d) == d.adapter \in {"sqlite", "sqlite-gorm"}

\* Database.Validate: SQLite needs an adapter and an alias only.
ValidateDatabase(d) == IsSQLite(d) \/ d.fields = "all"

\* Config.Validate: the default database and each external one; other says whether
\* the sections app and apis are valid.
ValidateConfig(other) ==
  other /\ \A i \in DOMAIN databases : ValidateDatabase(databases[i])

\* NewConfig panics if the file is missing or malformed (readable is false) or its
\* contents are not valid.
NewConfig(readable, other) ==
  /\ boot = "config"
  /\ boot' = IF readable /\ ValidateConfig(other) THEN "connecting" ELSE "panicked"
  /\ UNCHANGED <<databases, next, open, held, result, alias, left>>

-------------------------------------------------------------------------------
(* Connect of each adapter: the type of the handle it returns if the other    *)
(* side lets it in, or an error because the configuration is not enough.      *)

Postgres(d) == IF d.fields = "all" THEN "sql" ELSE "error"

MySQL(d) == IF d.fields = "all" THEN "sql" ELSE "error"

\* A Postgres value of its own, wrapped.
PostgresGorm(d) == IF Postgres(d) = "sql" THEN "gorm" ELSE "error"

\* The path, else the name of the database, names the file; one is required.
SQLite(d) == IF d.fields \in {"all", "path"} THEN "sql" ELSE "error"

\* A SQLite value of its own, wrapped.
SQLiteGorm(d) == IF SQLite(d) = "sql" THEN "gorm" ELSE "error"

\* getAdapterByDriver and the adapter's Connect.
InitConnection(d) ==
  IF d.adapter \notin RegisteredSQLAdapters THEN "error"
  ELSE CASE d.adapter = "postgres-sql/db" -> Postgres(d)
         [] d.adapter = "mysql" -> MySQL(d)
         [] d.adapter = "postgres-gorm" -> PostgresGorm(d)
         [] d.adapter = "sqlite" -> SQLite(d)
         [] d.adapter = "sqlite-gorm" -> SQLiteGorm(d)

\* Mutant: the connection is looked up in the adapter, which has only the last one.
Opened_ByAdapter(i) == [n \in Aliases |->
  IF n = databases[i].alias \/ alias[n] = databases[i].adapter THEN i ELSE result[n]]

\* The maps after database i was opened.
Opened(i) == [result EXCEPT ![databases[i].alias] = i]

\* initConnection opens the next database, and Connect enters it in its maps.
ConnectNext ==
  LET d == databases[next] IN
  /\ boot = "connecting" /\ next <= Len(databases) /\ InitConnection(d) # "error"
  /\ open' = open \cup {next}
  /\ held' = [held EXCEPT ![d.adapter] = next]
  /\ result' = Opened(next)
  /\ alias' = [alias EXCEPT ![d.alias] = d.adapter]
  /\ next' = next + 1
  /\ UNCHANGED <<databases, boot, left>>

\* No such adapter, not enough fields, or the other side does not answer: Connect
\* panics and takes the process with it, whatever it has opened so far.
ConnectFails ==
  /\ boot = "connecting" /\ next <= Len(databases)
  /\ boot' = "panicked" /\ open' = {}
  /\ UNCHANGED <<databases, next, held, result, alias, left>>

Connected ==
  /\ boot = "connecting" /\ next > Len(databases)
  /\ boot' = "connected"
  /\ UNCHANGED <<databases, next, open, held, result, alias, left>>

\* Close of the data manager: Disconnect ranges over the map of aliases.
Disconnect ==
  /\ boot = "connected"
  /\ boot' = "closing" /\ left' = {n \in Aliases : alias[n] # "none"}
  /\ UNCHANGED <<databases, next, open, held, result, alias>>

\* Mutant: the adapters over GORM do not close the handle under it.
Close_SqlOnly(a) == IF a \in {"postgres-gorm", "sqlite-gorm"} THEN open ELSE open \ {held[a]}

\* Close of an adapter: the handle it holds; closing it again is harmless.  The pgx pool
\* that Postgres.Connect makes its handle from is nobody's to close, and not modelled.
Close(a) == open \ {held[a]}

\* An alias's adapter is closed; an error is reported and the loop goes on.
CloseAlias(n) ==
  /\ boot = "closing" /\ n \in left
  /\ left' = left \ {n}
  /\ open' = Close(alias[n])
  /\ UNCHANGED <<databases, boot, next, held, result, alias>>

Disconnected ==
  /\ boot = "closing" /\ left = {}
  /\ boot' = "closed"
  /\ UNCHANGED <<databases, next, open, held, result, alias, left>>

SourceNext ==
  \/ \E readable, other \in BOOLEAN : NewConfig(readable, other)
  \/ ConnectNext \/ ConnectFails \/ Connected
  \/ Disconnect \/ Disconnected
  \/ \E n \in Aliases : CloseAlias(n)

SourceSpec == SourceInit /\ [][SourceNext]_sourceVars

-------------------------------------------------------------------------------
\* The adapter's connection of a name, 0 when there is none.
GetRaw(n) == result[n]

\* Get[T] of the data manager: the connection an alias stands for, if it is of type
\* T, else an error, which is 0 here.
Get(n, T) ==
  IF GetRaw(n) # 0 /\ InitConnection(databases[GetRaw(n)]) = T THEN GetRaw(n) ELSE 0

\* The fx constructors, which panic instead.
ProvideGorm(n) == Get(n, "gorm")
ProvideSQL(n) == Get(n, "sql")

LastWith(n) ==
  CHOOSE i \in DOMAIN databases :
    databases[i].alias = n /\ \A j \in DOMAIN databases : databases[j].alias = n => j <= i

\* While the application runs, an alias stands for the open connection to the last
\* database configured under it, and fx can have it as that database's type and as no
\* other, even if the adapter is shared with other databases.
AliasResolves ==
  boot = "connected" =>
    \A n \in {databases[i].alias : i \in DOMAIN databases} :
      /\ {ProvideGorm(n), ProvideSQL(n)} = {0, LastWith(n)}
      /\ InitConnection(databases[LastWith(n)]) = "gorm" <=> ProvideGorm(n) # 0
      /\ LastWith(n) \in open

\* After the shutdown a handle is left open only if a later database had its adapter or
\* its alias.
LeakNeedsSharing ==
  boot = "closed" =>
    \A i \in open : \E j \in i + 1 .. Len(databases) :
      databases[j].adapter = databases[i].adapter \/ databases[j].alias = databases[i].alias
===============================================================================
