------------------------------ MODULE Startup ------------------------------
(***************************************************************************)
(* How processes start: servers (src/src/lib.rs, run) and CLI commands     *)
(* (src/src/cli.rs) read their settings (src/src/config.rs), migrate the   *)
(* database, see to its root user (src/src/service.rs, connect_with) and,  *)
(* servers only, share the key that signs session cookies                  *)
(* (src/src/auth/session.rs).  They share the files, nothing else, and may *)
(* start, crash and start again at any time.                               *)
(*                                                                         *)
(* A crash stands for every error that ends a start as well: an address    *)
(* in use, a statement that fails.                                         *)
(***************************************************************************)
EXTENDS Naturals

CONSTANTS
    Process,     \* processes, each started any number of times
    Directory,   \* where database files may be
    DefaultDir,  \* the working directory: DB_PATH has no directory
    Password,    \* passwords
    Default,     \* ROOT_PASSWORD
    Own,         \* the one the root user chooses
    Key,         \* the signing keys servers generate
    Migrations,  \* how many migrations there are
    Unset,       \* a setting nobody gave
    Empty,       \* an empty password
    Off          \* a process that does not run

ASSUME StartupAssumption ==
    /\ DefaultDir \in Directory
    /\ {Default, Own} \subseteq Password
    /\ Unset \notin Directory \cup Password \cup Key \cup Nat
    /\ Empty \notin Password \cup {Unset}
    /\ Migrations \in Nat \ {0}

VARIABLES
    process,   \* each process, how far it has come and with which settings
    schema,    \* each directory's main database: the migrations applied to it
    root,      \* its root user's password
    secret,    \* its signing key
    tables     \* the directories with a sessions database

startVars == <<process, schema, root, secret, tables>>

-----------------------------------------------------------------------------
(* Settings, each given or Unset.  A host, an address, a region and an     *)
(* e-mail are given the same way.                                          *)
Config == [db_path : Directory \cup {Unset},
           sessions_db_path : Directory \cup {Unset},
           default_max_retries : Nat \cup {Unset},
           root_password : Password \cup {Unset, Empty}]

NoConfig == [db_path |-> Unset, sessions_db_path |-> Unset,
             default_max_retries |-> Unset, root_password |-> Unset]

Defaults == [db_path |-> DefaultDir, sessions_db_path |-> Unset,
             default_max_retries |-> 2, root_password |-> Unset]

DataDirLayer(dir) == [NoConfig EXCEPT !.db_path = dir]

(* Deviation: an empty password is a password. *)
ApplyEmpty(self, other) ==
    [f \in DOMAIN self |-> IF other[f] # Unset THEN other[f] ELSE self[f]]

Apply(self, other) ==
    [f \in DOMAIN self |->
        IF other[f] # Unset /\ ~ (f = "root_password" /\ other[f] = Empty)
        THEN other[f] ELSE self[f]]

(* ConfigBuilder::load: the defaults, the environment, then --data-dir.    *)
LoadConfig(environment, dir) ==
    LET config == Apply(Defaults, environment)
    IN  IF dir = Unset THEN config ELSE Apply(config, DataDirLayer(dir))

Valid(config) == config.default_max_retries >= 1

(* What a process may run with.                                            *)
Settled == {config \in Config :
    /\ config.db_path # Unset
    /\ config.default_max_retries \in Nat
    /\ Valid(config)
    /\ config.root_password # Empty}

(* The sessions database is beside the main one unless it is placed.       *)
SessionsDb(config) ==
    IF config.sessions_db_path # Unset THEN config.sessions_db_path
    ELSE config.db_path

(* Deviation: the default counts as given. *)
GivenOrDefault(config) ==
    IF config.root_password \in {Unset, Empty} THEN Default ELSE config.root_password

Provided(config) ==
    IF config.root_password = Empty THEN Unset ELSE config.root_password

RootPassword(config) ==
    IF Provided(config) = Unset THEN Default ELSE Provided(config)

-----------------------------------------------------------------------------
(* `seen`: the version read before migrating; `key`: the signing key       *)
(* generated, then read.                                                   *)
Running == [kind : {"server", "command"}, config : Settled,
            at : {"version", "migrate", "check", "create", "reset",
                  "sessions", "store", "read", "ready"},
            seen : 0 .. Migrations, key : Key \cup {Unset}]

Of(p) == process[p].config.db_path
Reached(p, at) == process[p] # Off /\ process[p].at = at
To(p, at) == process' = [process EXCEPT ![p] = [@ EXCEPT !.at = at]]

(* A key nobody has: which one does not matter.                            *)
NewKey == CHOOSE k \in Key :
    /\ \A d \in Directory : secret[d] # k
    /\ \A p \in Process : process[p] = Off \/ process[p].key # k

(* What follows the root user.                                             *)
Afterwards(p) == IF process[p].kind = "server" THEN "sessions" ELSE "ready"

SetRoot(d, password) ==
    /\ root' = [root EXCEPT ![d] = password]
    /\ UNCHANGED <<schema, secret, tables>>

StartInit ==
    /\ process = [p \in Process |-> Off]
    /\ schema = [d \in Directory |-> 0]
    /\ root = [d \in Directory |-> Unset]
    /\ secret = [d \in Directory |-> Unset]
    /\ tables = {}

(* main: settings first; invalid ones end the process before any file is   *)
(* opened.                                                                 *)
Launch(p, kind, environment, dir) ==
    LET config == LoadConfig(environment, dir)
    IN  /\ process[p] = Off
        /\ Valid(config)
        /\ process' = [process EXCEPT ![p] =
             [kind |-> kind, config |-> config, at |-> "version", seen |-> 0,
              key |-> Unset]]
        /\ UNCHANGED <<schema, root, secret, tables>>

Crash(p) ==
    /\ process[p] # Off
    /\ process' = [process EXCEPT ![p] = Off]
    /\ UNCHANGED <<schema, root, secret, tables>>

(* migrate: which migrations are applied is read once.                     *)
ReadVersion(p) ==
    /\ Reached(p, "version")
    /\ process' = [process EXCEPT ![p] = [@ EXCEPT !.seen = schema[Of(p)], !.at = "migrate"]]
    /\ UNCHANGED <<schema, root, secret, tables>>

(* Each is applied in a transaction of its own, which fails, and the start *)
(* with it, when another process has applied it since.                     *)
Migrate(p) ==
    /\ Reached(p, "migrate")
    /\ \/ /\ process[p].seen = Migrations
          /\ To(p, "check")
          /\ UNCHANGED schema
       \/ /\ process[p].seen < Migrations
          /\ process[p].seen = schema[Of(p)]
          /\ process' = [process EXCEPT ![p].seen = @ + 1]
          /\ schema' = [schema EXCEPT ![Of(p)] = @ + 1]
       \/ /\ process[p].seen < Migrations
          /\ process[p].seen # schema[Of(p)]
          /\ process' = [process EXCEPT ![p] = Off]
          /\ UNCHANGED schema
    /\ UNCHANGED <<root, secret, tables>>

(* connect_with: is there a root user?                                     *)
CheckRoot(p) ==
    /\ Reached(p, "check")
    /\ To(p, IF root[Of(p)] = Unset THEN "create"
             ELSE IF Provided(process[p].config) # Unset THEN "reset"
             ELSE Afterwards(p))
    /\ UNCHANGED <<schema, root, secret, tables>>

(* One that another process has created since is left as it is.            *)
CreateRoot(p) ==
    /\ Reached(p, "create")
    /\ \/ /\ root[Of(p)] = Unset
          /\ SetRoot(Of(p), RootPassword(process[p].config))
       \/ /\ root[Of(p)] # Unset
          /\ UNCHANGED <<schema, root, secret, tables>>
    /\ To(p, Afterwards(p))

(* A password that was given replaces the one stored.                      *)
ResetRoot(p) ==
    /\ Reached(p, "reset")
    /\ SetRoot(Of(p), RootPassword(process[p].config))
    /\ To(p, Afterwards(p))

(* session::connect: tables that are there are left alone.                 *)
OpenSessions(p) ==
    /\ Reached(p, "sessions")
    /\ tables' = tables \cup {SessionsDb(process[p].config)}
    /\ To(p, "store")
    /\ UNCHANGED <<schema, root, secret>>

(* load_or_generate_session_key inserts a key unless there is one, ...     *)
(* (bound: while there are new keys).                                      *)
StoreKey(p) ==
    /\ Reached(p, "store")
    /\ NewKey \in Key
    /\ secret' = [secret EXCEPT ![Of(p)] = IF @ = Unset THEN NewKey ELSE @]
    /\ process' = [process EXCEPT ![p] = [@ EXCEPT !.key = NewKey, !.at = "read"]]
    /\ UNCHANGED <<schema, root, tables>>

(* Deviation: the server keeps the key it generated. *)
KeepKey(p) ==
    /\ Reached(p, "read")
    /\ To(p, "ready")
    /\ UNCHANGED <<schema, root, secret, tables>>

(* ... and reads back the one that is there.                               *)
ReadKey(p) ==
    /\ Reached(p, "read")
    /\ process' = [process EXCEPT ![p] = [@ EXCEPT !.key = secret[Of(p)], !.at = "ready"]]
    /\ UNCHANGED <<schema, root, secret, tables>>

(* A command has run, or a server has stopped.                             *)
End(p) ==
    /\ Reached(p, "ready")
    /\ process' = [process EXCEPT ![p] = Off]
    /\ UNCHANGED <<schema, root, secret, tables>>

(* The root user changes the password, with a command or in the web UI.    *)
ChooseOwn(d) ==
    /\ root[d] \notin {Unset, Own}
    /\ SetRoot(d, Own)
    /\ UNCHANGED process

Advance(p) ==
    \/ ReadVersion(p)
    \/ Migrate(p)
    \/ CheckRoot(p)
    \/ CreateRoot(p)
    \/ ResetRoot(p)
    \/ OpenSessions(p)
    \/ StoreKey(p)
    \/ ReadKey(p)

-----------------------------------------------------------------------------

(* The values the variables take: whatever was given, a process runs with  *)
(* a place for its files, a retry limit that is one and no empty password  *)
(* (config.rs, apply and validate).                                        *)
StartTypeOK ==
    /\ process \in [Process -> Running \cup {Off}]
    /\ schema \in [Directory -> 0 .. Migrations]
    /\ root \in [Directory -> Password \cup {Unset}]
    /\ secret \in [Directory -> Key \cup {Unset}]
    /\ tables \subseteq Directory

(* Servers on one database sign cookies with one key, the one it stores:   *)
(* a cookie is good with every server, after every restart                 *)
(* (session.rs, load_or_generate_session_key).                             *)
OneSessionKey ==
    \A p \in Process :
        Reached(p, "ready") /\ process[p].kind = "server"
            => process[p].key # Unset /\ process[p].key = secret[Of(p)]

(* A start replaces the password of a root user who is there by the one it *)
(* was given, never by a default or an empty one; a password changed       *)
(* elsewhere survives the starts that were given none (service.rs,         *)
(* connect_with; config.rs, apply).                                        *)
PasswordKept ==
    [][\A d \in Directory :
          root[d] # Unset /\ root'[d] # root[d]
              => \/ root'[d] = Own
                 \/ \E p \in Process :
                       /\ Reached(p, "reset")
                       /\ Of(p) = d
                       /\ process[p].config.root_password = root'[d]
      ]_startVars

(* Once a start that was given a password is past the root user, nobody    *)
(* gets in with the default one (service.rs, connect_with).                *)
GivenPasswordInForce ==
    \A p \in Process :
        process[p] # Off /\ process[p].at \in {"sessions", "store", "read", "ready"}
            => \/ Provided(process[p].config) = Unset
               \/ root[Of(p)] # Default

=============================================================================
