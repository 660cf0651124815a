---------------------------- MODULE ConfigLoading ----------------------------
(***************************************************************************)
(* Where the options of a client come from: load_config and                *)
(* migrate_retired_options (lib/config.py) and the constructor             *)
(* (client.py).  The constructor keeps the options in the client, or       *)
(* raises.                                                                 *)
(*                                                                         *)
(* A layer says something of some options: it is a function whose domain   *)
(* they are.  A text is one of Texts, by what the code tells apart, and a  *)
(* value is a text with the type it has been given.  Which file is read    *)
(* (find_project_config) is left out.                                      *)
(***************************************************************************)
EXTENDS Functions

CONSTANTS
    Null,
    Defaults,       \* DEFAULT_CONFIG
    Retired,        \* _RETIRED
    Required,       \* the options without which the constructor raises
    Files,          \* what a configuration file may say,
    Environments,   \* the environment,
    Given           \* and the arguments of the constructor

Old == "retry_attempts"
New == "max_retry"

ASSUME ConfigAssumption ==
    /\ {New, "api_key"} \subseteq DOMAIN Defaults
    /\ DOMAIN Defaults \cap (Retired \cup {Old}) = {}
    /\ Old \notin Retired /\ "api_key" \in Required
    /\ \A args \in Given : DOMAIN args \subseteq DOMAIN Defaults

VARIABLE client     \* the layers that a client was built from and its options, or Null

-----------------------------------------------------------------------------
\* dict.update: what upper says comes before what lower says.
Over(upper, lower) ==
    [o \in DOMAIN upper \cup DOMAIN lower |->
        IF o \in DOMAIN upper THEN upper[o] ELSE lower[o]]

Texts == {"", "true", "false", "zero", "digits", "decimal", "negative", "other"}

TypeOf(text) ==
    CASE text \in {"true", "false"} -> "bool"
      [] text \in {"zero", "digits"} -> "int"
      [] text = "decimal" -> "float"
      [] OTHER -> "str"             \* a number with a sign as well

Read(text) == [type |-> TypeOf(text), text |-> text]
Verbatim(text) == [type |-> "str", text |-> text]

\* What Python takes for true.
Truthy(value) ==
    /\ value # Null
    /\ value.text # ""
    /\ value.type = "bool" => value.text # "false"
    /\ value.type \in {"int", "float"} => value.text # "zero"

\* Fault: the old name wins over the new one.
MigratedOver(file) ==
    LET renamed == IF Old \in DOMAIN file THEN Over([o \in {New} |-> file[Old]], file) ELSE file
    IN Restrict(renamed, DOMAIN renamed \ (Retired \cup {Old}))

\* migrate_retired_options
Migrated(file) ==
    LET renamed == IF Old \in DOMAIN file THEN Over(file, [o \in {New} |-> file[Old]]) ELSE file
    IN Restrict(renamed, DOMAIN renamed \ (Retired \cup {Old}))

\* A file is a mapping, whose values YAML or JSON have typed, or lines that neither of the
\* two accepts, which are read one by one.  Anything else says nothing: no file, one that
\* cannot be opened, one that is empty, and also lines of the form key=value that YAML
\* accepts as one string, of which dict() makes an error that is only logged.
Said(file) ==
    IF file.format = "mapping" THEN Migrated(file.says)
    ELSE IF file.format = "lines"
         THEN Migrated([o \in DOMAIN file.says |-> Read(file.says[o].text)])
    ELSE [o \in {} |-> Null]

\* Only the options that have a default are looked for in the environment.
Environment(env) == [o \in DOMAIN env \cap DOMAIN Defaults |-> Read(env[o])]

\* load_config.  An api_key that is not true once it has been converted is looked up again,
\* and then taken as it is.
Loaded(file, env) ==
    LET config == Over(Environment(env), Over(Said(file), Defaults))
    IN IF Truthy(config["api_key"]) THEN config
       ELSE [config EXCEPT !["api_key"] =
               IF "api_key" \in DOMAIN env THEN Verbatim(env["api_key"]) ELSE Null]

\* An argument counts when it is true.
Arguments(args) ==
    Restrict([o \in DOMAIN args |-> Verbatim(args[o])],
             {o \in DOMAIN args : Truthy(Verbatim(args[o]))})

Options(file, env, args) == Over(Arguments(args), Loaded(file, env))

\* The constructor, which makes a client unless a required option is not true.
Construct(file, env, args) ==
    LET options == Options(file, env, args)
    IN /\ client = Null
       /\ \A o \in Required : o \in DOMAIN options /\ Truthy(options[o])
       /\ client' = [file |-> file, env |-> env, args |-> args, options |-> options]

LoadingInit == client = Null
LoadingNext == \E file \in Files, env \in Environments, args \in Given : Construct(file, env, args)
LoadingSpec == LoadingInit /\ [][LoadingNext]_client

-----------------------------------------------------------------------------
(* The precedence the README promises. *)

ByArgument(o, args) == o \in DOMAIN args /\ Truthy(Verbatim(args[o]))
ByEnvironment(o, env) == o \in DOMAIN env /\ o \in DOMAIN Defaults
Says(o, file) == file.format \in {"mapping", "lines"} /\ o \in DOMAIN file.says
ByFile(o, file) == Says(o, file) /\ o \notin Retired \cup {Old}
ByOldName(o, file) == o = New /\ ~ByFile(o, file) /\ Says(Old, file)

FileValue(o, file) == IF file.format = "lines" THEN Read(file.says[o].text) ELSE file.says[o]

PrecedenceHolds(file, env, args, options) ==
    /\ DOMAIN options = DOMAIN Defaults \cup {o \in DOMAIN file.says : ByFile(o, file)}
    /\ \A o \in DOMAIN options :
          IF ByArgument(o, args) THEN options[o] = Verbatim(args[o])
          ELSE IF ByEnvironment(o, env)
               THEN \/ options[o] = Read(env[o])
                    \/ o = "api_key" /\ options[o] = Verbatim(env[o])
          ELSE /\ ByFile(o, file) => options[o] = FileValue(o, file)
               /\ ByOldName(o, file) => options[o] = FileValue(Old, file)
               /\ ~ByFile(o, file) /\ ~ByOldName(o, file) => options[o] = Defaults[o]

\* Whatever the layers say: the options of a client are the ones that some layer names,
\* and each is what the highest layer that names it says, an argument, then the environment,
\* then the file, then the default.  A file may call an option by its old name as long as it
\* does not use the new one as well, and nothing it says of a retired option is left.  An
\* api_key of the environment may go without its conversion (README.md:456-461,
\* lib/config.py:55-81, 116-211).
Precedence ==
    client # Null => PrecedenceHolds(client.file, client.env, client.args, client.options)
=============================================================================
