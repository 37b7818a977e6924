----------------------------- MODULE ConfigLoad -----------------------------
(***************************************************************************)
(* Config::load_pinned and validate (src/config.rs), and the commands that *)
(* load a configuration and serve it (src/main.rs): asb serve loads it     *)
(* twice, asb daemon once, while the file may be replaced at any moment.   *)
(*                                                                         *)
(* Texts are names; one that its rule refuses is Bad.                      *)
(***************************************************************************)
EXTENDS Integers, Sequences, Functions

CONSTANTS
    Contents,    \* what the configuration file may hold when a command starts
    Edits,       \* what it may be replaced by meanwhile
    Absent,      \* no pin is given, nothing is served
    Bad

\* The capabilities of either kind are a list.
ASSUME ConfigLoadAssumption ==
    /\ Edits \subseteq Contents /\ Absent \notin Contents
    /\ \A c \in Contents : c.http \in Seq(Range(c.http)) /\ c.ssh \in Seq(Range(c.ssh))

VARIABLES
    file,      \* content of the file, which is regular and not writable by others
    pin,       \* the content whose digest was given as --config-sha256, if any
    command,   \* which command runs, and the point it is at
    checked,   \* the content of the first load of asb serve
    served     \* the content that the server was built from

loadVars == <<file, pin, command, checked, served>>

MaxTimeout == 300
MaxBytes == 4 * 1024 * 1024
MaxRate == 60000

\* The ranges of limits, of both kinds of capability.
ValidLimits(c) ==
    /\ c.timeout \in 1..MaxTimeout /\ c.bytes \in 1..MaxBytes /\ c.rate \in 1..MaxRate

\* Capability::validate; bare: base_url has a host and no user, query or fragment.
ValidHttp(c) ==
    /\ Bad \notin {c.id, c.credential} \cup c.paths
    /\ c.methods # {} /\ c.paths # {}
    /\ c.methods \subseteq {"GET", "HEAD", "POST", "PUT", "PATCH", "DELETE"}
    /\ ValidLimits(c)
    /\ c.bare
    /\ c.scheme = "https" \/ (c.scheme = "http" /\ c.insecure)

\* SshCapability::validate
ValidSsh(c) ==
    /\ Bad \notin {c.id, c.user, c.host, c.known_hosts, c.identity} /\ c.port # 0
    /\ c.operations # <<>>
    /\ \A i \in DOMAIN c.operations :
          /\ Bad \notin {c.operations[i].id, c.operations[i].run}
          /\ \A j \in DOMAIN c.operations : i # j => c.operations[i].id # c.operations[j].id
    /\ ValidLimits(c)

ValidVault(v) ==
    v.kind = "encrypted_file" => Bad \notin {v.path, v.key_file} /\ v.path # v.key_file

Distinct(list) == \A i, j \in DOMAIN list : i # j => list[i].id # list[j].id

ValidPerKind(c) ==
    /\ c.version = 1 /\ ValidVault(c.vault)
    /\ \A i \in DOMAIN c.http : ValidHttp(c.http[i])
    /\ \A i \in DOMAIN c.ssh : ValidSsh(c.ssh[i])
    /\ Distinct(c.http) /\ Distinct(c.ssh)

\* Config::validate: one set of ids for both kinds of capability.
Valid(c) ==
    /\ c.version = 1 /\ ValidVault(c.vault)
    /\ \A i \in DOMAIN c.http : ValidHttp(c.http[i])
    /\ \A i \in DOMAIN c.ssh : ValidSsh(c.ssh[i])
    /\ Distinct([i \in DOMAIN c.http |-> [id |-> c.http[i].id]]
                \o [i \in DOMAIN c.ssh |-> [id |-> c.ssh[i].id]])

\* load_pinned: the digest and the parsed content are of the same read.
Loads(c) == (pin = Absent \/ pin = c) /\ Valid(c)

Encrypted(c) == c.vault.kind = "encrypted_file"

-----------------------------------------------------------------------------
LoadInit ==
    /\ file \in Contents /\ pin \in Edits \cup {Absent}
    /\ command \in {"serve", "daemon"}
    /\ checked = Absent /\ served = Absent

Rewrite(c) ==
    /\ file' = c /\ file # c
    /\ UNCHANGED <<pin, command, checked, served>>

\* daemon(): one load builds the server.
DaemonLoad ==
    /\ command = "daemon"
    /\ IF Loads(file) THEN command' = "daemon_serves" /\ served' = file
       ELSE command' = "refused" /\ UNCHANGED served
    /\ UNCHANGED <<file, pin, checked>>

CheckNoVault ==
    /\ command = "serve"
    /\ IF Loads(file) THEN command' = "build" /\ checked' = file
       ELSE command' = "refused" /\ UNCHANGED checked
    /\ UNCHANGED <<file, pin, served>>

\* serve(): an encrypted_file vault is refused on the first load.
CheckVault ==
    /\ command = "serve"
    /\ IF Loads(file) /\ ~Encrypted(file) THEN command' = "build" /\ checked' = file
       ELSE command' = "refused" /\ UNCHANGED checked
    /\ UNCHANGED <<file, pin, served>>

BuildUnpinned ==
    /\ command = "build"
    /\ IF Valid(file) THEN command' = "serves" /\ served' = file
       ELSE command' = "refused" /\ UNCHANGED served
    /\ UNCHANGED <<file, pin, checked>>

\* build_server() loads the file again, with the same pin.
Build ==
    /\ command = "build"
    /\ IF Loads(file) THEN command' = "serves" /\ served' = file
       ELSE command' = "refused" /\ UNCHANGED served
    /\ UNCHANGED <<file, pin, checked>>

LoadNext == (\E c \in Edits : Rewrite(c)) \/ DaemonLoad \/ CheckVault \/ Build

LoadSpec == LoadInit /\ [][LoadNext]_loadVars

-----------------------------------------------------------------------------
\* With a pin the server runs the pinned configuration or none, whenever the file
\* is replaced (README.md:54-60, config.rs:164-178, main.rs:157-167).
PinHolds == pin # Absent /\ served # Absent => served = pin

\* asb serve keeps out of encrypted vaults: the server has no such vault, unless
\* the file was replaced between the two loads and no pin was given
\* (SECURITY.md:43-44, main.rs:158-162).
StdioWithoutVault ==
    command = "serves" => ~Encrypted(served) \/ (pin = Absent /\ served # checked)

\* What the other modules assume of a configuration: an id names one capability of
\* either kind, hence one bucket of the limiter; an operation has one mark; every
\* wait has a timer and every limit admits something.
Usable(c) ==
    /\ \A i \in DOMAIN c.http, j \in DOMAIN c.ssh : c.http[i].id # c.ssh[j].id
    /\ Distinct(c.http) /\ Distinct(c.ssh)
    /\ \A i \in DOMAIN c.ssh : Distinct(c.ssh[i].operations)
    /\ \A list \in {c.http, c.ssh} : \A i \in DOMAIN list :
          list[i].rate > 0 /\ list[i].timeout > 0 /\ list[i].bytes > 0

\* What is served is usable, whenever the file is replaced (config.rs:205-218).
ServedIsUsable == served # Absent => Usable(served)
=============================================================================
