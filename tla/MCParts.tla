------------------------------- MODULE MCParts -------------------------------
(* Five parts that share no state, checked in one run: the initial state      *)
(* chooses the part that acts, the others keep a fixed state.                 *)
EXTENDS MCRateLimiter, AuditFile, PathRules, MCResponseText, ConfigLoad

CONSTANTS a1, a2, b1, a, b

MCProcessOf == (a1 :> a) @@ (a2 :> a) @@ (b1 :> b)

MCRules == {<<"/", "a", "/", "*">>, <<"/", "a", ".">>}
MCHost == <<"a">>
MCPathChars == {"/", "a", ".", "%2e", "tab", "?", "\\"}

-----------------------------------------------------------------------------
Http == [id |-> "router", credential |-> "key", methods |-> {"GET"}, paths |-> {"/a"},
         timeout |-> 1, bytes |-> 4194304, rate |-> 60000,
         bare |-> TRUE, scheme |-> "http", insecure |-> TRUE]
Uptime == [id |-> "uptime", run |-> "/usr/bin/uptime", read_only |-> TRUE]
Ssh == [id |-> "host", user |-> "maint", host |-> "10.0.0.20", port |-> 22,
        known_hosts |-> "/k", identity |-> "/i", operations |-> <<Uptime>>,
        timeout |-> 300, bytes |-> 1, rate |-> 1]
Plain == [version |-> 1, vault |-> [kind |-> "system"], http |-> <<Http>>, ssh |-> <<Ssh>>]
Vaulted == [Plain EXCEPT !.vault = [kind |-> "encrypted_file", path |-> "/v", key_file |-> "/k"]]

\* Capabilities that differ from a valid one in one field, at its boundaries.
Boundaries(c) ==
    {[c EXCEPT !.timeout = n] : n \in {0, 301}} \cup {[c EXCEPT !.bytes = n] : n \in {0, 4194305}}
    \cup {[c EXCEPT !.rate = n] : n \in {0, 60001}}
HttpVariants ==
    Boundaries(Http) \cup {[Http EXCEPT !.id = i] : i \in {"host", Bad}}
    \cup {[Http EXCEPT !.credential = Bad], [Http EXCEPT !.paths = {}],
          [Http EXCEPT !.paths = {"/a", Bad}], [Http EXCEPT !.bare = FALSE],
          [Http EXCEPT !.insecure = FALSE], [Http EXCEPT !.scheme = "https"],
          [Http EXCEPT !.scheme = "ftp"]}
    \cup {[Http EXCEPT !.methods = m] : m \in {{}, {"get"}, {"GET", "DELETE"}}}
SshVariants ==
    Boundaries(Ssh) \cup {[Ssh EXCEPT !.id = i] : i \in {"router", Bad}}
    \cup {[Ssh EXCEPT !.port = 0], [Ssh EXCEPT !.user = Bad]}
    \cup {[Ssh EXCEPT !.operations = o] :
             o \in {<<>>, <<Uptime, [Uptime EXCEPT !.read_only = FALSE]>>,
                    <<Uptime, [Uptime EXCEPT !.id = "reboot"]>>, <<[Uptime EXCEPT !.run = Bad]>>}}

MCEdits == {Plain, Vaulted, [Plain EXCEPT !.version = 2]}
MCContents ==
    MCEdits \cup {[Plain EXCEPT !.http = <<h>>] : h \in HttpVariants}
    \cup {[Plain EXCEPT !.http = <<Http, h>>] : h \in {Http, [Http EXCEPT !.id = "other"]}}
    \cup {[Plain EXCEPT !.ssh = <<s>>] : s \in SshVariants}
    \cup {[Plain EXCEPT !.ssh = <<Ssh, s>>] : s \in {Ssh, [Ssh EXCEPT !.id = "other"]}}
    \cup {[Vaulted EXCEPT !.vault.key_file = k] : k \in {"/v", Bad}}

-----------------------------------------------------------------------------
VARIABLE part

Parts == {"limiter", "audit", "paths", "text", "load"}
partVars == <<vars, auditVars, request, textVars, loadVars, part>>

Text0 == body = <<>> /\ visible = 1 /\ fetched = 0 /\ bytes = <<>> /\ shown = <<>>
         /\ truncated = FALSE /\ textDone = FALSE
Load0 == file = Plain /\ pin = Absent /\ command = "serve" /\ checked = Absent /\ served = Absent

PartsInit ==
    /\ part \in Parts
    /\ Init /\ AuditInit /\ PathInit
    /\ IF part = "text" THEN TextInit ELSE Text0
    /\ IF part = "load" THEN LoadInit ELSE Load0

Limiting ==
    part = "limiter" /\ Next /\ UNCHANGED <<auditVars, request, textVars, loadVars, part>>
Audits == part = "audit" /\ AuditNext /\ UNCHANGED <<vars, request, textVars, loadVars, part>>
Requests == part = "paths" /\ PathNext /\ UNCHANGED <<vars, auditVars, textVars, loadVars, part>>
Reads == part = "text" /\ TextNext /\ UNCHANGED <<vars, auditVars, request, loadVars, part>>
Loading == part = "load" /\ LoadNext /\ UNCHANGED <<vars, auditVars, request, textVars, part>>

PartsNext == Limiting \/ Audits \/ Requests \/ Reads \/ Loading

PartsSpec == PartsInit /\ [][PartsNext]_partVars
=============================================================================
