---------------------------- MODULE Configuration ----------------------------
(***************************************************************************)
(* How System builds a configuration from greylist.cfg and replaces the    *)
(* one it runs with (src/src/system.h): the sections of the file are read  *)
(* one by one with Parser and TokenList, the creators look up what the     *)
(* section refers to in the containers of System and add what it defines.  *)
(* A section is its name and the sequence of <<key, value>> lines up to    *)
(* the next line that begins with "[".                                     *)
(***************************************************************************)
EXTENDS Integers, Sequences, FiniteSets, Functions

\* The names of a token list in their order: required, without and with a
\* default.  Tokens::Tokens (src/src/tokens.h).
Token(name, required, def) == [name |-> name, required |-> required, def |-> def]
configSectionsTokens == {"database", "datasource", "match", "policy", "server"}
configTokens(section) ==
    CASE section = "database" -> <<Token("name", TRUE, ""), Token("type", TRUE, ""),
                                   Token("spareconnections", TRUE, "10")>>
      [] section = "datasource" -> <<Token("name", TRUE, ""), Token("type", TRUE, ""),
                                     Token("table", FALSE, ""), Token("database", FALSE, "")>>
      [] section = "match" -> <<Token("name", TRUE, ""), Token("type", TRUE, ""), Token("datasource", FALSE, ""),
                                Token("lookup", FALSE, ""), Token("match", FALSE, ""), Token("return", FALSE, "")>>
      [] section = "policy" -> <<Token("name", FALSE, ""), Token("type", TRUE, ""), Token("match", TRUE, ""),
                                 Token("datasource", FALSE, ""), Token("mode", TRUE, "reverse"),
                                 Token("weakbytes", TRUE, "4"), Token("timeout", FALSE, "")>>
      [] section = "server" -> <<Token("port", TRUE, "4096"), Token("listen", TRUE, "0.0.0.0"),
                                 Token("sparethreads", TRUE, "2"), Token("maxthreads", TRUE, "150"),
                                 Token("maxrequests", TRUE, "0"), Token("cacherefresh", TRUE, "600"),
                                 Token("poolrefresh", TRUE, "5"), Token("deferwithstatus", TRUE, "true"),
                                 Token("defer", TRUE, "defer_if_permit Service is unavailable"),
                                 Token("dunno", TRUE, "dunno"), Token("onerror", TRUE, "dunno"),
                                 Token("log", TRUE, "minimal"), Token("stats", TRUE, "120")>>
configTypeTokens == [
    datasource |-> {"db"},
    match      |-> {"exact match", "pattern match", "cached exact match", "cached pattern match", "all"},
    policy     |-> {"whitelist", "greylist"}]
configModeTokens == {"reverse", "weak", "normal"}

CONSTANTS
    Section,        \* sections a file may contain: records [section, body]
    Numeral,        \* the values that read as a number, and which
    MaxSections,    \* bound: sections of a file
    MaxLoads        \* bound: times the file is compiled

VARIABLES
    phase,          \* of System: "parsing", "running" or "exit"
    databases, datasources, matchers,   \* _databases, _datasources, _matchers
    newCore, newSettings,   \* what compileConfig fills
    core, settings, \* what the server runs with
    read, more,     \* sections read from this file; there is a further one
    load,           \* which compilation this is
    rejected        \* compilations whose file was not parsed to its end

containers == <<databases, datasources, matchers>>
new == <<newCore, newSettings>>
running == <<core, settings>>
file == <<read, more, load>>
vars == <<phase, containers, new, running, file, rejected>>

NoEntry == [x \in {} |-> x]

-----------------------------------------------------------------------------
\* parseConfigurationSections: a header it has no token for is skipped, and so
\* are the lines below it.
Known(sec) == sec.section \in configSectionsTokens

-----------------------------------------------------------------------------
\* TokenList::parse takes the tokens of the section's lines off `required`.
Missing(sec) ==
    LET tokens == configTokens(sec.section)
    IN  {i \in DOMAIN tokens : tokens[i].required /\ \A p \in Range(sec.body) : p[1] # tokens[i].name}

\* Those of them without a default.
Undefined(sec) ==
    LET tokens == configTokens(sec.section) IN {i \in Missing(sec) : tokens[i].def = ""}

\* Faulty variant: the loop ends one token early.
DefaultedShort(sec) ==
    LET missing == Missing(sec)
        stop == Undefined(sec)
    IN  {i \in missing : (\A j \in stop : i < j) /\ \E j \in missing : j > i}

\* The loop over the required tokens that are left takes them in their order
\* and ends at the first one that has no default.
Defaulted(sec) ==
    LET stop == Undefined(sec) IN {i \in Missing(sec) : \A j \in stop : i < j}

\* A token that is still missing is an error unless the reader is at its end.
ParserThrows(sec, last) == Missing(sec) # Defaulted(sec) /\ ~last

\* ConfigWriter: the first value of a key stays.
Lines(sec, key) == {i \in DOMAIN sec.body : sec.body[i][1] = key}
Keys(sec) ==
    LET tokens == configTokens(sec.section)
    IN  {k \in {t.name : t \in Range(tokens)} : Lines(sec, k) # {}}
        \cup {tokens[i].name : i \in Defaulted(sec)}
Written(sec, key) ==
    LET tokens == configTokens(sec.section)
        lines == Lines(sec, key)
    IN  IF lines # {} THEN sec.body[CHOOSE i \in lines : \A j \in lines : i <= j][2]
        ELSE tokens[CHOOSE i \in DOMAIN tokens : tokens[i].name = key].def
ConfigWriter(sec) == [key \in Keys(sec) |-> Written(sec, key)]
getVal(map, key) == IF key \in DOMAIN map THEN map[key] ELSE ""

\* A text that is no number is read as 0.
StrmConvert(val) == IF val \in DOMAIN Numeral THEN Numeral[val] ELSE 0

-----------------------------------------------------------------------------
checkForToken(map, key) == getVal(map, key) # ""
checkForRef(map, container, key) == checkForToken(map, key) /\ getVal(map, key) \in DOMAIN container
IsNew(map, container) == getVal(map, "name") \notin DOMAIN container

\* What the creator of a section requires; it throws otherwise.
DatabaseCreator(map) ==
    StrmConvert(getVal(map, "spareconnections")) >= 0 /\ IsNew(map, databases)
DBDataSourceCreator(map) ==
    /\ checkForRef(map, databases, "database")
    /\ checkForToken(map, "table") /\ IsNew(map, datasources)
MatchCreator(map) ==
    /\ getVal(map, "type") # "all" =>
          /\ checkForRef(map, datasources, "datasource")
          /\ checkForToken(map, "lookup") /\ checkForToken(map, "match")
    /\ IsNew(map, matchers)
WhitelistCreator(map) == checkForRef(map, matchers, "match")
GreylistCreator(map) ==
    /\ checkForRef(map, datasources, "datasource")
    /\ StrmConvert(getVal(map, "timeout")) >= 0
    /\ getVal(map, "weakbytes") = "" \/ StrmConvert(getVal(map, "weakbytes")) \in 0 .. 4
    /\ getVal(map, "mode") \in configModeTokens \cup {""}
    /\ checkForRef(map, matchers, "match")

\* The section has a creator and it does not throw.
Creatable(sec, map) ==
    \/ sec.section = "database" /\ DatabaseCreator(map)
    \/ sec.section = "server"
    \/ /\ sec.section \in DOMAIN configTypeTokens
       /\ getVal(map, "type") \in configTypeTokens[sec.section]
       /\ \/ sec.section = "datasource" /\ DBDataSourceCreator(map)
          \/ sec.section = "match" /\ MatchCreator(map)
          \/ getVal(map, "type") = "whitelist" /\ WhitelistCreator(map)
          \/ getVal(map, "type") = "greylist" /\ GreylistCreator(map)

\* An object is the compilation that made it and those of all it is made of.
Object(parts) == [made |-> load, from |-> {load} \cup UNION {p.from : p \in parts}]
Part(container, map, key) == IF getVal(map, key) \in DOMAIN container THEN {container[getVal(map, key)]} ELSE {}
Entry(map, parts) == [name \in {getVal(map, "name")} |-> Object(parts)]

\* map::insert: a value that is there stays.
insert(old, entries) ==
    [k \in DOMAIN old \cup DOMAIN entries |-> IF k \in DOMAIN old THEN old[k] ELSE entries[k]]

\* ServerCreator copies what the section has.
copyVals(map) == newSettings' = insert(newSettings, [k \in DOMAIN map |-> [val |-> map[k], made |-> load]])

Create(sec, map) ==
    \/ /\ sec.section = "database"
       /\ databases' = insert(databases, Entry(map, {}))
       /\ UNCHANGED <<datasources, matchers, new>>
    \/ /\ sec.section = "datasource"
       /\ datasources' = insert(datasources, Entry(map, Part(databases, map, "database")))
       /\ UNCHANGED <<databases, matchers, new>>
    \/ /\ sec.section = "match"
       /\ matchers' = insert(matchers, Entry(map, IF getVal(map, "type") = "all" THEN {}
                                                  ELSE Part(datasources, map, "datasource")))
       /\ UNCHANGED <<databases, datasources, new>>
    \/ /\ sec.section = "policy"
       /\ newCore' = Append(newCore, Object(
              Part(matchers, map, "match")
              \cup IF getVal(map, "type") = "greylist" THEN Part(datasources, map, "datasource") ELSE {}))
       /\ UNCHANGED <<containers, newSettings>>
    \/ /\ sec.section = "server" /\ copyVals(map)
       /\ UNCHANGED <<containers, newCore>>

-----------------------------------------------------------------------------
\* run() compiles the file it is started with.
Init ==
    /\ phase = "parsing" /\ databases = NoEntry /\ datasources = NoEntry /\ matchers = NoEntry
    /\ newCore = <<>> /\ newSettings = NoEntry /\ core = <<>> /\ settings = NoEntry
    /\ read = 0 /\ more \in BOOLEAN /\ load = 1 /\ rejected = {}

\* Faulty variant: the settings are parsed into those of the running server.
ThrowMixed ==
    /\ phase' \in IF load = 1 THEN {"exit"} ELSE {"running", "exit"}
    /\ settings' = newSettings /\ newCore' = <<>> /\ newSettings' = NoEntry
    /\ UNCHANGED <<core, file>>

\* An error in the first configuration ends run(); after a later one run()
\* opens the previous one again, which may fail.
Throw ==
    /\ phase' \in IF load = 1 THEN {"exit"} ELSE {"running", "exit"}
    /\ newCore' = <<>> /\ newSettings' = NoEntry
    /\ UNCHANGED <<running, file>>

\* One turn of the loop in parseConfigurationSections.  The containers keep
\* what they hold when it throws.
ParseSection(sec, last) ==
    /\ phase = "parsing" /\ more /\ (read + 1 < MaxSections \/ last)
    /\ LET map == ConfigWriter(sec)
       IN  IF Known(sec) => ~ParserThrows(sec, last) /\ Creatable(sec, map)
           THEN /\ IF Known(sec) THEN Create(sec, map) ELSE UNCHANGED <<containers, new>>
                /\ read' = read + 1 /\ more' = ~last
                /\ UNCHANGED <<phase, running, load, rejected>>
           ELSE Throw /\ rejected' = rejected \cup {load} /\ UNCHANGED containers

\* Faulty variant: the matchers are not emptied.
FinishKeeping ==
    /\ phase = "parsing" /\ ~more
    /\ databases' = NoEntry /\ datasources' = NoEntry
    /\ UNCHANGED <<rejected, matchers>>
    /\ phase' = "running" /\ core' = newCore /\ settings' = newSettings
    /\ newCore' = <<>> /\ newSettings' = NoEntry
    /\ UNCHANGED file

\* The end of the file: the containers are emptied, then the listener is
\* opened, which may fail, and the new configuration replaces the old one.
Finish ==
    /\ phase = "parsing" /\ ~more
    /\ databases' = NoEntry /\ datasources' = NoEntry /\ matchers' = NoEntry
    /\ UNCHANGED rejected
    /\ \/ /\ phase' = "running" /\ core' = newCore /\ settings' = newSettings
          /\ newCore' = <<>> /\ newSettings' = NoEntry
          /\ UNCHANGED file
       \/ Throw

\* SIGHUP: the reader is reopened, which may fail, and the file compiled.
Reload ==
    /\ phase = "running" /\ load < MaxLoads
    /\ load' = load + 1 /\ read' = 0 /\ more' \in BOOLEAN
    /\ \/ phase' = "parsing" /\ UNCHANGED rejected
       \/ phase' \in {"running", "exit"} /\ rejected' = rejected \cup {load'}
    /\ UNCHANGED <<containers, new, running>>

Done == (phase = "exit" \/ (phase = "running" /\ load = MaxLoads)) /\ UNCHANGED vars

Next == Finish \/ Reload \/ Done \/ \E sec \in Section, last \in BOOLEAN : ParseSection(sec, last)
Spec == Init /\ [][Next]_vars

-----------------------------------------------------------------------------
\* The server never runs with parts of two configurations: the modules of its
\* core and its settings were made by one compilation (system.h, run).
OneConfiguration ==
    \A x, y \in {core[i].made : i \in DOMAIN core} \cup {settings[k].made : k \in DOMAIN settings} : x = y

\* A module of the core uses what an earlier file defined only if every file
\* from that one on up to its own was rejected (_matchers, _datasources and
\* _databases outlive a compilation that throws).
OldOnlyAfterReject ==
    \A m \in Range(core) : \A x \in m.from : x .. m.made - 1 \subseteq rejected

\* With a [server] section in its file the server has a value for every one of
\* its settings; without one it has none (Parser::parse, ServerCreator).
SettingsWhole ==
    DOMAIN settings \in {{}, {t.name : t \in Range(configTokens("server"))}}
==============================================================================
