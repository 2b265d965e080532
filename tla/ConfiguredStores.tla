-------------------------- MODULE ConfiguredStores --------------------------
(***************************************************************************)
(* Which data store an operation is told to be of, after the configuration *)
(* of the repository (src/internal/extractor/stage/discovery): a key is    *)
(* read across the files and their environments (config_resolve.go), each  *)
(* client is given the store its key names, and its operations are told    *)
(* (client_propagation.go); operations no client claims are told the only  *)
(* store there is (instance_ref.go).                                       *)
(*                                                                         *)
(* A configuration is the sequence of the entries of all files, in the     *)
(* order of the paths.  An entry has the path of its file, the environment *)
(* the path speaks of and that of its document in the file ("" for none),  *)
(* its key, the last segment of the key, and a value.  A value has the     *)
(* platform its text betrays (0 for none), whether it is a URL, and either *)
(* a name, which is the database of a URL and "" for a template without a  *)
(* fixed part, or a variable with the default it falls back to.            *)
(*                                                                         *)
(* Clients are those of databases.  A store is what a row's InstanceRef    *)
(* says; the row's free text converges on it and is left out, as are the   *)
(* engines only configuration is searched for (SQL Server, Oracle).        *)
(***************************************************************************)
EXTENDS EntityReconcile

CONSTANTS
    ActiveKey,      \* spring.profiles.active
    EnvVariables,   \* the variables that are named like those of an environment
    NameIn          \* the database a variable's own name tells, or Nothing

Only(S) == IF Cardinality(S) = 1 THEN CHOOSE x \in S : TRUE ELSE Nothing

EnvironmentOf(e) == IF e.document # "" THEN e.document ELSE e.stem

(* What a key is said to be, and in which environments.                     *)
Said(config, key) ==
    {[profile |-> EnvironmentOf(e), value |-> e.value] : e \in {x \in ToSet(config) : x.key = key}}
Values(said) == {s.value : s \in said}
In(said, profiles) == {s \in said : s.profile \in profiles}

(* The environment a base file turns on, if the first to turn one on says   *)
(* which.                                                                   *)
ActiveProfile(config) ==
    LET pins == {i \in DOMAIN config : EnvironmentOf(config[i]) = "" /\ config[i].key = ActiveKey}
    IN  IF pins = {} \/ config[Min(pins)].value.name \in {Nothing, ""} THEN {}
        ELSE {config[Min(pins)].value.name}

(* The value all agree on, or that of the first of these environments that  *)
(* agrees with itself.  (Base files that no other contradicts have then     *)
(* been agreed with, so the fourth rule of the code never decides.)         *)
Decided(said, rules) ==
    LET agreed == {i \in DOMAIN rules : Cardinality(Values(In(said, rules[i]))) = 1}
    IN  IF agreed = {} THEN Nothing ELSE Only(Values(In(said, rules[Min(agreed)])))

\* Mutant of ConfigValue: base files come before the overlays.
ConfigValueOfBase(config, key) ==
    LET said == Said(config, key)
    IN  Decided(said, <<{s.profile : s \in said}, {""}, {"prod"}, {"production"}, {"live"}>>)

ConfigValue(config, key) ==
    LET said == Said(config, key)
    IN  Decided(said, <<{s.profile : s \in said}, ActiveProfile(config), {"prod"}, {"production"}, {"live"}>>)

(* A variable of the environment is looked for at the end of any key.  The  *)
(* environment of a document holds for the entries that follow it in its    *)
(* file.                                                                    *)
SaidOfVariable(config, v) ==
    LET hits == {i \in DOMAIN config : config[i].name = v}
        Documents(i) == {j \in hits : j <= i /\ config[j].path = config[i].path /\ config[j].document # ""}
    IN  {[profile |-> IF Documents(i) = {} THEN config[i].stem ELSE config[Max(Documents(i))].document,
          value |-> config[i].value] : i \in {h \in hits : config[h].value.name # ""}}

EnvConfigValue(config, v) ==
    LET said == SaidOfVariable(config, v)
    IN  IF Cardinality(Values(said)) = 1 THEN Only(Values(said))
        ELSE Only(Values(In(said, {"production", "prod"})))

Lookup(config, v) ==
    IF ConfigValue(config, v) # Nothing THEN ConfigValue(config, v)
    ELSE IF v \in EnvVariables THEN EnvConfigValue(config, v) ELSE Nothing

(* A value that is itself a variable is looked up in turn, six times at     *)
(* most (the values of Follow are sets of one).                             *)
Settled(value) == value.url \/ value.variable = Nothing
ValueOf(value, next) ==
    IF next = Nothing THEN [value EXCEPT !.variable = Nothing, !.name = value.fallback] ELSE next
Follow(config, values) ==
    {IF Settled(w) THEN w ELSE ValueOf(w, Lookup(config, w.variable)) : w \in values}

ResolvePlaceholder(config, v, default) ==
    LET start == [platform |-> 0, url |-> FALSE, name |-> Nothing, variable |-> v, fallback |-> default]
        third == Follow(config, Follow(config, Follow(config, {start})))
        sixth == Follow(config, Follow(config, Follow(config, third)))
    IN  CHOOSE name \in {IF Settled(w) THEN w.name ELSE Nothing : w \in sixth} : TRUE

(* The database of a URL; a variable without value may tell it by its name. *)
DatabaseOf(config, value) ==
    LET resolved == ResolvePlaceholder(config, value.variable, value.fallback)
    IN  IF ~value.url \/ value.name = "" THEN Nothing
        ELSE IF value.variable = Nothing THEN value.name
        ELSE IF resolved = Nothing THEN NameIn[value.variable]
        ELSE IF resolved = "" THEN Nothing ELSE resolved
-----------------------------------------------------------------------------
DbStore(platform, database, key) ==
    [platform |-> platform, name |-> IF database = Nothing THEN key ELSE database, source |-> key]

(* Where the environments disagree: the first group of them whose URLs all  *)
(* name one database, if not all of them.                                   *)
DbRefForProfiles(config, key, profiles) ==
    Only({ref \in {<<s.value.platform, DatabaseOf(config, s.value)>> : s \in In(Said(config, key), profiles)} :
             ref[1] # 0 /\ ref[2] # Nothing})

ConfiguredFromProfiles(config, key) ==
    LET groups == <<{"production", "prod"}, {"stage", "staging"}, {""}, {"dev", "local"},
                    {s.profile : s \in Said(config, key)}>>
        agreed == {i \in DOMAIN groups : DbRefForProfiles(config, key, groups[i]) # Nothing}
        ref    == DbRefForProfiles(config, key, groups[Min(agreed)])
    IN  IF agreed = {} THEN Nothing ELSE DbStore(ref[1], ref[2], key)

ResolveClientRef(config, client) ==
    LET value == ConfigValue(config, client.anchor)
    IN  IF value = Nothing THEN ConfiguredFromProfiles(config, client.anchor)
        ELSE IF value.name = "" THEN Nothing
        ELSE DbStore(value.platform, DatabaseOf(config, value), client.anchor)

(* The clients are found in the order of a map; of those with one key the   *)
(* first is kept.  (So it is of those whose symbols or names end alike:     *)
(* clients with keys of their own are taken to have names of their own.)    *)
DetectClients(clients) == SetToSeqs(clients)

MergeClients(found) ==
    {found[i] : i \in {j \in DOMAIN found : \A k \in 1..j - 1 : found[k].anchor # found[j].anchor}}

(* Those whose store is known, each with it and with an engine: that of the *)
(* store, or the one the client's own name betrays.                         *)
ClientPlatform(client, store) == IF store.platform # 0 THEN store.platform ELSE client.engine

Resolved(config, clients) ==
    {[name |-> t[1].name, store |-> t[2], engine |-> ClientPlatform(t[1], t[2])] :
        t \in {u \in {<<c, ResolveClientRef(config, c)>> : c \in clients} : u[2] # Nothing}}

(* The first client an operation names, in itself or at its call site; else *)
(* the only one, if their engines do not differ; else the only one of its   *)
(* engine.                                                                  *)
MatchClient(row, resolved) ==
    LET named == {i \in DOMAIN row.through : \E c \in resolved : c.name = row.through[i]}
    IN  IF named # {} THEN Only({c \in resolved : c.name = row.through[Min(named)]})
        ELSE IF Cardinality(resolved) = 1
             THEN Only({c \in resolved : row.platform = 0 \/ c.engine \in {0, row.platform}})
        ELSE Only({c \in resolved : row.platform # 0 /\ c.engine = row.platform})

StampDatastoreInstance(row, store) ==
    IF store = Nothing \/ row.store # Nothing \/ (row.platform # 0 /\ store.platform \notin {0, row.platform}) THEN row
    ELSE [row EXCEPT !.store = store]

ApplyClientInstance(row, client) ==
    IF client = Nothing THEN row
    ELSE LET told == StampDatastoreInstance(row, client.store)
         IN  IF row.platform = 0 THEN [told EXCEPT !.platform = client.store.platform] ELSE told

SingleDatastoreRef(config) ==
    LET hits == {i \in DOMAIN config : config[i].value.platform # 0 /\ config[i].value.url}
        first == config[Min(hits)]
    IN  IF Cardinality({config[i].value : i \in hits}) # 1 THEN Nothing
        ELSE DbStore(first.value.platform, DatabaseOf(config, first.value), first.key)

PropagateClientInstances(config, resolved, rows) ==
    LET single == SingleDatastoreRef(config)
    IN  [i \in DOMAIN rows |->
            IF rows[i].data
            THEN StampDatastoreInstance(ApplyClientInstance(rows[i], MatchClient(rows[i], resolved)), single)
            ELSE rows[i]]

(* The one platform any entry betrays.                                      *)
InferConfigDBPlatform(config) ==
    LET seen == {e.value.platform : e \in ToSet(config)} \ {0}
    IN  IF Cardinality(seen) = 1 THEN Only(seen) ELSE 0
-----------------------------------------------------------------------------
(* The databases that URLs under a key name in some environments; those a   *)
(* variable in the place of the database is set to there, by its own name   *)
(* or, if it is one of an environment, at the end of any key; its defaults. *)
Setting(config, v) ==
    {[profile |-> EnvironmentOf(e), value |-> e.value] :
        e \in {x \in ToSet(config) : x.key = v \/ (v \in EnvVariables /\ x.name = v)}}
Urls(config, key) == {s.value : s \in {t \in Said(config, key) : t.value.url}}
Variables(config, key) == {u.variable : u \in Urls(config, key)} \ {Nothing}
Defaults(config, key) == {u.fallback : u \in Urls(config, key)}
Uses(config, key, profile) ==
    ({s.value.name : s \in {t \in Said(config, key) : t.value.url /\ t.profile = profile}}
     \cup UNION {{w.value.name : w \in {u \in Setting(config, v) : u.profile = profile}} : v \in Variables(config, key)})
    \ {"", Nothing}
UsesInAny(config, key, profiles) == UNION {Uses(config, key, p) : p \in profiles}

Production == {"prod", "production"}
Environments(config) == {EnvironmentOf(e) : e \in ToSet(config)}

\* The store is not the one production names, and an entry for another
\* environment names it.
OfAnotherEnvironment(config, store) ==
    LET production == UsesInAny(config, store.source, Production)
        others == UsesInAny(config, store.source, Environments(config) \ Production)
    IN  /\ Cardinality(production) = 1
        /\ store.name \in others \ (production \cup Defaults(config, store.source))

\* Production sets a variable of the URLs at the end of a longer key, and an
\* entry that is not of production has the variable for its whole key (.env):
\* the lookup by the whole key comes first and production is not heard
\* (ResolvePlaceholder, config_resolve.go:143-159).
Shadowed(config, key) ==
    \E v \in Variables(config, key) :
        /\ Said(config, v) # {}
        /\ \A s \in Said(config, v) : s.profile \notin Production
        /\ \E s \in Setting(config, v) : s.profile \in Production

\* What Uses makes of a configuration is what it means, if it is plain: no
\* environment says two things of a key, nor two environments of a key whose
\* value is left to a variable; a variable in the place of a database is set to
\* constants; the URLs of a key are of one platform; and no database is named
\* like a key or what a variable's own name tells.
SpeaksPlainly(config) ==
    LET entries == ToSet(config)
        variables == {e.value.variable : e \in {x \in entries : x.value.url}} \ {Nothing}
        naming == {e \in entries : e.value.url \/ e.key \in variables \/ e.name \in variables}
    IN  /\ config \in Seq(entries)
        /\ \A e, f \in entries : e.key = f.key =>
              /\ EnvironmentOf(e) = EnvironmentOf(f) \/ e.value.variable # Nothing => e.value = f.value
              /\ e.value.url /\ f.value.url => e.value.platform = f.value.platform
        /\ \A e \in entries : e.value # Nothing /\ (e.value.variable # Nothing => e.value.name = Nothing)
        /\ \A e \in naming :
              /\ e.key \in variables \/ e.name \in variables =>
                    e.value.variable = Nothing /\ e.value.name \notin {Nothing, ""}
              /\ e.value.name \in {f.key : f \in entries} \cup {NameIn[v] : v \in variables} => e.value.name = Nothing
=============================================================================
