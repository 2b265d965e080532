--------------------------- MODULE MCExtractionRun ---------------------------
(* A repository with two handlers, a service, and a repository class with   *)
(* two methods: every choice of a few call lists for each, the sets of rows *)
(* that merging and choosing tell apart, and configurations whose           *)
(* environments agree, disagree, or are silent.                             *)
EXTENDS ExtractionRun, TLC

CONSTANTS h1, k1, m1, f1, f2, x1, x2

MCClassOf == (h1 :> "H") @@ (k1 :> "K") @@ (m1 :> "M") @@ (f1 :> "R") @@ (f2 :> "R")
MCEntries == (x1 :> <<h1>>) @@ (x2 :> <<k1, m1>>)
MCHoused == (x1 :> {}) @@ (x2 :> {"H"})
MCRepository == (f1 :> [id |-> 11, fact |-> "read"]) @@ (f2 :> [id |-> 12, fact |-> "write"])

MCCodes ==
    {[noise |-> ns, calls |-> (h1 :> hs) @@ (k1 :> ks) @@ (m1 :> ms) @@ (f1 :> <<>>) @@ (f2 :> <<>>), local |-> {h1, k1, m1}] :
        ns \in {{}, {<<h1, f1>>, <<k1, m1>>}},
        hs \in {<<<<k1>>>>, <<<<k1, m1>>>>, <<<<m1, f1>>>>, <<<<f1>>, <<f2>>>>},
        ks \in {<<>>, <<<<h1>>>>, <<<<f1>>, <<m1>>>>},
        ms \in {<<>>, <<<<h1>>, <<f1>>>>, <<<<f1>>, <<f1>>, <<f2>>>>}}

Found(id, fact, schema, platform, at, narrow, length) ==
    [data |-> fact \in {"read", "write"}, id |-> id, fact |-> fact, schema |-> schema, platform |-> platform, confidence |-> 100,
     store |-> Nothing, through |-> IF f1 \in at THEN <<"R">> ELSE <<>>,
     at |-> at, exact |-> {}, inside |-> at \cap {h1, k1, m1}, narrow |-> narrow, length |-> length]

MCDiscoveries ==
    { {Found(1, "read", "", 0, {f1}, TRUE, 1), Found(2, "call", "", 0, {f1}, FALSE, 2), Found(3, "send", "", 0, {m1}, TRUE, 1)},
      {Found(1, "read", "", 0, {f1}, TRUE, 1), Found(2, "call", "", 0, {f1, f2}, TRUE, 2)},
      {Found(1, "read", "", 0, {f2}, TRUE, 1), Found(2, "read", "", 1, {f1}, TRUE, 2), Found(3, "read", "", 2, {m1}, TRUE, 1)},
      {Found(1, "read", "", 0, {f2}, TRUE, 1), Found(2, "read", "public", 1, {f1}, TRUE, 2), Found(3, "read", "audit", 1, {h1}, TRUE, 1)},
      {Found(1, "read", "", 1, {}, TRUE, 1), Found(2, "read", "public", 0, {f1}, TRUE, 2), Found(3, "write", "", 2, {f2}, FALSE, 1)},
      {[Found(1, "call", "", 0, {f1}, FALSE, 1) EXCEPT !.exact = {f1}], Found(2, "read", "", 1, {f1, m1}, FALSE, 2)} }

MCTwoStores == {Found(1, "write", "", 0, {f2}, TRUE, 1), Found(2, "read", "", 2, {f1}, TRUE, 2)}

(* Configurations: the files of an application and of its deployments.      *)
Text(t) == [platform |-> 0, url |-> FALSE, name |-> t, variable |-> Nothing, fallback |-> Nothing]
Url(p, d) == [platform |-> p, url |-> TRUE, name |-> d, variable |-> Nothing, fallback |-> Nothing]
UrlOf(p, v, d) == [platform |-> p, url |-> TRUE, name |-> Nothing, variable |-> v, fallback |-> d]
Variable(v) == [platform |-> 0, url |-> FALSE, name |-> Nothing, variable |-> v, fallback |-> Nothing]

Entry(path, stem, document, key, value) ==
    [path |-> path, stem |-> stem, document |-> document, key |-> key,
     name |-> IF key = "env.DB_NAME" THEN "DB_NAME" ELSE key, value |-> value]
Application(key, value) == Entry("application", "", "", key, value)
On(profile, key, value) == Entry("application", "", profile, key, value)
Deploys(profile, value) == Entry("values-" \o profile, profile, "", "env.DB_NAME", Text(value))

MCEnvVariables == {"DB_NAME", "DB_URL"}
MCNameIn == ("DB_NAME" :> "db_name") @@ ("DB_URL" :> "db_url")

Plain == << >>
Overlays == << Application("ds", Url(1, "local")), On("stage", "ds", Url(1, "stage")), On("prod", "ds", Url(1, "orders")) >>
Deployed == << Application("ds", UrlOf(1, "DB_NAME", "app")), Deploys("production", "orders"), Deploys("stage", "stage") >>

MCWirings ==
    { Plain, Overlays, Deployed,
      << Application("ds", Url(1, "orders")) >>,
      << Application("ds", Url(1, "local")), On("stage", "ds", Url(1, "stage")) >>,
      << Application("active", Text("stage")) >> \o Overlays,
      << Application("ds", Variable("DB_URL")), Application("mongo", Url(2, "events")) >>,
      << Application("ds", Url(1, "orders")), Application("mongo", Url(2, "events")) >>,
      << Application("mongo", Url(2, "events")) >>,
      << Application("driver", [Text("driver") EXCEPT !.platform = 2]), Application("ds", Url(1, "orders")) >>,
      << Entry(".env", "", "", "DB_NAME", Text("local")) >> \o Deployed,
      << Application("ds", UrlOf(1, "DB_NAME", Nothing)), Entry("values", "", "production", "env.DB_NAME", Text("orders")),
         Entry("values", "", "", "env.DB_NAME", Text("local")) >> }

MCClients ==
    { {},
      {[name |-> "R", anchor |-> "ds", engine |-> 0], [name |-> "S", anchor |-> "ds", engine |-> 0],
       [name |-> "G", anchor |-> "mongo", engine |-> 2]} }

(* Every code with two of the wirings, and every wiring with one code.      *)
MCSources ==
    [graph : MCCodes, found : MCDiscoveries, config : {Plain, Overlays}, clients : MCClients \ {{}}]
    \cup [graph : {g \in MCCodes : g.calls[h1] = <<<<f1>>, <<f2>>>> /\ g.calls[k1] = <<>> /\ g.calls[m1] = <<>>},
          found : MCDiscoveries \cup {MCTwoStores}, config : MCWirings, clients : MCClients]

(* Meanings: all different; two exposures that mean the same, and two kinds *)
(* of rows; commands, one run and one offered; ids that look like lines.    *)
Means(object, group, resource) == [object |-> object, group |-> group, resource |-> resource]

MCPlain ==
    (x1 :> Means("http.a", "endpoint", None)) @@ (x2 :> Means("http.b", "endpoint", None)) @@
    ("read" :> Means("dbq.read", "query", "db.t")) @@ ("write" :> Means("dbq.write", "query", "db.t")) @@
    ("call" :> Means("httpcall.c", "call", None)) @@ ("send" :> Means("queue.publish_q", "publisher", None))

MCMeanings ==
    { MCPlain,
      [MCPlain EXCEPT ![x2].object = "http.a", !["write"].object = "dbq.read"],
      [MCPlain EXCEPT ![x2] = Means("cmd.a", "command", None), !["call"] = Means("cmd.a", "execution", None),
                      !["send"] = Means("cmd.b", "execution", None)],
      [MCPlain EXCEPT !["call"].object = "httpcall.line_1"] }

MCPlaces == (x1 :> <<"X">>) @@ (x2 :> <<"Y">>) @@ (1 :> <<"P">>) @@ (2 :> <<"P", "Q">>) @@ (3 :> <<"Q">>) @@
            (11 :> <<"R">>) @@ (12 :> <<"S">>)

(* What the theorems suppose of a code.                                     *)
ASSUME MCSupposed ==
    /\ \A c \in Sources : SpeaksPlainly(c.config)
    /\ \A s, t \in DOMAIN Repository : Repository[s].fact = Repository[t].fact => ClassOf[s] = ClassOf[t]
    /\ Cardinality(Symbols) * MaxPathsPerTarget <= MaxPathsTotal
=============================================================================
