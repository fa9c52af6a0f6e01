------------------------------ MODULE StartUp ------------------------------
(***************************************************************************)
(* How a backend comes by its settings: the environment and the two .env   *)
(* files, settings.toml with the SECTION__KEY overrides typed after it,    *)
(* the checks that refuse to start, and the providers and the embedder it  *)
(* is built with.  A few keys stand for the rest: one or more of each type *)
(* of value, one that the file does not list, one that makes a section of  *)
(* its own, and one of no section.  A value is its type and its text.      *)
(* The API keys that a provider needs are set.                             *)
(***************************************************************************)
EXTENDS Sequences

CONSTANT
    Environments    \* the sets of variables an operator may set, each in its
                    \* layer, beyond those a proper deployment has in .env

VARIABLES
    layers,     \* the variables of the process and of the two .env files
    environ,    \* os.environ
    starting,   \* the step of the start
    data,       \* the parsed settings file
    settings,   \* what build_settings() made of it
    container   \* the providers and the embedder

startVars == <<layers, environ, starting, data, settings, container>>

Merge(f, g) == [k \in DOMAIN f \cup DOMAIN g |-> IF k \in DOMAIN f THEN f[k] ELSE g[k]]
Str(text) == [type |-> "str", text |-> text]
Bool(text) == [type |-> "bool", text |-> text]
Number(text) == [type |-> "int", text |-> text]

Trues == {"true", "on"}

\* config/settings.toml
File == [environment |-> Str("development"),
         self_serve |-> Bool("true"),
         default_provider |-> Str("ollama"),
         fallback_provider |-> Str("ollama"),
         max_tokens |-> Number("4096"),
         backend |-> Str("ollama")]
FileSections == {"ollama", "anthropic"}
Adapters == {"ollama", "anthropic"}

\* The variables, and texts they may have.
Texts == [environment |-> {"production", "Production"},
          self_serve |-> {"false", "on"},
          default_provider |-> {"anthropic", "mistral"},
          fallback_provider |-> {"anthropic, ollama", ""},
          max_tokens |-> {"1000", "many"},
          backend |-> {"hashing", "mistral"},
          enabled |-> {"false", "true"},    \* PROVIDERS__ANTHROPIC__ENABLED
          mistral |-> {"large"},            \* PROVIDERS__MISTRAL__MODEL
          path |-> {"x"},                   \* PATH__X
          JWT_SECRET |-> {"weak", "strong"},
          DATABASE_URL |-> {"default", "own"}]
Nested == {"environment", "self_serve", "default_provider", "fallback_provider",
           "max_tokens", "backend", "enabled", "mistral", "path"}
Splits == [t \in {"ollama", "anthropic, ollama", ""} |->
              IF t = "anthropic, ollama" THEN <<"anthropic", "ollama">>
                                         ELSE <<"ollama">>]

Variables == {v \in [layer : {"process", "backend", "repo"},
                     key : DOMAIN Texts, text : UNION {Texts[k] : k \in DOMAIN Texts}] :
                 v.text \in Texts[v.key]}
ASSUME StartAssumption == \A set \in Environments : set \subseteq Variables

\* Bound: what TLC tries, no variable, any one and any two.
TwoVariables == {{}} \cup {{v, w} : v, w \in Variables}
Layer(set, name) ==
    LET here == {v \in set : v.layer = name}
    IN  [k \in {v.key : v \in here} |->
            (CHOOSE v \in here : v.key = k).text]

StartInit ==
    /\ \E set \in Environments, proper \in BOOLEAN :
          layers = [process |-> Layer(set, "process"),
                    backend |-> Layer(set, "backend"),
                    repo |-> IF proper
                             THEN Merge(Layer(set, "repo"),
                                        [JWT_SECRET |-> "strong",
                                         DATABASE_URL |-> "own",
                                         self_serve |-> "false"])
                             ELSE Layer(set, "repo")]
    /\ environ = layers.process
    /\ starting = "backend/.env"
    /\ data = File
    /\ settings = <<>> /\ container = <<>>

-----------------------------------------------------------------------------

\* Mutant of Dotenv: load_dotenv(override=True).
DotenvOverriding(file) == environ' = Merge(layers[file], environ)

\* load_dotenv(override=False)
Dotenv(file) == environ' = Merge(environ, layers[file])

LoadDotenv ==
    /\ \/ starting = "backend/.env" /\ Dotenv("backend") /\ starting' = ".env"
       \/ starting = ".env" /\ Dotenv("repo") /\ starting' = "overrides"
    /\ UNCHANGED <<layers, data, settings, container>>

\* Mutant of Coerce: overrides stay the strings they are.
CoerceNothing(raw, current) == Str(raw)

\* The text of a variable becomes a value of the type of the present one.
Coerce(raw, current) ==
    CASE current.type = "bool" -> Bool(IF raw \in Trues THEN "true" ELSE "false")
      [] current.type = "int"  -> IF raw = "many" THEN [type |-> "ValueError", text |-> ""]
                                                  ELSE Number(raw)
      [] OTHER                 -> Str(raw)

ApplyOverrides ==
    /\ starting = "overrides"
    /\ LET set == (DOMAIN environ \cap Nested) \ {"path"}
       IN  data' = Merge([k \in set |->
               Coerce(environ[k], IF k \in DOMAIN File THEN File[k] ELSE Str(""))],
               File)
    /\ starting' = IF \E k \in DOMAIN data' : data'[k].type = "ValueError"
                   THEN "refused" ELSE "checks"
    /\ UNCHANGED <<layers, environ, settings, container>>

\* bool() of Python: any text but the empty one is true.
Truthy(value) == IF value.type = "bool" THEN value.text = "true" ELSE value.text # ""

Sections == FileSections \cup (IF "mistral" \in DOMAIN data THEN {"mistral"} ELSE {})
Get(key, default) == IF key \in DOMAIN environ THEN environ[key] ELSE default

Built ==
    [production |-> data["environment"].text \in {"production", "Production"},
     self_serve |-> Truthy(data["self_serve"]),
     default |-> data["default_provider"].text,
     fallbacks |-> Splits[data["fallback_provider"].text],
     max_tokens |-> data["max_tokens"],
     enabled |-> "enabled" \in DOMAIN data => Truthy(data["enabled"]),
     backend |-> data["backend"].text,
     secret |-> Get("JWT_SECRET", "weak"),
     database |-> Get("DATABASE_URL", "default")]

\* The ConfigErrors of build_settings().
Objections(s) ==
    {o \in {"provider", "secret", "database", "self_serve"} :
        \/ o = "provider" /\ \E p \in {s.default} \cup {s.fallbacks[i] : i \in DOMAIN s.fallbacks} :
                                p \notin Sections
        \/ o = "secret" /\ s.production /\ s.secret = "weak"
        \/ o = "database" /\ s.production /\ s.database = "default"
        \/ o = "self_serve" /\ s.production /\ s.self_serve}

\* Outside production a weak secret is replaced by a random one.
BuildSettings ==
    /\ starting = "checks"
    /\ IF Objections(Built) # {}
       THEN starting' = "refused" /\ UNCHANGED settings
       ELSE /\ settings' = [Built EXCEPT !.secret = "strong"]
            /\ starting' = "container"
    /\ UNCHANGED <<layers, environ, data, container>>

\* build_providers() skips a section without an adapter.
Registered == Sections \cap Adapters

\* is_configured: what the router, the tiles and the health checks ask.
Usable(s) == {p \in Registered : p = "anthropic" => s.enabled}

\* make_embedder() falls back to hashing.
Embedder(s) == IF s.backend \in Registered THEN s.backend ELSE "hashing"

\* The collection keeps the name of the backend that was asked for.
BuildContainer ==
    /\ starting = "container"
    /\ container' = [registered |-> Registered, usable |-> Usable(settings),
                     embedder |-> Embedder(settings),
                     collection |-> settings.backend]
    /\ starting' = "running"
    /\ UNCHANGED <<layers, environ, data, settings>>

StartEnds ==
    /\ starting \in {"running", "refused"}
    /\ UNCHANGED startVars

StartNext ==
    LoadDotenv \/ ApplyOverrides \/ BuildSettings \/ BuildContainer \/ StartEnds

StartSpec == StartInit /\ [][StartNext]_startVars

-----------------------------------------------------------------------------
(* Properties *)

\* The kinds of values there are at each step.
StartTypeOK ==
    /\ starting \in {"backend/.env", ".env", "overrides", "checks", "container",
                     "running", "refused"}
    /\ DOMAIN environ \subseteq DOMAIN Texts
    /\ \A k \in DOMAIN data : data[k].type \in {"str", "bool", "int", "ValueError"}
    /\ starting = "running" =>
          container.usable \subseteq container.registered

\* What the operator asked for: the process's environment, then backend/.env,
\* then .env, then the file.
Wanted(key) ==
    CASE key \in DOMAIN layers.process -> layers.process[key]
      [] key \notin DOMAIN layers.process /\ key \in DOMAIN layers.backend
                                       -> layers.backend[key]
      [] key \notin DOMAIN layers.process \cup DOMAIN layers.backend
         /\ key \in DOMAIN layers.repo -> layers.repo[key]
      [] OTHER -> IF key \in DOMAIN File THEN File[key].text ELSE ""

\* The settings that these texts mean, each of the type the file gives it.
Meant ==
    [production |-> Wanted("environment") \in {"production", "Production"},
     self_serve |-> Wanted("self_serve") \in Trues,
     default |-> Wanted("default_provider"),
     fallbacks |-> Splits[Wanted("fallback_provider")],
     max_tokens |-> Number(Wanted("max_tokens")),
     backend |-> Wanted("backend"),
     database |-> IF Wanted("DATABASE_URL") = "own" THEN "own" ELSE "default"]

\* architecture.md, "Configuration": every setting that the file lists is what
\* the environment says, in the order of its sources and typed as in the file;
\* a variable adds no setting but the one it names, and none outside the file's
\* sections (PATH__X); a provider that nothing disables is enabled; in
\* production a backend runs only with a secret and a database of its own and
\* without self-served plans, however the environment spells it; and it refuses
\* to start only for one of those reasons, a missing provider or a number that
\* is none.
StartsAsConfigured ==
    /\ starting = "running" =>
          /\ \A k \in DOMAIN Meant : settings[k] = Meant[k]
          /\ DOMAIN data = DOMAIN File \cup {k \in {"enabled", "mistral"} : Wanted(k) # ""}
          /\ Wanted("enabled") # "false" => settings.enabled
          /\ settings.secret = "strong"
          /\ Meant.production => /\ Wanted("JWT_SECRET") = "strong"
                                 /\ Meant.database = "own"
                                 /\ ~ Meant.self_serve
    /\ starting = "refused" =>
          \/ Wanted("max_tokens") = "many"
          \/ Wanted("default_provider") = "mistral" /\ Wanted("mistral") = ""
          \/ Meant.production /\ (\/ Wanted("JWT_SECRET") # "strong"
                                  \/ Meant.database # "own" \/ Meant.self_serve)

\* settings.toml: every value can be overridden, architecture.md lists
\* "enabled" among them - a provider that the environment disables is not
\* used.
DisabledStaysOff ==
    starting = "running" /\ Wanted("enabled") = "false" =>
        "anthropic" \notin container.usable
=============================================================================
