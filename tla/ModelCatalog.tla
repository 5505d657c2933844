----------------------------- MODULE ModelCatalog -----------------------------
(***************************************************************************)
(* The models that are offered to choose from: the catalog of models.dev   *)
(* with a table of its own to fall back on, in the terminal client         *)
(* (client/src/app/models.ts) and in the web application                   *)
(* (web/src/lib/models.ts).                                                *)
(*                                                                         *)
(* The clients share a file they cache the catalog in, for five minutes,   *)
(* which they read and write without a lock; a client keeps the catalog it *)
(* loaded, also the fallback, until it ends.  A page keeps only a catalog  *)
(* it fetched.  Of a model its id is kept, and whether it is one to use:   *)
(* it reasons, writes text and is not deprecated.  Labels, limits and the  *)
(* order of the choices are left out.                                      *)
(***************************************************************************)
EXTENDS Naturals, FiniteSets, TLC

CONSTANTS
    Clients,       \* client processes
    Pages,         \* pages of the web application
    Requests,      \* lists asked for at the same time
    Providers,     \* that are asked for
    Published,     \* models.dev: its catalogs, one after the other; the models
                   \* of an entry, and whether they are to be used
    Served,        \* available_models of servers
    MaxAsked,      \* bound: lists asked for
    MaxFaults      \* bound: fetches and writes that fail, clients killed

\* What the constants are.
Assumptions ==
    /\ Providers \subseteq STRING
    /\ Clients \intersect Pages = {} /\ 1 \in DOMAIN Published
    /\ {MaxAsked, MaxFaults} \subseteq Nat

VARIABLES
    version,  \* of models.dev
    file,     \* the cache: absent, torn, or a version; and whether it is stale
    process,  \* of each client and page: where its load is, and what it keeps
    request,  \* where each request is
    asked, faults,
    answered  \* history: the choices each process was given

vars == <<version, file, process, request, asked, faults, answered>>

-----------------------------------------------------------------------------
(* The tables: the ids of the models of each provider.                     *)

Gpt56 == {"gpt-5.6", "gpt-5.6-sol", "gpt-5.6-terra", "gpt-5.6-luna"}
Gpt54 == {"gpt-5.5", "gpt-5.4", "gpt-5.4-mini"}
OpenAI == Gpt56 \union Gpt54 \union {"gpt-5.4-pro", "gpt-5.4-nano"}
Cloud == {"deepseek-v4-flash", "deepseek-v4.1-flash", "gemini-3.8-flash", "gemini-3.7-flash"}
OpenCode == {"gpt-5.5", "gpt-5.4", "claude-sonnet-4-5", "gemini-3.1-pro", "glm-5.1",
             "qwen3.6-plus", "minimax-m2.7", "deepseek-v4-flash-free"}
OpenCodeGo == {"deepseek-v4-flash", "glm-5", "glm-5.1", "glm-5.3-flash", "mimo-v2.5",
               "mimo-v2.5-pro", "minimax-m2.5", "minimax-m2.7", "qwen3.5-plus", "qwen3.6-plus"}
Routed == {"openai/gpt-5.5", "openai/gpt-5.4", "anthropic/claude-sonnet-4.5",
           "qwen/qwen3.6-plus"}
Gemini == {"gemini-3.8-flash", "gemini-3.7-flash", "gemini-3.5-flash-lite",
           "gemini-3.5-flash", "gemini-3.1-pro-preview", "gemini-3-pro-preview",
           "gemini-3-flash-preview"}
Groq == {"openai/gpt-oss-120b", "openai/gpt-oss-20b", "qwen/qwen3-32b", "groq/compound-mini"}
Grok == {"grok-4.3", "grok-4-1-fast", "grok-4-fast", "grok-code-fast-1"}
Workers == {"@cf/zai-org/glm-5.3-flash", "@cf/zai-org/glm-5.2", "@cf/zai-org/glm-4.7-flash",
            "@cf/nvidia/nemotron-3-120b-a12b", "@cf/moonshotai/kimi-k2.7-code"}
ZenMux == Routed \union {"x-ai/grok-4.1-fast", "z-ai/glm-5.1", "volcengine/doubao-seed-code"}
Claude == {"claude-sonnet-4-20250514"}
DeepSeek == {"deepseek-v4-flash"}

\* SUPPORTED_MODELS
Supported ==
    [codex |-> Gpt56 \union Gpt54, github_copilot |-> {"gpt-5.4"},
     openai |-> OpenAI \union {"gpt-6-astra"}, chump_cloud |-> Cloud,
     opencode |-> OpenCode, opencode_go |-> OpenCodeGo,
     openrouter |-> Routed \union {"z-ai/glm-5.3-flash"}, google |-> Gemini,
     anthropic |-> Claude, groq |-> Groq, xai |-> Grok, workers_ai |-> Workers,
     deepseek |-> DeepSeek, zenmux |-> ZenMux]

\* FALLBACK_MODELS, in three parts
FallbackOwn ==
    [codex |-> Gpt56 \union Gpt54 \union {"gpt-6-astra"}, github_copilot |-> {"gpt-5.4"},
     openai |-> OpenAI, chump_cloud |-> Cloud]
FallbackRouters ==
    [opencode |-> OpenCode, opencode_go |-> OpenCodeGo \union {"z-ai/glm-5.3-flash"},
     openrouter |-> Routed]
FallbackOthers ==
    [anthropic |-> Claude, google |-> Gemini, groq |-> Groq, xai |-> Grok,
     workers_ai |-> Workers]
FallbackLast == [deepseek |-> DeepSeek, zenmux |-> ZenMux]
Fallback == FallbackOwn @@ FallbackRouters @@ FallbackOthers @@ FallbackLast

\* The tables of the web application know older models as well.
PageCodex == {"gpt-5.3-codex", "gpt-5.2", "gpt-5.2-codex", "gpt-5.1-codex",
              "gpt-5.1-codex-max", "gpt-5.1-codex-mini", "gpt-5-codex"}
PageOpenAI == {"gpt-5.3-codex", "gpt-5.2", "gpt-5.2-pro", "gpt-5.1", "gpt-5", "gpt-5-mini",
               "gpt-5-nano", "gpt-5-codex"}
PageSupported ==
    [codex |-> Supported.codex \union PageCodex,
     openai |-> Supported.openai \union PageOpenAI, chump_cloud |-> Cloud,
     google |-> Gemini \union {"gemini-2.5-flash", "gemini-2.5-pro", "gemini-2.5-flash-lite"},
     anthropic |-> Claude, deepseek |-> DeepSeek,
     workers_ai |-> Workers \union {"@cf/moonshotai/kimi-k2.5", "@cf/moonshotai/kimi-k2.6"}]
PageFallback == [PageSupported EXCEPT !.codex = @ \union {"gpt-6-astra"},
                                      !.openai = @ \ {"gpt-6-astra"}]

\* modelCatalogProviderId
CatalogId(p) ==
    CASE p = "codex" -> "openai"
      [] p = "github_copilot" -> "github-copilot"
      [] p = "opencode_go" -> "opencode-go"
      [] p = "workers_ai" -> "cloudflare-workers-ai"
      [] OTHER -> p

PageCatalogId(p) ==
    CASE p = "codex" -> "openai"
      [] p = "workers_ai" -> "cloudflare-workers-ai"
      [] OTHER -> p

-----------------------------------------------------------------------------
Absent == 0
\* A half-written file: JSON.parse throws.
Torn == 100

Processes == Clients \union Pages

\* The models of a table are all to be used.
Entries(ids) == [m \in ids |-> TRUE]

\* normalizeCatalog, mergeCatalog: entries of both are joined, model by model.
Merge(table, published) ==
    [p \in DOMAIN table \union DOMAIN published |->
       (IF p \in DOMAIN published THEN published[p] ELSE <<>>)
         @@ Entries(IF p \in DOMAIN table THEN table[p] ELSE {})]

\* A catalog is a version, or 0 for the fallback.
Catalog(table, v) == Merge(table, IF v = 0 THEN <<>> ELSE Published[v])

\* isUsableChatModel: no supported model is one of embeddings or images.
Usable(supported, p, entry) ==
    {m \in DOMAIN entry : /\ p \in DOMAIN supported /\ m \in supported[p]
                          /\ p \in {"openai", "codex"} => m # "gpt-6-astra"
                          /\ entry[m]}

\* listModelChoices: the entry, or that of the table, as far as the server
\* has the models and they can be used to chat.
Listed(table, supported, v, p, id, served) ==
    LET catalog == Catalog(table, v)
        entry == IF id \in DOMAIN catalog THEN catalog[id]
                 ELSE IF p \in DOMAIN table THEN Entries(table[p]) ELSE <<>>
    IN  Usable(supported, p, entry) \intersect served

Choices(x, v, p, served) ==
    IF x \in Clients THEN Listed(Fallback, Supported, v, p, CatalogId(p), served)
    ELSE Listed(PageFallback, PageSupported, v, p, PageCatalogId(p), served)

Idle == [at |-> "none", version |-> 0]
Free == [state |-> "free"]

Fault == faults < MaxFaults /\ faults' = faults + 1

\* The load of a client is over: everyone who waits for it has the catalog.
Loaded(c, v) == process' = [process EXCEPT ![c] = [at |-> "loaded", version |-> v]]

-----------------------------------------------------------------------------
(* Terminal client.                                                        *)

\* Faulty: a request joins a load, and does not keep what it brings.
LoadEach(c) ==
    IF process[c].at \notin {"none", "loaded"} THEN UNCHANGED process
    ELSE process' = [process EXCEPT ![c].at = "stat"]

\* loadModelCatalog: the first one to ask begins to load.
LoadOnce(c) ==
    IF process[c].at # "none" THEN UNCHANGED process
    ELSE process' = [process EXCEPT ![c].at = "stat"]

Ask(r, c, p, served) ==
    /\ request[r] = Free /\ asked < MaxAsked
    /\ asked' = asked + 1
    /\ request' = [request EXCEPT ![r] = [state |-> "waiting", of |-> c, provider |-> p,
                                          served |-> served, late |-> FALSE]]
    /\ LoadOnce(c)
    /\ UNCHANGED <<version, file, faults, answered>>

\* readCachedCatalog: by the time of the file
Stat(c) ==
    /\ process[c].at = "stat"
    /\ process' = [process EXCEPT ![c].at =
         IF file.version = Absent \/ file.stale THEN "fetch" ELSE "read"]
    /\ UNCHANGED <<version, file, request, asked, faults, answered>>

\* it is read, or not, if it is torn by now.
Read(c) ==
    /\ process[c].at = "read"
    /\ IF file.version \in {Absent, Torn} THEN process' = [process EXCEPT ![c].at = "fetch"]
       ELSE Loaded(c, file.version)
    /\ UNCHANGED <<version, file, request, asked, faults, answered>>

\* loadModelCatalogInternal
Fetched(c) ==
    /\ c \in Clients /\ process[c].at = "fetch"
    /\ process' = [process EXCEPT ![c] = [at |-> "write", version |-> version]]
    /\ UNCHANGED <<version, file, request, asked, faults, answered>>

\* writeCachedCatalog
Truncate(c) ==
    /\ process[c].at = "write"
    /\ file' = [version |-> Torn, stale |-> FALSE]
    /\ process' = [process EXCEPT ![c].at = "store"]
    /\ UNCHANGED <<version, request, asked, faults, answered>>

\* Two writes at once may leave the end of the longer one.
Store(c) ==
    /\ process[c].at = "store"
    /\ \E v \in {process[c].version} \union (IF file.version = Torn THEN {} ELSE {Torn}) :
         file' = [version |-> v, stale |-> FALSE]
    /\ Loaded(c, process[c].version)
    /\ UNCHANGED <<version, request, asked, faults, answered>>

\* The fetch or the write fails: the fallback, for good.
LoadFails(c) ==
    /\ c \in Clients /\ process[c].at \in {"fetch", "write", "store"}
    /\ Fault
    /\ Loaded(c, 0)
    /\ UNCHANGED <<version, file, request, asked, answered>>

Killed(c) ==
    /\ c \in Clients /\ process[c].at # "none"
    /\ Fault
    /\ process' = [process EXCEPT ![c] = Idle]
    /\ request' = [r \in Requests |-> IF request[r] # Free /\ request[r].of = c
                                      THEN Free ELSE request[r]]
    /\ answered' = [answered EXCEPT ![c] = {}]
    /\ UNCHANGED <<version, file, asked>>

\* MODELS_TTL_MS
Expire ==
    /\ file.version # Absent /\ ~file.stale
    /\ file' = [file EXCEPT !.stale = TRUE]
    /\ UNCHANGED <<version, process, request, asked, faults, answered>>

-----------------------------------------------------------------------------
(* Web application: fetchModelCatalog.                                     *)

\* Each one fetches while there is no catalog.
PageAsk(r, g, p, served) ==
    /\ request[r] = Free /\ asked < MaxAsked
    /\ asked' = asked + 1
    /\ request' = [request EXCEPT ![r] =
         [state |-> IF process[g].at = "loaded" THEN "waiting" ELSE "fetching", of |-> g,
          provider |-> p, served |-> served, late |-> process[g].at = "loaded"]]
    /\ UNCHANGED <<version, file, process, faults, answered>>

Given(r, v) ==
    LET x == request[r].of
    IN  /\ answered' = [answered EXCEPT ![x] = @ \union
             {[provider |-> request[r].provider, served |-> request[r].served,
               late |-> request[r].late,
               choices |-> Choices(x, v, request[r].provider, request[r].served)]}]
        /\ request' = [request EXCEPT ![r] = Free]

PageFetched(r) ==
    /\ request[r].state = "fetching"
    /\ process' = [process EXCEPT ![request[r].of] = [at |-> "loaded", version |-> version]]
    /\ Given(r, version)
    /\ UNCHANGED <<version, file, asked, faults>>

PageFails(r) ==
    /\ request[r].state = "fetching"
    /\ Fault
    /\ Given(r, 0)
    /\ UNCHANGED <<version, file, process, asked>>

-----------------------------------------------------------------------------
\* listModelChoices goes on with the catalog.
Answer(r) ==
    /\ request[r].state = "waiting" /\ process[request[r].of].at = "loaded"
    /\ Given(r, process[request[r].of].version)
    /\ UNCHANGED <<version, file, process, asked, faults>>

\* models.dev changes.
Publish ==
    /\ version + 1 \in DOMAIN Published
    /\ version' = version + 1
    /\ UNCHANGED <<file, process, request, asked, faults, answered>>

Init ==
    /\ version = 1
    /\ file = [version |-> Absent, stale |-> FALSE]
    /\ process = [x \in Processes |-> Idle]
    /\ request = [r \in Requests |-> Free]
    /\ asked = 0 /\ faults = 0
    /\ answered = [x \in Processes |-> {}]

Next ==
    \/ \E r \in Requests, p \in Providers, served \in Served :
         \/ \E c \in Clients : Ask(r, c, p, served)
         \/ \E g \in Pages : PageAsk(r, g, p, served)
    \/ \E c \in Clients :
         Stat(c) \/ Read(c) \/ Fetched(c) \/ Truncate(c) \/ Store(c) \/ LoadFails(c) \/ Killed(c)
    \/ \E r \in Requests : PageFetched(r) \/ PageFails(r) \/ Answer(r)
    \/ Expire \/ Publish

Spec == Init /\ [][Next]_vars

-----------------------------------------------------------------------------
(* Properties.                                                             *)

(* A client offers the same models whenever it is asked for the same       *)
(* server: the picker, its completion and a command agree, whatever other  *)
(* clients and models.dev do, and however many ask before it is loaded     *)
(* (loadModelCatalog).  A page that once had a catalog of models.dev has   *)
(* no request fall back behind it that begins afterwards                   *)
(* (fetchModelCatalog).                                                    *)
OneCatalog ==
    \A x \in Processes : \A a, b \in answered[x] :
      /\ x \in Clients /\ a.provider = b.provider /\ a.served = b.served =>
           a.choices = b.choices
      /\ x \in Pages /\ a.late =>
           \E v \in DOMAIN Published : a.choices = Choices(x, v, a.provider, a.served)

-----------------------------------------------------------------------------
\* What holds of every state, and is why the answers agree.

Versions == {Absent, Torn} \union DOMAIN Published

Loads == [at : {"none", "stat", "read", "fetch", "write", "store", "loaded"},
          version : Versions]
Asked == [state : {"waiting", "fetching"}, of : Processes, provider : Providers,
          served : Served, late : BOOLEAN]

TypeOK ==
    /\ version \in DOMAIN Published
    /\ file \in [version : Versions, stale : BOOLEAN]
    /\ process \in [Processes -> Loads]
    /\ request \in [Requests -> {Free} \union Asked]
    /\ answered = [x \in Processes |-> answered[x]]

\* A page has a catalog of models.dev or none, and a request that came when it
\* had one does not fetch.
PagesKeepTheirs ==
    /\ \A g \in Pages :
         \/ process[g].at = "none"
         \/ process[g].at = "loaded" /\ process[g].version \in DOMAIN Published
    /\ \A r \in Requests : request[r] # Free =>
         /\ request[r].state = "fetching" => request[r].of \in Pages /\ ~request[r].late
         /\ request[r].late => request[r].of \in Pages

\* A client that answered has a catalog, and all its answers are of that one.
AnswersAreOfTheCatalog ==
    \A x \in Processes : \A a \in answered[x] :
      /\ x \in Clients => /\ process[x].at = "loaded"
                          /\ a.choices = Choices(x, process[x].version, a.provider, a.served)
      /\ x \in Pages /\ a.late =>
           \E v \in DOMAIN Published : a.choices = Choices(x, v, a.provider, a.served)

CatalogInv == TypeOK /\ PagesKeepTheirs /\ AnswersAreOfTheCatalog
=============================================================================
