--------------------------- MODULE ProviderCache ---------------------------
(***************************************************************************)
(* From the model of a request to the client that calls its provider: the  *)
(* secrets in the model's configuration are resolved (secret_service.py,   *)
(* core/secrets.py, api/messages.py), the provider is chosen               *)
(* (providers/__init__.py) and hands out a client of its cache             *)
(* (langchain/registry.py, bedrock/converse.py), while administrators      *)
(* change secrets and models.  Each worker has its own two caches; a       *)
(* lookup, with the creation that may follow, is one step of its loop.     *)
(*                                                                         *)
(* account and address stand for what distinguishes two Bedrock clients    *)
(* besides their secrets (profile, access key id, region, endpoint,        *)
(* timeouts), address alone for the base_url of a LangChain model, None    *)
(* when it has none and the library's default or the environment's is      *)
(* called.                                                                 *)
(* MaxChanges bounds what administrators do, MaxArrivals the requests: one *)
(* of ClientRequests stands for any number that follow each other.         *)
(***************************************************************************)
EXTENDS Naturals, SequencesExt

CONSTANTS
    Processes, Models, Secrets, Params, Upstreams, Accounts,
    Configs,     \* the configurations a model may have
    Addresses, Allowed,  \* those allowed_base_urls lets through
    Capacity,    \* _max_cache_size, _CLIENT_CACHE_MAX
    ClientRequests, Administrators, MaxChanges, MaxArrivals, None

ASSUME CacheAssumption ==
    /\ Capacity \in Nat \ {0} /\ MaxChanges \in Nat /\ MaxArrivals \in Nat
    /\ Configs \subseteq [provider : {"bedrock", "openai"}, upstream : Upstreams,
                          address : Addresses \cup {None}, account : Accounts, secret : Secrets \cup {None}]

VARIABLES
    config,   \* config_json and provider of every model
    secret,   \* of every secret how often it changed, and whether it is there
    clients,  \* registry._cache and _CLIENT_CACHE of every worker, oldest first
    req, writer,
    changes, arrivals,
    served,   \* ghost: the keys asked of a cache, since it was last cleared
    clean     \* ghost: per worker and secret, the change a quiet clear came after

clientVars == <<config, secret, clients, req, writer, changes, arrivals, served, clean>>

Providers == {"bedrock", "openai"}
NoClient == [key |-> <<>>, upstream |-> None, address |-> None, secret |-> None, version |-> 0]
Unused == [pc |-> "new", worker |-> None, model |-> None, params |-> None, config |-> None,
           version |-> 0, client |-> NoClient]

ClientInit ==
    /\ config \in [Models -> Configs]
    /\ secret = [s \in Secrets |-> [version |-> 1, there |-> TRUE]]
    /\ clients = [w \in Processes |-> [p \in Providers |-> <<>>]]
    /\ req = [r \in ClientRequests |-> Unused]
    /\ writer = [a \in Administrators |-> [pc |-> "idle", worker |-> None, secret |-> None]]
    /\ changes = 0 /\ arrivals = 0
    /\ served = [w \in Processes |-> [p \in Providers |-> <<>>]]
    /\ clean = [w \in Processes |-> [s \in Secrets |-> 0]]

-----------------------------------------------------------------------------
\* Which change of a secret a configuration stands for: a reference without a
\* secret is kept as it is, and is no version of it.
VersionOf(s) == IF s = None \/ ~secret[s].there THEN 0 ELSE secret[s].version

\* get_model_for_user reads the model.
FindModel(r, w, m, p) ==
    /\ req[r].pc \notin {"model", "resolved"} /\ arrivals < MaxArrivals
    /\ arrivals' = arrivals + 1
    /\ req' = [req EXCEPT ![r] =
           [Unused EXCEPT !.pc = "model", !.worker = w, !.model = m, !.params = p,
                          !.config = config[m]]]
    /\ UNCHANGED <<config, secret, clients, writer, changes, served, clean>>

\* resolve_model_config reads the secrets the configuration refers to.
ResolveSecrets(r) ==
    /\ req[r].pc = "model"
    /\ req' = [req EXCEPT ![r].pc = "resolved", ![r].version = VersionOf(req[r].config.secret)]
    /\ UNCHANGED <<config, secret, clients, writer, changes, arrivals, served, clean>>

\* A slip of KeyOf: the parameters the client is built with are not in its key.
KeyOfModel(r) ==
    LET c == req[r].config IN
    IF c.provider = "bedrock" THEN <<c.account, c.address>> ELSE <<req[r].model>>

\* cache_key: of a Bedrock client the account and the address, not the secret;
\* of a LangChain client the model's id and the parameters.
KeyOf(r) ==
    LET c == req[r].config IN
    IF c.provider = "bedrock" THEN <<c.account, c.address>> ELSE <<req[r].model, req[r].params>>

\* _openai_factory, get_boto3_client: what the client is built from.
ClientOf(r) ==
    LET c == req[r].config IN
    [key |-> <<c.provider, IF c.provider = "bedrock" THEN <<c.account, c.address>>
                                                     ELSE <<req[r].model, req[r].params>>>>,
     upstream |-> IF c.provider = "bedrock" THEN None ELSE c.upstream,
     address |-> c.address, secret |-> c.secret, version |-> req[r].version]

Cached(C, k) == \E i \in DOMAIN C : C[i].key = k
PlaceOf(C, k) == CHOOSE i \in DOMAIN C : C[i].key = k

\* A slip of Touched: a client that is used again keeps its place.
NotTouched(C, i) == C

\* move_to_end.
Touched(C, i) == Append(RemoveAt(C, i), C[i])

\* popitem(last=False) when the cache is full.
Inserted(C, e) == Append(IF Len(C) >= Capacity THEN Tail(C) ELSE C, e)

\* A slip of Refused: the address is taken as it is.
NeverRefused(r) == FALSE

\* _validate_base_url, of a LangChain client when it is made, if its model has a
\* base_url.
Refused(r) ==
    /\ req[r].config.provider = "openai"
    /\ req[r].config.address # None /\ req[r].config.address \notin Allowed

\* get_chat_model, get_boto3_client.
GetClient(r) ==
    LET w == req[r].worker
        p == req[r].config.provider
        C == clients[w][p]
        i == PlaceOf(C, KeyOf(r))
        e == [key |-> KeyOf(r), client |-> ClientOf(r)] IN
    /\ req[r].pc = "resolved"
    /\ IF Cached(C, e.key)
       THEN /\ req' = [req EXCEPT ![r].pc = "done", ![r].client = C[i].client]
            /\ clients' = [clients EXCEPT ![w][p] = Touched(C, i)]
            /\ served' = [served EXCEPT ![w][p] = Append(@, e.key)]
       ELSE IF Refused(r)
       THEN /\ req' = [req EXCEPT ![r].pc = "refused"]
            /\ UNCHANGED <<clients, served>>
       ELSE /\ req' = [req EXCEPT ![r].pc = "done", ![r].client = e.client]
            /\ clients' = [clients EXCEPT ![w][p] = Inserted(C, e)]
            /\ served' = [served EXCEPT ![w][p] = Append(@, e.key)]
    /\ UNCHANGED <<config, secret, writer, changes, arrivals, clean>>

-----------------------------------------------------------------------------
\* update_secret and delete_secret commit.
ChangeSecret(a, w, s, there) ==
    /\ writer[a].pc = "idle" /\ secret[s].there /\ changes < MaxChanges
    /\ secret' = [secret EXCEPT ![s] = [version |-> @.version + 1, there |-> there]]
    /\ writer' = [writer EXCEPT ![a] = [pc |-> "clear", worker |-> w, secret |-> s]]
    /\ changes' = changes + 1
    /\ UNCHANGED <<config, clients, req, arrivals, served, clean>>

\* No request of w is between its reading of the secrets and its client.
Quiet(w, s) ==
    \A r \in ClientRequests :
        req[r].pc = "resolved" /\ req[r].worker = w => req[r].config.secret # s

\* A slip of ClearCache: it is left to the cache to grow out of it.
KeepCache(a) ==
    LET w == writer[a].worker  s == writer[a].secret IN
    /\ writer[a].pc = "clear"
    /\ writer' = [writer EXCEPT ![a].pc = "idle"]
    /\ clean' = [clean EXCEPT ![w][s] = IF Quiet(w, s) THEN secret[s].version ELSE @]
    /\ UNCHANGED <<config, secret, req, changes, arrivals, clients, served>>

\* registry.clear_cache(): of this worker, and of the LangChain clients only.
ClearCache(a) ==
    LET w == writer[a].worker  s == writer[a].secret IN
    /\ writer[a].pc = "clear"
    /\ writer' = [writer EXCEPT ![a].pc = "idle"]
    /\ clients' = [clients EXCEPT ![w]["openai"] = <<>>]
    /\ served' = [served EXCEPT ![w]["openai"] = <<>>]
    /\ clean' = [clean EXCEPT ![w][s] = IF Quiet(w, s) THEN secret[s].version ELSE @]
    /\ UNCHANGED <<config, secret, req, changes, arrivals>>

\* update_model clears nothing.
ChangeModel(m, c) ==
    /\ c # config[m] /\ changes < MaxChanges
    /\ config' = [config EXCEPT ![m] = c]
    /\ changes' = changes + 1
    /\ UNCHANGED <<secret, clients, req, writer, arrivals, served, clean>>

ClientStep(r) ==
    \/ \E w \in Processes, m \in Models, p \in Params : FindModel(r, w, m, p)
    \/ ResolveSecrets(r)
    \/ GetClient(r)

SecretStep(a) ==
    \/ \E w \in Processes, s \in Secrets, there \in BOOLEAN : ChangeSecret(a, w, s, there)
    \/ ClearCache(a)

ClientNext ==
    \/ \E r \in ClientRequests : ClientStep(r)
    \/ \E a \in Administrators : SecretStep(a)
    \/ \E m \in Models, c \in Configs : ChangeModel(m, c)

ClientSpec == ClientInit /\ [][ClientNext]_clientVars

-----------------------------------------------------------------------------
\* The types of the variables.
Keys == (Accounts \X (Addresses \cup {None})) \cup (Models \X Params)
ClientType ==
    [key : {<<>>} \cup (Providers \X Keys), upstream : Upstreams \cup {None},
     address : Addresses \cup {None}, secret : Secrets \cup {None}, version : Nat]
EntryType == [key : Keys, client : ClientType]
RequestType ==
    [pc : {"new", "model", "resolved", "done", "refused"}, worker : Processes \cup {None},
     model : Models \cup {None}, params : Params \cup {None},
     config : Configs \cup {None}, version : Nat, client : ClientType]
WriterType ==
    [pc : {"idle", "clear"}, worker : Processes \cup {None}, secret : Secrets \cup {None}]
ClientTypeOK ==
    /\ config \in [Models -> Configs]
    /\ secret \in [Secrets -> [version : Nat, there : BOOLEAN]]
    /\ clients \in [Processes -> [Providers -> Seq(EntryType)]]
    /\ req \in [ClientRequests -> RequestType]
    /\ writer \in [Administrators -> WriterType]
    /\ changes \in Nat /\ arrivals \in Nat
    /\ served \in [Processes -> [Providers -> Seq(Keys)]]
    /\ clean \in [Processes -> [Secrets -> Nat]]

Done(r) == req[r].pc = "done"

\* A request is never handed the client of another model or of other
\* parameters (LangChain), nor of another account or address (Bedrock),
\* whatever was cached before it.
ClientFits == \A r \in ClientRequests : Done(r) => req[r].client.key = ClientOf(r).key

\* A LangChain client with an address of its own only ever calls one the allowlist
\* lets through, though the list is looked at when a client is made and not when it
\* is used, and the model may have changed since.  Where the model had no base_url the
\* list says nothing (_openai_factory).
AddressAllowed ==
    \A r \in ClientRequests : Done(r) /\ req[r].config.provider = "openai" =>
        req[r].client.address \in Allowed \cup {None}

\* In the requests S, k was asked for after the last request for l.
Later(S, k, l) == \E n \in DOMAIN S : S[n] = k /\ \A m \in DOMAIN S : m >= n => S[m] # l

\* What is cached is what was asked for last, as much as there is room for and
\* each once: the client evicted is the least recently used (move_to_end,
\* popitem), and a cache that is full stays at its size.
LeastRecentlyUsedGoes ==
    \A w \in Processes, p \in Providers :
        LET C == clients[w][p]
            S == served[w][p] IN
        /\ Len(C) <= Capacity
        /\ \A i, j \in DOMAIN C : i < j => Later(S, C[j].key, C[i].key)
        /\ \A n \in DOMAIN S : ~Cached(C, S[n]) =>
              Len(C) = Capacity /\ \A i \in DOMAIN C : Later(S, C[i].key, S[n])

\* Once a change of a secret has cleared the cache of a worker while no request
\* of it had read the secret without having its client yet, that worker holds
\* no LangChain client with an earlier value.
QuietClearIsClean ==
    \A w \in Processes : \A i \in DOMAIN clients[w]["openai"] :
        LET e == clients[w]["openai"][i].client IN
        e.secret # None /\ e.version > 0 => e.version >= clean[w][e.secret]
=============================================================================
