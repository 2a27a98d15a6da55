# Verification of the ttllm gateway

TLA+ specifications, model-checking configurations and machine-checked proofs
for the gateway in this repository (`src/ttllm`): an HTTP service that proxies
Anthropic-style `/messages` requests to Bedrock and OpenAI-compatible models,
meters them, applies a rules engine and quotas to them, and authenticates users
by password or by single sign-on.

Paths below are relative to the package (`src/ttllm`).

## The system

| Component | State | Operations | Hard behaviour | What makes it correct |
|---|---|---|---|---|
| Streaming relay (`api/messages.py`, `core/adapters/anthropic_stream.py`, `services/audit_service.py`) | per request: provider state, bounded queue, producer task, response generator, disconnect event; the audit table | stream, relay, disconnect, finalize | four tasks interleave at every await; cancellation at any suspension point; the audit write fails half way | events in order and none lost; one audit row, before the end; the status tells the truth; a request ends |
| Rules cache (`services/rules_service.py`) | per worker: list, time stamp, lock; the rules table | get, refresh, invalidate, create/update/delete | the list is shared and mutable; several workers; writes behind a worker's back | bounded staleness; never backwards; a request is decided by what it loaded |
| SSO role sync (`services/auth_service.py`, `core/oidc.py`) | user row (IdP refresh token, last sync, memberships); the IdP's live tokens | sync on request, login | row lock, HTTP call under the lock, token rotation, rollback after rotation | a sync never undoes a newer one; the stored token stays usable; role changes arrive |
| Non-streaming invoke (`api/messages.py`) | the audit table | invoke, finalize, log the error | a failure after the row is committed | one row per request |
| Stream grammar (`core/providers/*`, the encoder) | open blocks, index counters, accumulators | one per provider event | lazily opened blocks, interleaved tool calls, breaking off anywhere | every block opened once, closed once, deltas only in between; the stored response equals the streamed one |
| Sessions and tokens (`services/auth_service.py`, `api/auth.py`, `api/me.py`, `api/deps.py`) | refresh tokens, API tokens, users | login, refresh, logout, create, revoke, authenticate | no lock between check and revocation; users change under a request | revoked, spent or expired means refused; nobody gets more than he has held |
| OIDC login (`api/auth.py`, `services/oidc_state_service.py`) | state rows | authorize, callback | deletion is only as durable as the callback's transaction | a state serves one login, and survives one that fails |
| Command line client (`cli/client.py`, `cli/main.py`) | session file, header of the HTTP client | command, automatic refresh, logout | a request is sent again after the pair was rotated | a logout ends the session |
| Access control (`api/admin.py`, `services/*_service.py`) | users, groups, permissions, assignments, the admin audit log | the admin API | check then act in separate transactions; bulk operations that fail in the middle | an administrator remains; what is logged was done, what was done is logged; a listing shows what a name resolves to |
| Rules engine (`core/rules.py`) | none | evaluate, apply | nesting, negation, ties of weight | the first match by weight decides |
| Quota and usage (`services/usage_service.py`, `services/rules_service.py`) | the audit table | aggregate, check | check before, record after; moving windows | overshoot is bounded by the requests in flight |
| Provider caches and secrets (`core/providers/langchain/registry.py`, `bedrock/converse.py`, `services/secret_service.py`) | LRU caches per worker; the secrets table | get client, change secret, change model | cleared in one worker, keyed without the secret | a client fits the request it is handed to; the eviction takes the oldest; a clear clears |
| Translation (`core/adapters/anthropic.py`, `core/providers/bedrock/converse.py`, `core/providers/langchain/translation.py`) | none, but the history a client sends back | request and response, both ways | blocks in blocks, names and markers that depend on what came before, ids matched by position | nothing is lost; order, names, markers and ids survive the way there, back and there again |

Interaction: a `/messages` request authenticates (`api/deps.py`, which may run a
role sync), loads the rules (rules cache), computes quota figures from the audit
table, evaluates the rules, resolves the model and its secrets, takes a client
from a provider cache, and then either invokes the provider or starts the relay;
both end by writing the audit row that later quota figures are computed from.
Configuration, schemas, the user interface and the migrations are declarative or
one-off and are not modelled; `PROJECT.json` lists every component with the reason.

The hazards this code is exposed to, each at its line, are in `PROJECT.json`
("hazards"), with the properties that cover them.

## Modules

### StreamRelay, StreamContract

`StreamRelay` is one call of `_handle_streaming`. A step is the code between two
awaits. `prod` and `gen` are the program counters of `producer()` and of
`event_generator()`; `queue`, `disconnected`, `producerExc` and `stateError` are
the variables of the same names in the code; `fin` is what `_finalize` was called
with, `rows` the committed audit rows; `provider` and `usage` say how far the
provider's generator has come and whether its finally block has filled in the
token counts. An event is its number in the stream.

| Code | Actions |
|---|---|
| `async for event in sse_stream` | `EmitEvent`, `EmitErrorFrame` (the encoder forwards an ERROR chunk and returns), `StreamRaises`, `StreamEnds` |
| `queue_event` | `EnqueueEvent`, `DropEvent`, `OrphanPuts` (a `put_task` that outlives a cancelled producer) |
| choice of the status, `_finalize`, `log_request` | `BeginFinalize` (in the step that ends the stream: there is no await in between), `FinalizeCommits`, `FinalizeFails`, `RefreshReturns` |
| `finally: await queue.put(None)` | `EnterFinally`, `PutSentinel` |
| `event_generator` | `StartBody`, `GetEvent`, `GetSentinel`, `CancelAtGet`, `ShieldReturns`, `CancelAtShield`, `CloseDropped`, `ReapReturns` |
| the server (external) | `SendReturns`, `CancelNew`, `CancelAtSend`; `ProviderCloses` is the event loop closing an abandoned generator |

`StreamContract` is what the endpoint owes: events are handed over one by one, at
most one row, none after the end, and no clean end without a row. `Contract ==
INSTANCE StreamContract WITH ...` maps `gen` to the state of the body, `Len(relayed)`
to the events handed over and the statuses of `rows` to the records.

### RulesCache

`rules_service.py` on several workers that share one database. The rules of the
database are a version number; `cache[w]` holds the version in worker `w`'s
`_rules_cache` or `Empty`, `loadedAt[w]` is `_cache_loaded_at`, `lock[w]` the
holder of `_cache_lock`. A request goes through `Arrive` (`get_active_rules`),
`Acquire` (lock and second staleness test), `QueryReads` and `Install` (the two ends
of the SELECT; clear, extend, stamp and release happen without a suspension), then
decides at once or waits for `populate_quota_metadata` (`QuotaReturns`) and decides by
whatever the shared list holds by then. A write is `Commit` and then `Invalidate` or
`WriteFails` (the commit stands, its answer or the reload is lost). `Tick` is the
clock. `decision[w]` records the last decision of each worker with the version used,
the one loaded, how long it had been out of date and what the worker had been promised:
it is what the properties are about, the code has no such variable.

### RoleSync

One SSO user: `token`, `fresh` and `groups` are the columns and memberships of the user
row, `rowLock` the `FOR UPDATE` lock, `copy[r]` the refresh token in request `r`'s
session, `live` the tokens the identity provider still accepts. `Arrive` (`_authenticate`
finds a sync due), `Lock`, `ProviderAnswers`/`ProviderRefuses`, `SyncCommits`/`SyncAborts`
are the stations of `maybe_refresh_sso_roles`; `LoginExchanges`, `LoginCommits`,
`LoginAborts` those of the OIDC callback. `habit` is chosen once: whether the provider
rotates refresh tokens, and what may fail ("provider": refusals and time-outs, "server":
our own transaction, "idtoken": the verification of the ID token, after which the user
gets the default groups only).

### StreamGrammar and its parts

One streamed answer, from the model to the event stream. The specification is the
conjunction of small state machines over shared variables:

- `ModelStream` (external): `script` is what the provider has answered so far, block by
  block; pieces of content are numbered. Some complete the arguments of the call they are in
  (`Closing`, `Whole`), some are the signature of the thinking block they are in
  (`Signatures`). Six kinds of provider: Converse streams that stop
  every block, or only tool calls, or omit the block numbers; OpenAI-compatible servers that
  give the id of a tool call with its first piece, with each, or interleave several calls.
- `SSEEncoder`: `encode_anthropic_sse`. `wire` is what the client has seen of each index,
  `sseOpen` the encoder's `open_blocks`. Generators and encoder run inside one another's
  steps, so `BlockStart`, `Delta`, `BlockStop`, `Error`, `LastChunk` are conjuncts of the
  generators' actions; `Finish` is what the encoder does after the last chunk.
- `BedrockChunks`: `stream_converse_chunks`, from one yield to the next: `ContentBlockStart`,
  `OpensLazily`, `ContentBlockDelta`, `ContentBlockStop`, `StreamFails`, `Finally`,
  `ClosesBlocks`; `assembled` and `open_blocks` are the variables of the code. A signature
  replaces the one before (`Takes`). `Rebuilt` is `_assembled_to_parts`: the arguments of a
  call are what `json.loads` makes of them, and `{}` if they were cut off (`Parsed`).
- `LangChainChunks`: `stream_chunks`: `ClosesOpenBlock`, `OpensText`, `ForwardsText`,
  `OpensCall`, `ForwardsArguments`, `EndOfChunks`; `next_index` is `block_index` there.
  `StoredCall` is what `get_response` makes of the arguments accumulated.
- `StreamGrammar` composes them with a consumer that may drop the stream at any yield and
  with exceptions of the client library (`Raises`).
- `BlockStream` is the abstract specification, the grammar in the docstring of
  `core/adapters/anthropic_stream.py`.

### RulesEngine, Admission

`RulesEngine` is `core/rules.py` as operators: `Compare`, `Actual` (the matchers), `Holds`,
`GroupHolds`, `Winner` (`evaluate`), `QuotaLeaves` (`iter_conditions`), `RetryAfter`. A rule
is a record, a text an atom, and the value of a `regex`, `contains` or `in` condition the set
of texts it accepts.

`Admission` is `create_message` and `_handle_invoke` for several requests of one user. `log`
is `audit_logs`; `pc[r]` is where request `r` is suspended: `begun` (authenticated),
`asking` (quota queries left in `todo[r]`), `figured`, `running` (the provider has the
request), `logged` (the row is committed), `done`. `quota[r]` is `ctx.metadata["quota"]`,
`clock[r]` the `now` of `populate_quota_metadata`, `begun[r]` the start of the transaction:
`created_at` defaults to PostgreSQL's `now()`, so the row of a request carries the time the
request was authenticated at, however late it is written.

| Code | Actions |
|---|---|
| `get_db`, `_authenticate` | `Arrive` |
| `populate_quota_metadata`, `get_window_aggregate`, `_next_free` | `CollectSpecs`, `Query` (one per spec, in the order of the dictionary) |
| `evaluate_rules`, `get_model_for_user` | `Blocked`, `Admitted` |
| `_handle_invoke`, `_finalize`, `_log_error` | `Complete`, `Respond`, `RespondFails`, `Fail` |
| `_handle_streaming` | `StreamEnds` (one step here; `StreamRelay` has the steps) |
| the clock, the process (external) | `Tick`, `Die` |

### Sessions, CliSession

`Sessions` is the life of credentials. A *pair* is the access JWT and the refresh token
minted together (`create_management_tokens`), an API token a row of `tokens` and the JWT
with its id. `cred[c]` says whose it is, which permissions its JWT carries, whether its
row is there (`row`), revoked (`spent`), past `expires_at` (`aged`), and whether the JWT is
past `exp` (`lapsed`); `login` holds the rows of `oidc_states`, `users` status and
permissions. `req[r].pc` is the query request `r` is suspended at; between two queries of
one request anything may happen to the rows, as in PostgreSQL's READ COMMITTED. Locks are
those the code takes by writing: a refresh holds the row of its token from the flush of
the revocation to the commit (`PairLocked`), a callback the row of its state (`StateLocked`).

| Code | Actions |
|---|---|
| `authenticate_local`, `create_management_tokens` | `Login`, `Resolve`, `CommitPair` |
| `refresh_management_token` | `Refresh`, `RefreshLoad`, `RefreshDrop`, `Resolve`, `CommitPair` |
| `sso_authorize`, `sso_callback`, `pop_state`, `provision_sso_user` | `Authorize`, `Callback`, `CallbackPop`, `CallbackRefused`, `Provision`, `CallbackCheck` |
| `_authenticate`, `require_permission` | `Call`, `CallUser`, `CallPerms` |
| `logout`; `create_token`; `revoke_token` and `revoke_my_token` | `Logout`, `LogoutCommit`; `Mint`, `MintCommit`; `Revoke`, `RevokeCommit` |
| a query that fails; administrators; time | `Fails`; `SetPermissions`, `SetActive`, `DeleteUser`; `Lapse`, `Age`, `ExpireState` |

`since` is not in the code: it remembers, per request, which credentials were good when it
began and what users have held since, and is read by the properties only.

`CliSession` puts the command line client on top: `cli` is the session file, the header of
the HTTP client and the command under way. `CliCommand`, `CliSend`, `CliRefresh`,
`CliRefreshed` and `CliEnds` are `get_client`, `TTLLMClient.request` before and after its
automatic refresh, and `logout`.

### AccessControl

The mutating endpoints of `api/admin.py`. `links` are the rows that link users, groups,
permissions and models, `status` the rows themselves, `audit` the requests with an entry in
`admin_audit_logs`. A request is `Begin` (authenticated and permitted), `Guard` (the members
of the administrators are counted), `Read` (404), one of `WriteCreate`, `WriteUpdate`,
`WriteDelete`, `WriteAssign`, `WriteUnassign` or a series of `Item` (each commits), `Refresh`
(what was written is read back, or has gone) and `Log`. `QueryFails` is any query or commit that
raises, a commit whose answer is lost included: 500, "already assigned" for the link of a bulk
request, and 409 of `assign_group_permission`, whose `except` takes every failure, also one after
its commit, for a permission that was there.
`RowEndpoints` and `LinkEndpoints` are composed into the endpoints of users, groups, models,
secrets and rules. `Rights`, `ListUserModels` and `ModelForUser` are
`resolve_user_permissions`, `list_user_models` and `get_model_for_user`.

The deletion of a user or a model is several steps, as the flush of SQLAlchemy is several
statements: the relationships of `User` and `LLMModel` have no `passive_deletes`, so their
children are queried first, one relationship after another and without a lock
(`LoadChildren`). If there are any (`Orphans`), it would set their foreign keys to NULL, which
the columns refuse. Otherwise the row is deleted (`WriteDelete`), and the database cascades to
the links there are by then, also to those committed since. `saw` remembers who was an
administrator when the memberships were queried; the code has no such variable.

### ProviderCache

`cache[w][p]` is the `OrderedDict` of worker `w` and provider `p`, oldest first. A request
reads its model (`FindModel`), resolves the secrets (`ResolveSecrets`) and gets a client, cached
or new (`GetClient`: no suspension between the lookup and the insertion; `Refused` is
`_validate_base_url`, for a LangChain model that has a `base_url`: without one, `address` is
`None`, the library calls its default and nothing is checked). An administrator
commits a change of a secret (`ChangeSecret`) and then clears the LangChain cache of the
worker that served it (`ClearCache`); `ChangeModel` clears nothing. `served` (the keys asked of
each cache since it was last cleared, in order) and `clean` are what the properties remember.

### AnthropicAdapter, BedrockTranslation, LangChainTranslation, Conversation

The three translation modules are operators: `ToInternal`, `ToResponse` (the adapter),
`ToBedrock`, `FromBedrock`, `ToLangChain`, `FromLangChain`, each built from one operator per
function of the code, and the refusals (`RefusedByAdapter`, ...). A block is a record; the
information in it is the sequence `body`, so that joining texts concatenates and losing
something shows. `Conversation` runs them: `Adapt`, `Send`, `Answer` (the model), `Parse`,
`Respond`, `Continue` (the client appends the answer and the results of the tools the
model called, and asks again). Reasoning that Bedrock has redacted is a block of its own
(`redactedContent`): the code makes of it thinking that holds Python's `str` of the block
(`Printed`) and an empty signature. It is the second request that shows whether an answer
survives. What the client and the model may send is constant: contents, follow-ups, settings
and answers, of any number and length. The assumptions about them are what the schemas
(`schemas/anthropic.py`) and the code's own comments allow: chunks are inside of documents and
search results only, thinking is in no turn of the user (`_convert_parts_to_langchain`), tool
results answer calls, inline system messages are texts (`_message_system_text`), and the parts of
a provider's answer have no parts of their own (`ClientAssumption`, `SettingsAssumption`,
`AnswersAssumption`).

Choices that the code makes while it walks over blocks are `Kept(s, I)`, the elements of a
sequence at some places; `FlattenSeq` and recursive functions do the rest, so that the modules
can be proved about.

## Runs

| Run | Question | Result |
|---|---|---|
| `relay_any` | what the relay guarantees whatever the client, the provider and the database do | 3 800 states, all properties hold |
| `rules_any` | how old, how ordered, how alive | 33 658 states, all properties hold |
| `rules_quota_wait` | is a request evaluated on the rules its quota was computed for? | no: the list is shared |
| `rolesync_any` | lock, order, token, progress under three kinds of deployment | 51 834 states, all properties hold |
| `grammar_any` | is every answer delivered in a well-formed stream, and stored as delivered? | 65 706 states, all properties hold |
| `admission_any` | how far is a cap exceeded, who is billed, when does Retry-After let one in? | 1 073 000 states, all properties hold |
| `admission_two_caps` | do a daily and an hourly cap of one measure hold independently, as the docs say? | no: the figures of one replace those of the other |
| `sessions_any` | what does a revoked, spent or expired credential, or a deactivated user, still get? | 284 449 states, all properties hold |
| `sessions_logout` | does `ttllm logout` revoke the refresh token, as the user guide says? | no: the automatic refresh has replaced it |
| `access_any` | is the admin log true and complete, does an administrator survive, does the listing match? | 200 287 states up to the symmetry of requests, all properties hold |
| `cache_any` | which client is handed out, which is evicted, what does a clear clear? | 3 471 016 states, all properties hold |
| `translation_any` | does a conversation survive the translation, there, back and there again? | 372 940 states, all properties hold |

Every passing run checks properties about hazards; the type invariants and `OneAtATime`
(blocks follow one another, as the encoder documents) are proved for all constants instead,
see below.

The properties, by what they guard against:

- `RelayInOrder`, `OkMeansComplete`, `ErrorFrameSeen`: the client's view. Nothing the
  disconnect race of `queue_event` drops is ever followed by something delivered, and
  a 200 row means nothing was dropped.
- `BillableHasUsage`, `ContractSpec`, `LeaverLogged`: the audit log's view. Rows that
  count for quotas carry usage; at most one row, in time; a client that leaves and is
  cancelled once is logged.
- `EndsOrWedges`: a started response is over in the end, except in one situation which
  the property names (`Wedged`): the generator was dropped at its yield while the queue
  was full, and the cancelled producer waits to put a sentinel nobody will read.
- `BoundedStaleness`: the rules that decide a request were the database's content less
  than `TTL + 2 * MaxWait` ago; the README promises TTL, which holds for the loading but
  not for the decision, because the query that read them and the quota figures take time.
- `NeverBackwards`, `EveryRequestEnds`: what the lock is for.
- `SyncIsNewest`, `SteadyTokenKept`, `RolesLand`: what the row lock is for.
- `ContractSpec` of `StreamGrammar`: each index is opened once, gets its deltas while open
  and is closed once, and `message_stop` finds everything closed. A server that goes back to
  a tool call after another has begun is the exception: the generator has closed the block
  by then (`lenient`).
- `AnswerArrives`: every piece reaches the client once, in order, under the index of its block.
  `StoredIsStreamed`: the state the audit row is made from says the same. Wherever the stream
  broke off, of Converse every block is stored as far as it was streamed, thinking with its last
  signature; of LangChain the text of all blocks and each call under its id. A call's arguments
  are stored if all of them came and as `{}` if they were cut off, never as arguments that look
  complete; a server that gives ids with first pieces only may lose complete ones (see the
  known limits).

- `OvershootBounded`: requests are checked before and recorded after, and rows appear with
  stamps in the past. A rule that caps the requests of a window at n and comes before the
  others lets at most `n - 1 + Limit` rows into any stretch of time as long as the window less
  the delay between a stamp and the clock reading. The code sets no `Limit` of its own: it is
  what the connections to the database and the server let through (`pool_size` plus overflow
  for requests that are not streamed; a stream may go on after its connection was given back).
- `BilledOnce`: one billable row per request, also when the response fails after the commit
  and the `except` branch writes a second row for the same request id.
- `RetryFits`: a request made one second after Retry-After no longer counts the oldest usage
  that the windows of the rule were blocked with, and one made before it still does. The one
  second is the truncation in `_next_free`. A client that comes back exactly on time may be
  blocked by the row it waited for.

- `RevokedRefused`: what was revoked, spent, consumed or expired before a request began gets
  that request nothing, whatever runs beside it. Two refreshes of one token, or two callbacks
  with one state, both succeed only if they overlap.
- `DeactivatedGetsNothing`, `ServedWithinHeld`, `IssuedWithinHeld`: a request is served, and
  issues, only what its token grants and its user has held at some time during the request;
  nothing to a user who was inactive throughout.
- `StateGoesWithLogin`: a callback that fails leaves the state for another attempt.
  `EveryRequestAnswered`: nobody waits for a row lock for ever.
- `LogoutEndsSession` (refuted): after a logout answered 204 no refresh token the client was
  given can be redeemed.
- `AuditComplete`, `AuditTrue`: whoever is told of success finds the entry; a change without
  one was answered 500, not at all, or with the 409 of `assign_group_permission`, which may
  stand for a permission that this very request has assigned (see the known limits); an entry of
  an assignment lists links that were all made.
- `AdministratorsSurviveDelete`: however many deletions run at once, and whatever is assigned
  meanwhile, one takes the last active administrator only if that user became a member after the
  deletion queried the memberships. The count of members does not do it, it is separate from the
  deletion; the query does, because a user with a membership cannot be deleted at all. What it
  leaves open is a known limit.
- `ListingMatchesAccess`: a name resolves to a model of the user's listing, and a listed model
  resolves by its own name whatever patterns others have.
- `ClientFits`, `AddressAllowed`: a cached client is of the model and the parameters (LangChain)
  or of the account and address (Bedrock) of the request, and if its model has a `base_url` calls an allowed address,
  though the allowlist is looked at only when it is made. `LeastRecentlyUsedGoes`: whatever is cached was
  asked for later than whatever is not, the entries are in that order, a key is not in it twice, and only a full
  cache has evicted anything. `QuietClearIsClean`: after a clear that no request
  overlapped, the worker has no LangChain client with an earlier secret.
- `NothingLost`, `ResultsFollowCalls`: every fact of an accepted request reaches the provider,
  in order where the format has one, and a tool's result follows its call. `NamesUnique`,
  `BreakpointsKept`: what Converse and prompt caching need of names and markers. `PrefixStable`:
  the next request of a conversation sends the whole prompt of the one before, system part and
  messages, names and breakpoints, in front of what is new, so that all of it can be served from
  the provider's cache. A message of the system in the new turn (`AsideCame`) is the exception:
  it goes to the end of the system part, in front of messages sent before, and then only the
  system part keeps a cached prefix; the messages are the same ones, behind a prompt that differs.
  `VerdictsBelong`, `AnswerComesBack`: verdicts are attached to the calls they are about, and
  what the model said is what it is shown in the next turn, but for redacted reasoning, which
  the property says comes back printed and without a signature.

Rows with status 499 count for quotas (`_BILLABLE_STATUS_CODES`); `docs/rules-engine.md:182`
says that only status 200 does. The model follows the code.

Bounds. The relay: a queue of two is full, half full and empty; four events are one more
than fit in the queue and the two tasks that hold one; three cancellations are one more
than the code has suspension points to react at. The rules cache: `MaxVersion = 1` lets
either writer make the one change, on the requests' worker or behind its back, `MaxTime = 4`
lets a list expire (`TTL = 2`), be reloaded and be used late (`MaxWait = 1`); the same
properties were also checked without the liveness property for two versions (739 981
states), and their proofs hold for any number. The role sync: four tokens and two role
changes let two requests and a login each obtain a token, with one change before and one
after. The grammar: three blocks let one be closed by a block of another kind and be returned
to by an interleaving server; three pieces let one block get two and another one, or an empty
event come before any of them. Of the pieces, the second completes a call's arguments
(`Closing`), so calls are cut off, complete, or never completed; the second and the third are
signatures in thinking (`Signatures`), so one may replace another.
The admission: three requests, two at a time, let one be decided on the row of an earlier one
while a third is under way; `Second = 2` ticks makes half seconds, so that truncation shows;
`MaxTime = 4` is the longest window (two seconds); `Usage` is one value above the threshold.
The rule sets are a cap over a nested reroute, a cap per model (one context asks for it under
an alias), and two measures with different windows behind a reroute to a missing model.
The sessions: two requests overlap in every pair of kinds, a local user with a session and an
SSO user with a token, or an SSO user about to log in with or without an account; one change
of permissions, activity, existence or expiry falls between any two of their steps
(`MaxChanges`), and three pairs let both requests refresh. The logout: one user, three
requests (the logout, its refresh, the logout again). The administration: two requests of two
administrators and a third user, each bulk body with two links so that the second can fail; the two requests
are symmetric, and only safety is checked. The
caches: two models with two parameters ask for more clients than the two there is room for;
two changes and four requests; a LangChain model's address is allowed,
not allowed or not set. The translation: every kind of block alone and followed by a
document, a text and a search result, two turns, two answers' worth of tool calls, one answer
with signed and with redacted reasoning.
Deadlock is not checked where the modelled thing ends (requests are used
once) or where bounds use it up (tokens and roles).

Fairness. `StreamRelay`: weak fairness of the producer, of the generator, of an orphaned
put and of the closing of an abandoned generator: the event loop runs every task that can
run, provider reads and sends time out. The server is never obliged to cancel.
`RulesCache`: the database answers or fails (weak), and `asyncio.Lock` wakes its waiters in
order, so a waiting request gets the lock even if others keep coming (strong fairness of
`Acquire`). `RoleSync`: the database grants row locks in order (strong fairness of `Lock`
and of a login's `UPDATE`), the provider answers or its 10 s time-out strikes (weak), and
time passes. `RolesLand` also assumes that the user keeps sending requests. `Sessions`: a
request that has begun goes on (weak fairness of `RequestStep`): queries return or raise, row
locks end with the transaction that holds them, and the calls of the provider have time-outs.
Nothing obliges a client, an administrator or time.

## Proofs

Each `...Proofs` module extends the modules it is about; every theorem holds for all values of
the constants that satisfy the named assumptions.

- `StreamRelayProofs`. `TypeCorrect`; `RelayedInOrder`, by an invariant that the events relayed,
  then those in the queue, then the one the producer holds are consecutive as long as the client
  is there, and that after a disconnect nothing more is relayed; `OkIsComplete`, by an invariant
  that relates the point the producer has reached to the number of events queued so far;
  `CleanEndShowsError`, because the sentinel is the last item of the queue and queued when every
  event is (`EndInv`); `BilledRowsHaveUsage`, because a provider that has not filled in the
  counts has reported an error; `RelayImplementsContract`: initial states map to initial states
  and each action to a step of the contract or a stutter, using that at most one row exists and
  only past the point where it is written.
- `CacheProofs`, the two kinds of cache. Of `RulesCache`: `TypeCorrect`; `StalenessIsBounded` by
  `AgeInv`: at every station of a request (query under way, answered, cached, waiting for quota
  figures) the rules concerned were current at a time no further back than the waits so far
  allow; `RulesNeverGoBackwards` by `OrderInv`: what is cached, read or decided on a worker is
  ordered, because the reading request holds the lock from before the query to the install. Of
  `ProviderCache`, for any capacity, number of workers, models and requests:
  `ClientTypeCorrect`; `RequestsGetTheirClient` and `OnlyAllowedAddresses`, by an invariant that
  says of a cached client what its key says (`EntriesFit`) and of a request that its client is
  one of its key (`RequestsFit`); `QuietClearLeavesNoOldSecret`, by `FreshInv`: not only the
  cached clients but the requests about to create one have read the secret after the clear;
  `LeastRecentlyUsedIsEvicted`: a hit moves the entry behind all others and its key behind all
  requests, an insertion drops the head, which every other entry was asked for after.
- `StreamGrammarProofs`. `TypeCorrect`; `BlocksFollowOneAnother`; `GrammarImplementsContract`.
  One invariant serves all: `WireInv` (the encoder's books agree with the wire; nothing is open
  after the last chunk), `BedrockInv` (the event being handled is about the last block, whether
  it carries its index or not) and `LangChainInv` (the open block is the last one opened; a
  chunk is about a block already opened or about the next one). Each wire event is then a step
  of the grammar and every other step a stutter. `WholeAnswerArrives`, by `AnswerInv`: of each
  block, what was sent and what is pending of the event being handled make up what was received,
  and only the last block may not have been opened yet; the invariant above says that the
  pending piece will go to the right index. `AuditLogIsWhatWasStreamed`, by `StoredInv`: what is
  assembled of each block is what is on the wire, thinking split into its text and its last
  signature; parsing then gives complete arguments or none. The audit row joins the blocks of text, so the
  proof rests on an induction over the number of blocks (a stream that goes on changes the last
  block only).
- `AdmissionProofs`. `TypeCorrect`; `NobodyBilledTwice`, because a request has no row before it
  leaves `running` and no billable one is written after; `QuotaOvershoot`. For the last one the
  invariant counts, per cap, model and start of a window, the rows charged together with the
  requests that have read their figure, found room and may still stamp a row into the window:
  the sum never exceeds the bound (`Room`). It grows only when a request reads its figure
  (`RoomOnRead`): then every row charged so far is in the figure, which is below the cap, and
  the requests are no more than `Limit`. A row that appears was pending before (`RoomOnRow`),
  and a running request had found room, or the cap would have blocked it (`CapBlocks`). Neither
  the number of requests nor the rules, the windows or the clock are bounded in the proof.
  `RetryAfterFits`, by `WaitInv`: the figure a rule was blocked on names the time its oldest
  usage leaves the window, as of the moment it was read, and Retry-After is the longest of those
  waits, rounded as `_next_free` does.
- `SessionsProofs`, users and what they hold. Of `Sessions`: `TypeCorrect`, `RevocationHolds`,
  `ServesWithinHeld`, `IssuesWithinHeld`, `DeactivationHolds`, `FailedLoginKeepsState`. The
  invariant says of every request what its `pc` implies: whose credential it uses and that it
  was good when it began (`WasGood`; for a state, or a token whose row has gone, only once the
  next query has looked, `Doubt`), that what it has seen is within what users have held since
  (`Seen`), that its user was active (`Checked`) and entitled (`Entitled`), and what it is about
  to issue (`Carried`). Two global parts: a row goes only with its user (`Rowless`), and one
  uncommitted revocation per refresh token (`Locks`). `GoodStays` shows once that no other
  request or administrator spoils it. Of `RoleSync`: `SyncTypeCorrect` includes that the row is
  locked by exactly the request between lock and commit; `SyncNeverUndoes`: what is in flight
  was granted before, and nobody else commits while a request holds an answer;
  `SteadyProviderKeepsToken`: every token stored, copied or answered is live if the provider
  does not rotate and does not fail.
- `AccessControlProofs`. `TypeCorrect` (no link outlives its ends), `LogComplete`, `LogTrue`,
  `DeletionsLeaveAdministrators`, `ResolutionFollowsListing`; the invariant relates, per
  request, its `pc` to what it has changed and to its entry. For a deletion, `RecordOK`
  says that whoever is to be deleted was no administrator when the memberships were queried
  (otherwise `LoadChildren` ends the request), whatever the others do; so an administrator it
  deletes has become one since, for any number of deletions at once.
- `ConversationProofs`, names and identities, for any client, any model and conversations of any
  length. `ConvInv` says which shape a request has (blocks, turns that alternate, settings) and
  that each later variable was computed from the one before. `VerdictsStayWithCalls` follows
  from it: verdicts are attached by position, if there is one for each call.
  `DocumentsHaveNamesOfTheirOwn` is an induction over the documents in the order the code takes
  them: `Take` returns a name that is not taken, and names once taken stay so.
  `ResultsFollowTheirCalls`, by `ResultsInv`: every turn of the user that holds results comes
  after the turn that made the calls; then the splitting of a turn into messages is followed.
- `ContentProofs`, content. `CachedPrefixStays`, by `StableInv`: what was sent last is the
  translation of a request that the present one goes on from, and the translation of a longer
  request begins with that of the shorter one, because what a block becomes depends on the
  blocks before it only (`PartsGrow`). If no message of the system came in, the system part is
  the same and the whole prompt grows at its end (`SamePrompt`). `BreakpointsStayBehindMarks`: for each block, and then by induction for
  the blocks up to each place, as many breakpoints as marked blocks, behind the same text
  (`Carries`). `RequestsArriveWhole`: sequences of facts for Converse (one lemma per kind of
  block), sets of facts for LangChain, which reorders and joins. `AnswersComeBack`, by
  `SaidInv`: the turns of the assistant in the request are the answers the model gave,
  translated there; the lemmas follow every kind of part back to the form it came in, redacted
  reasoning to its printed form.

Both rest on lemmas about sequences as functions on `1..n`, `FlattenSeq` (its length, its
elements, its prefixes) and `Kept`, which are proved by induction where the library offers none.
The induction theorem of the library takes an operator as a parameter; instead the set of the
numbers for which a statement holds is shown to contain 0 and to be closed under successor.

Type invariants are proved as part of each inductive invariant and so hold for every value of
the constants; no run spends a property on them.

Every safety property of the passing runs is proved, the two refinements of contracts included.
Model-checked only: the liveness properties (`EndsOrWedges`, `LeaverLogged`, `EveryRequestEnds`,
`RolesLand`, `EveryRequestAnswered`), which need fairness and ENABLED.

## Abstractions

- Event contents, rule contents and role contents are numbers; formatting and logging are
  left out.
- `StreamRelay` models the event loop's choice of the next task as free, except where the
  code relies on its order (a getter is resumed before a second event reaches the queue).
- In `RulesCache` the workers' clocks advance together; only differences of one worker's
  clock are compared in the code.
- `RoleSync` assumes that the encryption key does not change (a token that cannot be
  decrypted is cleared, like a refused one) and that every login brings a refresh token.
  A request that reads the row between two transactions sees one committed state.
- In `StreamGrammar` usage figures, stop reasons and safeguard results are left out; the
  signature of a thinking block is one of the pieces of it that are streamed; the id of a tool call is its
  number in the answer; a message chunk with both text and calls is handled as one of each;
  a block Converse stops has had a start or a delta.
- In `Admission` the rules do not change (their cache is `RulesCache`) and the user's models
  do not either; groups are nested two deep; cost is counted like tokens; the clocks of
  database and workers agree; one query sees what is committed at that time.

- In `Sessions` permissions through groups and direct ones are one set; administrators change a
  user in one step (their requests are `AccessControl`); a row is deleted only with its user;
  password hashes, JWT encoding and the ID token are what their checks return.
- In `AccessControl` attributes other than `is_active` are left out; a name that is taken is a
  failure that may happen; ids are not used twice; the answer is sent in the step that logs.
- In `ProviderCache` one `address` and one `account` stand for the fields of the keys; how a
  secret is encrypted, and references to environment variables, are left out.
- In `Conversation` separators, labels and titles in joined texts, inference parameters and
  usage figures are left out; the pieces of an answer come in the shapes the providers send.

## Known limits of the code

Statements of the documentation, of comments or of the design that the code does not keep. The
first three are runs of their own (`rules_quota_wait`, `admission_two_caps`, `sessions_logout`).
The others are definitions of the modules; putting one in the place of the properties of the run
named (an invariant, `DisconnectLogged` a temporal property) gives the counterexample.

| Definition | Run to put it in | What happens |
|---|---|---|
| `StreamRelay.DisconnectLogged` | `relay_any` | every disconnected stream is logged (`tests/test_messages_stream_disconnect.py:47`): not when a second cancellation reaches the shielded wait or a first one the yield, the producer is then cancelled before it writes the row |
| `StreamRelay.RowsHaveUsage` | `relay_any` | all provider activity has finished when the row is written (`core/providers/base.py`): not after an ERROR chunk, the encoder returns while the provider is before its `finally` |
| `RulesCache.ReadYourWrites` | `rules_any` | the worker that serves a write uses it at once (`README.md:185`): a refresh in flight installs the rules of before |
| `RoleSync.RotatedTokenKept` | `rolesync_any`, with `Habits <- Rotation` | the double-check under the row lock protects a rotated token: it reads the object loaded before the lock, spends the old token and clears the new one |
| `StreamGrammar.ResponseRebuilt` | `grammar_any` | the response can be rebuilt from the state of a finished stream: arguments that come without the id of their call are not accumulated |
| `AccessControl.NothingStandsAgainst` | `access_any` | users and models are deleted "unconditionally", the rows that refer to them "cascade at the DB level" (`services/user_service.py:103`, `services/model_service.py:105`): the ORM sets the foreign keys of members and assignments to NULL first and the database refuses. With the cascade the comment describes, `AdministratorsSurviveDelete` would fail: it is the mutant `PassiveDeletes` |
| `AccessControl.RefusalChangesNothing` | `access_any` | a 409 says "Permission already assigned" (`api/admin.py:600`): not if the refresh or the answer to the commit fails (`services/group_service.py:113`), then this request has assigned it, and there is no entry in the log |
| `AccessControl.LastAdminStays` | `access_any` | "Cannot delete the last administrator" (`api/admin.py:238`): a user made a member between the query for the memberships and the DELETE is deleted with that membership, though the other administrators have gone by then |

Read off the code while it was modelled, and followed by the models:

- A LangChain request loses an image in a turn of the assistant and one among the chunks of a
  document (`NothingLost` names both, `Unplaced`); `docs/content-mapping.md:178` allows no silent
  drop of either. The error flag of a tool result is not passed on, and `tool_choice: none`
  binds the tools all the same.
- With LangChain, `finish_reason: stop` has the last word over tool calls in the message, and
  tool calls over `length`.
- Cache markers on the chunks of a document are not promoted to it, unlike those inside tool and
  search results.
- Reasoning that Bedrock has redacted comes back as reasoning text that is the `str` of a Python
  dictionary, without a signature (`AnswerComesBack` says so).
- A LangChain model without a `base_url` calls the library's default address, or that of the
  environment, whatever the allowlist says.
- A message of the system inside a conversation goes to the end of the system prompt: what was
  cached through the messages is of no use to the requests that follow (`PrefixStable` says so).
- A tool call cut off in its arguments is stored in the audit log with the input `{}`
  (`StoredIsStreamed` says so).
- Two refreshes of one token, or a refresh and a logout, that overlap both succeed: the check and
  the revocation are two statements without a lock.
- A streamed request that ends with an error is logged without usage, also when the provider has
  reported some.
- A changed secret is cleared from the LangChain cache of the worker that served the change
  only: other workers, and the Bedrock caches of all, keep clients with the old one until they
  are evicted.
- Renaming the group `administrators` ends the guard against deleting its last member;
  deactivating that member, or removing it from the group, is not guarded.

## Not modelled

- Configuration (`config.py`), schemas and tables as such (their constraints are guards of the
  modules that use them), the application shell, the user interface and the migrations: no
  state of their own that changes, or I/O without an algorithm.
- The commands of the client that print what one call returns.
- Listings, reports and usage summaries (`api/admin.py`, `services/usage_service.py`): they only
  read, one query each.
- `cleanup_expired` of `services/oidc_state_service.py`: nothing calls it, rows of abandoned logins
  stay.
- Cryptography: password hashes, JWT signatures, encryption of secrets.

## Plan

What is left, in order:

1. `Gateway`: the composition of rules cache, admission and relay for one user, with
   `StreamContract` in the place of the relay. It has to replace a run of a component.
2. What of the liveness properties is safety: that no reachable state is one in which a request
   waits for a lock nobody holds, as an invariant with a proof.
