# The Token SDK for Objective-C in TLA+

Specifications of the SDK under `src/` (hand-written Objective-C and a little C
on top of a generated gRPC gateway), model-checked with TLC, and theorems about
them checked with TLAPS. Paths below are relative to `src/src/` unless they say
otherwise. The implementation is in the `.m` files and in `security/Base58.c`; most
of the lines of the headers are generated code and declarations, which no
definition translates.

## 1. The system

The SDK runs inside an application. The application asks a `TKMember` (or a
`TokenClient`) for an operation and passes an `onSuccess` and an `onError`
block; `TKMember` hands the work to a `TKClient`, which signs what has to be
signed with a crypto engine, makes one or more gRPC calls, and calls a block
back. There is no thread of the SDK's own: code runs on the thread that invoked
the operation until its first call is dispatched, and on the main queue from then
on. Concurrency comes from operations in flight together, from per-call timeout
blocks, from the device owner's answer to a prompt, from a server shared with the
member's other devices, and from synchronous calls that turn the run loop.

| component | source | state | operations | what makes it correct |
|---|---|---|---|---|
| asynchronous operations | `rpc/TKClient.m`, `rpc/TKUnauthenticatedClient.m`, `rpc/TKRpc.m`, `rpc/TKRpcErrorHandler.m`, the step-up wrappers of `api/TKMember.m` | each operation's remaining steps, its gRPC calls and their timers; a client's access token and security metadata | every method of the two clients; `forAccessToken:`, `setSecurityMetadata:` | each operation is answered, once, the global error callback first; only a call's own timeout cancels it; step up happens at most once; each client sends its own token |
| synchronous calls | `rpc/TKRpcSyncCall.m`, `api/TransferTokenBuilder.m` `execute` | a semaphore, a result, an error, the main thread's stack, the bank's page it opened | `run:`, `execute` | every call comes back with its own answer, unless a user stays on the bank's page |
| member keys and aliases | `api/TKMember.m`, `rpc/TKClient.m` `updateMember:` | the member and alias caches of each `TKMember`; at the server the member's keys, aliases and `lastHash` | approve and remove keys, remove non-stored keys, add and remove aliases, get keys and aliases | updates take effect in the order asked; success is reported only for what was applied; a device does not lock itself out; the cached aliases have all the member's, and beyond them only aliases removed in another form |
| token crypto engine and key store | `security/token/*`, `security/TKInMemory*`, `security/TKCrypto.m` | keys by level, with expiration, until the process ends | generate, sign with a prompt, verify, look up | a signature is by an unexpired key of the level; owners are asked for every level but Low; old keys verify |
| secure enclave engine | `security/secureenclave/*` | one private key per member and level in the keychain, and every public key | the same | a key that was replaced signs no more, even if the replacement failed half-way; old keys verify |
| member creation, provisioning, recovery | `api/TokenClient.m`, `rpc/TKUnauthenticatedClient.m` | the keys generated so far, the authorization of a recovery | create, provision, recover | a device that was told of a success can use its keys; a refused recovery costs it no more than it has to |
| account linking, authorized transfers, OAuth, browser | `authorization/*`, `api/TKMember.m`, `api/TransferTokenBuilder.m` | an engine with `completionUrlIsFound`, its browser and the callbacks it holds | `initiateAccountLinking:`, `executeAsync:`, the browser's navigation, completion, failure and Back | one answer per operation; the access token is used once; the browser is closed |
| token builders | `api/*Builder.m`, the uses of them in `api/TKMember.m` | the fields of a payload under construction, a reference id | construction from values, a request or a payload; setters, `buildPayload`, `prepareToken`, `createToken`, `execute`, `executeAsync:` | a retry makes no second token, and no token is taken for another; the payload has the terms and resources that were asked for |
| encodings and hashes | `security/Base58.c`, `security/TKHasher.m`, `util/TKUtil.m`, `util/TKJson.m` | none | encode, decode, hash, normalize | decoding inverts encoding, within its buffers; equal values hash alike |
| values, configuration, UI, errors, generated code | the rest | immutable, or UI | | |

How they interact: applications call `TKMember`, which calls `TKClient`;
`TKClient` calls the crypto engine (which may block the calling thread on the
owner) and `TKRpc`; `TKRpc` hands the call to gRPC and a timeout block to the main
queue; gRPC runs the completion handler on the main queue; the handler goes on
with the operation, asks again (step up), or calls the application back, the
latter through `TKRpcErrorHandler` for gRPC errors. `forAccessToken:` copies the
`TKClient`, and the copies share one `TKRpc`, one crypto engine and one
`TKUnauthenticatedClient`.

The behaviours that are hard to test are listed, each at its line, under
"hazards" in `PROJECT.json`: timers that outlive their call, prompts that are
refused half-way through an operation, browsers that report after their operation
has been answered, an update the server sees after its caller
was told of a timeout, two devices changing one member, caches changed with other
values than the server's, run loops inside run loops, keys that were generated for a
member that never took them, and tokens made again while the first request is on its
way.

## 2. The plan

| | module | subject | status |
|---|---|---|---|
| 1 | `RpcApis`, `RpcCall`, `CallbackOnce` | asynchronous operations, and the promise they implement | checked, proved |
| 2 | `SyncCall` | synchronous calls | checked, proved |
| 3 | `MemberUpdate`, `MemberChanges` | a member's keys and aliases from several devices, and the promise they implement | checked, proved |
| 4 | `ExternalAuthorization` | account linking and `executeAsync:` with the OAuth engine and the browser, over `CallbackOnce` | checked, proved |
| 5 | `KeyEngine` | the keys of one device in the in-memory store or in the keychain, with expirations, failing between two steps | checked and proved as part of 6 |
| 6 | `MemberSetup` | creation, provisioning and recovery over either engine of 5 and a server like that of 3, over `CallbackOnce` | checked, proved |
| 7 | `TokenBuilders` | the builders, `prepareToken:` and `createToken:`, and what the server makes of retries | checked, proved |
| 8 | `Iteration`, `Encodings` | loops as functions; Base58 and Base64 as pure operators against reference definitions | checked, proved |

Composition: `MemberSetup` EXTENDS `KeyEngine`, whose steps are parts of its own;
`ExternalAuthorization` and `MemberSetup` take for granted of a call of `TKClient`
what `RpcCall` shows of it, that it is answered once. The abstract specification
`CallbackOnce` (an operation is answered once) is implemented by `RpcCall`,
`ExternalAuthorization` and `MemberSetup`, and `MemberChanges` (a member changes as it
was asked to, each change in one step) by `MemberUpdate`. The theorems of a module are
in a module of their own, `...Proofs`; `Induction` holds those that the proofs about
loops rest on.

What could be modelled next is listed in section 7: the canonical JSON of `TKJson`
and what it does to a signature, the effect of `deleteMember:`, the sharing of a
cached member, and `redeemToken:` beside `TokenBuilders`.

## 3. The modules

### `RpcApis`: what each method does

Every asynchronous method of `TKClient` and `TKUnauthenticatedClient` is a short
program of two kinds of step: `Sign(level)`, a signature asked of the crypto
engine, and a gRPC call (`OpenCall`, `AuthCall`) whose completion handler runs the
rest. `Program(a, k)` is the member read that precedes a chain update, then the
payload signature if the request carries one, then the request's own signature and
the call. Methods with one program share a set, in the order of the source file.
Request fields are abstracted away. `reply` is what the completion handler can
tell apart in a response.

### `RpcCall`: the life of an operation

| state | code |
|---|---|
| `pc`, `request`, `todo`, `key` | the point an operation's code has reached, its arguments, what is left of it, the level of the key that signed last |
| `main` | the operation whose code holds the main thread |
| `calls` | the `GRPCProtoCall`s, each with its headers, its result and its timeout block |
| `log` | the callbacks the application received |
| `created`, `onBehalfOf`, `metadata` | the `TKClient` objects and their two fields |
| `alive` | the process, ended by an exception nobody catches |

| action | code |
|---|---|
| `Invoke` | a method is called, on the main thread or another |
| `ForAccessToken`, `SetSecurityMetadata` | `TKMember forAccessToken:` with `TKClient copyWithZone:`; `setSecurityMetadata:` |
| `SignAtOnce`, `Prompt` | `signData:` without and with a prompt |
| `SignRaises` | the key store raises: to the caller if the code is still below the application's frame, otherwise the process ends |
| `PromptApproved`, `PromptRaises`, `PromptRefused` | the reply of `evaluatePolicy:`; a refusal reports an error and returns nil, on which every caller returns |
| `Dispatch` | `TKRpc` builds the headers, schedules the timeout block, starts the call |
| `Settle` | the server answers, or the connection fails (external) |
| `TimerFires` | the timeout block runs, whatever became of its call, and cancels it |
| `Deliver` | the completion handler runs: `Resume` the program, `StepUp`, or `Conclude` with a callback |

A prompt on the main thread blocks it (`signData:` waits on a semaphore), so
handlers and timers wait too; a prompt on another thread does not. A cancelled
call may lose a result that was already queued (`Cancelled` is a set).

### `CallbackOnce`: the promise

An operation is idle, pending, answered through exactly one of the callbacks the
API names, or threw to its caller; the process may end. `RpcCall` implements it
under `StatusOf`, its fairness included.

### `SyncCall`: synchronous calls

`stack` is the main thread's stack of synchronous calls and of callbacks the
application is running, `state` how far each call is. The only operation of the SDK that
is called so is `executeAsync:` (`execute`), which makes up to three calls to the server
with a bank's page between the second and the third.

| action | code |
|---|---|
| `RunOnMain`, `RunOffMain`, `Raise` | `run:`, on the main thread or another, and the exception for a missing source account |
| `Respond` | external: the server answers a call, whose handler is queued (`Answered`) |
| `TimeOut` | the timeout block of one call to the server, which bounds that call and not the page |
| `Handle` | the handler: it makes the next call, opens the page, or `run:`'s `onSuccess` or `onError` keeps what it is given and signals |
| `Page` | an event of the page: the access token, Back, a refusal or a failure |
| `Finish` | `run:` finds its semaphore signalled, and on the main thread its frame innermost |

One fact is external: a run loop that is turned from inside a block of the main queue does
not run further blocks of that queue (`QueueDrains`).

### `MemberUpdate`: a member's keys and aliases

The server has the member's `hash`, keys and aliases; each device has a key store,
the key a lookup finds in it (`signer`, any of a level: the store is an unordered
dictionary), and the two caches of its `TKMember`. An alias has a value, as the
application spells it, and a realm. `addAliases:` of an affiliated member refuses the
aliases of a realm that is not its partner's (`Foreign`) and writes that realm into the
others (`InRealm`); `removeAliases:` takes its aliases as they are given. The server has
normalized aliases and removes by `Hash`, which leaves the realm out (`AliasesAfter`); the
device's array of aliases, modelled as a set, has whole aliases in the form in which they
were added or last fetched, and removes those that are equal (`CachedAfter`). An operation goes from its
invocation (`ApproveKeys`, `RemoveKeys`, `RemoveNonStoredKeys`, `AddAliases`,
`RemoveAliases`, `GetKeys`, `GetAliases`) through a read (`ServeRead`, then
`Listed`, `Fetched` or `ReadDone`) to the update it sends on top of the hash it
read (`ReadDone`, `ServeUpdate`, `Updated`). `Fail` stands for every way of being
told of an error, and leaves a sent update with the server, which may still take
it. That the server accepts an update only on top of the member's current hash,
signed with one of its keys, is external: the SDK's code reads the hash for it.

### `MemberChanges`: the promise

The member's `keys` and `names` (the hashes of its aliases) change only as one of the operations was
`asked` to, in one step (`TakeEffect`), at most once, and not after a change that the same
device was asked for later; a success is told of what took effect, an error of anything.
There are no hashes, reads, messages or caches. `MemberUpdate` implements it with its
`registered` for `keys`, `HashesOf(owned)` for `names`, `job` for `asked` and the operations in
`applied` for `took` (`Promise`): invocations are `Ask`, `ServeUpdate` is `TakeEffect`,
`Updated`, `Fetched` and `Fail` are `Answer`, and the other steps are stutters. What
`removeNonStoredKeys:` removes is not told exactly: any keys but those its device's
lookups found when it began.

### `ExternalAuthorization`: operations with a bank's page

A level above `RpcCall`: each call of `TKClient` is one step and its answer
another. `at` is where an operation is, `browser` what became of the engine's
browser, `found` the engine's `completionUrlIsFound`, `used` how often the access
token went into a call, `answers` what the application was told.

| action | code |
|---|---|
| `Start`, `FirstCall`, `Throw` | `initiateAccountLinking:` asks for the bank; `executeAsync:` throws without a source account or tries to create the token |
| `CallFails`, `CreatedAtOnce`, `AuthRequired` | how that call, and `executeAsync:`'s read of the account, are answered |
| `Authorize` | the engine is made and its browser loads the page, or there is no view controller to present it |
| `CompletionUrl`, `ErrorUrl` | the page redirects with an access token or an error |
| `Back`, `NavigationFails` | `browserWillCancel:`, from the Back button or a page that fails |
| `Answered` | the call made with the access token is answered |

`KeepsUp` says what the browser of each operation still does after its completion:
nothing, as an application's own `TKBrowser` may be written (`{}`), or what `TKTokenBrowser`
does: its Back button stays on the screen while the call is out (`"back"`), and a
page that was loading goes on after the browser was dismissed (`"loading"`).

### `KeyEngine`: the keys of a device

`pairs` are the key pairs generated so far, numbered in their order, with levels and
expirations; `stored` are those a lookup by level can find the private key of, and
`verifiable` those a lookup by id can find the public key of. `engine` chooses
between the two engines, whose differences are in three definitions. `Kept`: the
in-memory store keeps every key, the secure enclave engine deletes the private keys of
the level first. `Lookup`: the store passes over expired keys and its dictionary has no
order; the keychain does not look at the expiration. `Forget`: the store goes with the
process. `Generate(l, expires, reached)` is `generateKey:withExpiration:` with the
point of its progress that it `reached`: with the secure enclave the old key may be
deleted and no new one created, or a private key created and its public key not
saved, after which nothing is `Given` back.

### `MemberSetup`: a device gets keys for a member

| state | code |
|---|---|
| `hash`, `registered`, `others` | at the server: the number of the member's updates (none: no member), the keys of this device among the member's, whether it has another device |
| `kind`, `pc`, `left`, `got`, `authorized` | each job, what it has still to generate, the keys it was given, whether its recovery was authorized |
| `sent`, `taken` | the update it sent, until the server handles it, and whether it was taken |
| `told`, `lost` | what the application was told; whether the process ended since |

| action | code |
|---|---|
| `CreateMember`, `ProvisionDevice`, `CompleteRecovery` | the invocations in `TokenClient` |
| `Asked` | the answers to `getDefaultAgent`, `createMemberId`, `resolveAlias` |
| `GenerateNext`, `GenerationRaises`, `GenerationFails` | `generateKeys`, which puts a missing key into an array and raises, and the generations of a recovery, which checks for it |
| `AskAuthorization`, `Authorized`, `AskMember`, `MemberRead` | `completeRecovery:` and `completeRecoveryWithDefaultRule:` |
| `Send`, `SendCreation`, `Updated`, `Provisioned` | the signed update and its answer |
| `Fail` | every way of being told of an error |
| `GenerateKey` | the application's own use of its `TKCrypto`, with an expiration |
| `ProcessEnds`, `Killed`, `TimePasses` | external |
| `ServeUpdate`, `ApproveKeys` | external: the server takes an update on top of the current hash, signed by a key of the member; another device approves keys |

The application awaits an answer before it begins another job or generates a key
(`Idle`), passes its newest Privileged key to `completeRecovery:`, and creates one
member. The answer to `getMember:` is part of the step that uses it.

### `TokenBuilders`: tokens made, and made again

| state | code |
|---|---|
| `issued` | what each nonce (`TKUtil nonce`) was given out for |
| `requested` | the reference id in the token request, which may be empty |
| `builders` | per builder its reference id (nil, empty, or a nonce), the terms of a transfer, the resources asked for and how often its payload lists each |
| `built` | the payloads, with the values the builder had at the time |
| `sent`, `tokens` | requests with their answers; the tokens the server made |

| action | code |
|---|---|
| `Create`, `CreateAccess`, `FromTransferPayload`, `FromAccessPayload`, and `TransferFromTokenRequest`, `StandingFromTokenRequest`, `BulkFromTokenRequest`, `AccessFromTokenRequest` | the ways to make a builder; each kind treats the request's reference id its own way, and a lifetime amount that a payload does not have is read as not a number (`AsRead`) |
| `SetRefId`, `For` | `setRefId:`; `forAccount:` and the other resources |
| `BuildAfresh`, `BuildWithItsReference`, `BuildBulk`, `BuildAccess` | `buildPayload` of each builder: some draw a reference id for each payload, some once, and an access builder adds its resources to the payload it keeps |
| `Prepare`, `CreateToken` | `prepareToken:` and `createToken:` |
| `Execute`, `ExecuteAuthorized` | `createTransferToken:` by way of `executeAsync:`, `createAccessToken:`, `replaceAccessToken:`; the exception `executeAsync:` throws for a missing source account changes nothing here and is a stutter |
| `Handle`, `Refuse`, `AskForAuthorization` | external: the server makes one token per reference id, as `token.proto` says of it |

`purpose` and `meant` are history: what a reference id was for, and the terms that a
builder was asked to carry.

### `Encodings`

Base58 as `Base58.c` computes it, in place in a bounded buffer (`AddByte` is the
carry loop of `b58enc`, `AddDigit` that of `b58tobin`), `b58check`, and Base64 with
either alphabet, with and without padding. Characters are the numbers they stand
for. One behaviour looks at one input.

A loop is the function of what it has computed after each of its rounds (`Iterate` of
`Iteration`): `Carried` and `CarriedOn` are the carries from digit to digit and from limb
to limb, `Buffered` the buffer after each byte, `Read` the limbs after each digit
(`ReadDigit`). `used` counts the digits right of `high`, the leftmost that was ever set:
`Stops` are the digits the carry loop may stop before, with nothing carried and past
`high`, and if there is none it has left its buffer (`within`).

Base64 goes by position: `Encoded64` says which six bits character `i` stands for, two of
its bytes each, and `Decoded64` which eight bits byte `i` has. Removing the padding or the
trailing zeros is a loop that drops characters (`Kept`); `PaddedAgain` puts the padding
back as `TKUtil` does.

## 4. The runs

| run | states | what it shows |
|---|---|---|
| `rpc_core` | 230,104 | two operations among those that make two calls (`updateMember:`, `getBalance:`), from the member's own client and a copy with an access token, with prompts, refusals, lost answers and late timers: one answer each (`OneAnswer`), the global callback first (`GlobalCallbackFirst`), nothing on the wire afterwards (`QuietAfterAnswer`), no cancellation by a timer of another call (`OwnTimeout`), one step up (`StepUpOnce`), the right access token (`ActsForItself`), and nobody waits for what may never come (`NeverStuck`); the two implement `CallbackOnce` with its fairness (`KeepsPromise`); and the inductive invariant of the proofs (`Inductive`) |
| `rpc_every_api` | 38,881 | each of the methods of both clients alone, with security metadata: always answered or thrown (`EveryCallAnswered`) |
| `sync_nested` | 105,335 | three synchronous calls from any thread, nested in any order, among callbacks of other operations and bank's pages that a user may leave open: each call returns with its own answer (`FramesAreUnfinished`), they do not wait for one another in a circle (`NeverHangs`), and each comes back that is not kept by such a page, its own or that of a call nested in it (`EveryCallComesBack`) |
| `sync_in_callback` | violation | see findings |
| `member_devices` | 1,494,639 | two devices, one not yet approved, and three operations on keys and on an alias in two spellings and with two realms, with updates the server sees late: updates of a device take effect in order (`AppliedInOrder`); the whole implements `MemberChanges` (`TakesEffectOnce`); and the inductive invariant of the proofs (`Inductive`) |
| `member_device` | 2,002,544 | one device of an affiliated member that generates two more keys, an alias given in either spelling and with or without its realm, another of a foreign realm, three operations: the device does not lock itself out with `removeNonStoredKeys:` (`NeverLocksItselfOut`), what was reported as done was taken and what was refused was not (`ReportedIsApplied`), the aliases it reports have all the member's, and of others only those removed in another form (`AliasesKnown`) |
| `member_stored` | violation | see findings |
| `setup` | 820,022 | two jobs over either engine, in any order of creation, provisioning and recovery, with generations that stop half-way, a key of the application's own, one kill, and updates the server takes late. What was reported can be used (`UsableAfterSuccess`), the enclave never signs with a replaced key (`Replaced`), old keys verify (`VerifiesLater`), an unauthorized recovery costs a device its Privileged key at most (`RefusalSpares`), each job is answered once unless its process ends (`KeepsPromise`), and the inductive invariant (`Inductive`) |
| `values` | 351,046 | two builders of any kind, two payloads, three requests: one token however often a payload, or a builder that keeps its reference id, is sent (`RetriesMakeOneToken`), no answer with a token of something else (`AnswersAreItsOwn`), an access token for what was asked of its builder (`ListsWhatWasAsked`), the inductive invariant (`Inductive`); and the encodings: Base58 is the number and stays in its buffers (`EncodesTheNumber`), decoding inverts encoding (`DecodesWhatWasEncoded`, `ReadsOnlyItsOwn`), the checked form notices a zero more and one less (`ChecksOut`), Base64 (`DecodesBase64`) |
| `builder_terms` | violation | see findings |
| `auth_pages` | 84,700 | two linkings and two transfers, one of each with a browser that stops at its completion and one with `TKTokenBrowser`. Of all: the token is used once (`TokenUsedOnce`), no browser stays on the screen (`BrowserClosed`), only the user delays an answer (`ComesBackFromCalls`), and the inductive invariant (`Inductive`). Of those whose browser stops: nothing happens after an answer (`FinalAnswer`), `CallbackOnce` is implemented (`KeepsPromise`) |
| `auth_cancel` | violation | see findings |

**Bounds.** An operation of `RpcCall` makes at most two calls, so two operations
show every interleaving of a handler, a timer and a prompt of one operation with
those of another; operations share the main thread, the client's fields and
nothing else. One access token and one copy are enough for `ActsForItself`, which
relates one call to one client; the theorem has no bound. In `SyncCall` three
calls nest three deep and `MaxBlocks` = 2 lets a callback run between them.
`MemberUpdate`: `MaxOps` = 3 lets a late update meet two later operations. In
`member_device` three keys are the one a device signs with, one generated and
approved, and one generated while an update is late, after which a lookup may find
the second; one device is enough, for `NeverLocksItselfOut` is about one, and the
theorems `ReportsAreTrue` and `MembersAliasesKnown` are about any number. `AliasChoices`
are the sets of aliases an application gives: in `member_device` one alias without a realm,
the same one in another spelling with the partner's, and it beside one of a foreign realm
(`OfAPartner`); in `member_devices`, whose member is not affiliated, one alias, it in two
spellings at once, and it with a realm (`OfNoPartner`), so that what is cached and what the
server has may differ.
`KeyChoices` are single keys. `setup`: two jobs are the one that fails or is late and the one that
succeeds after it; one key of the application's own and one tick (`MaxTime` = 1)
show a key that replaces another and one that has expired; one kill falls between any
two steps. Its theorems have none of these bounds. `values`: two builders are the one a
payload comes from and the one made of that payload; two payloads are two of one builder or
one of each, and three requests a first try, a retry and one with another payload (three
payloads were checked once: 2,823,132 states, the same answer; the theorems have no bound). The two models it holds do not interact
(a behaviour follows one or the other). Limbs have `LimbBytes` = 2 bytes where
`b58tobin` has 4, for TLC's integers have 32 bits; a buffer of an odd number of bytes
still leaves the first limb half used. Inputs are all sequences of up to four bytes, or digits,
of a few values, and some of 8, 20 and 33 bytes, one more than a key or a hash has; the
theorems are about any bytes and digits and any `LimbBytes`. `ExternalAuthorization`: operations share nothing, so that two of
a kind show what one does to another; `MaxAnswers` bounds the answers to one
operation whose browser goes on for ever, and is 2 where the right number is 1. Deadlock is not checked: after its bounded number of operations
every model stops, as an application does that asks for nothing.
`Serial` = TRUE: an application waits for an answer before it asks for the next
change. Without it two updates of one device race, and the order the server sees
is the network's.

**Fairness.** Weak fairness of `Run` (a thread goes on executing), `Owner` (the
system's prompt is answered or dismissed, it has no indefinite state), and
`MainQueue` (the main queue runs its blocks, the timeouts among them). None of
`Settle` or `Respond`: the network may never answer, which is what the timeouts
are for; and none of the application. In `SyncCall` weak fairness of `TimeOut`, `Handle`,
`Finish` and `LeaveCallback` (callbacks of the application return), and none of `Page`: a
user may leave a page open, which no timeout ends, so that `EveryCallComesBack` is of the
calls that are not kept by a page for ever (`[]<>~KeptByPage(c)`). In `ExternalAuthorization`, of the calls made to `TKClient`
(`Calls`), which `RpcCall` shows to be answered, and not of the user, who may stay
on the bank's page for ever. In `MemberSetup`, of what the SDK does with a job that has
begun (`Proceed`): its calls are answered by the server or by their timeouts, and its
code runs on. `TokenBuilders` and `Encodings` state no liveness.

## 5. The proofs

`RpcCallProofs` proves, for any set of operations, methods, clients, access tokens
and metadata, from `RpcCallAssumption` and `NoResultAssumption` (the methods are
those of `RpcApis`; nil is no token, metadata or result):

| theorem | |
|---|---|
| `InductiveInvariant` | `Spec => []Inductive` |
| `TypeCorrect` | `TypeOK`, a part of it |
| `AnsweredOnce`, `GlobalToldFirst` | `OneAnswer`, `GlobalCallbackFirst` |
| `QuietOnceAnswered`, `CancelledByOwnTimeout` | `QuietAfterAnswer`, `OwnTimeout` |
| `StepsUpOnce` | `StepUpOnce` |
| `EachClientForItself` | `ActsForItself` |
| `NeverWaitsInVain` | `NeverStuck` |
| `RefinesCallbackOnce` | `Spec => Promise!Spec`: initial states map to initial states, and each step to a step or a stutter |

The argument. `OneAnswer` is not inductive: `TimerFires` and `Deliver` may run for
any call of any operation, and nothing in `OneAnswer` says that they find no call
of an operation that is done. The strengthening is `LatestCallPending`: a call
whose handler has not run is the latest of its operation, and that operation is
waiting. With it a delivery implies that the operation has not answered, and
`QuietAfterAnswer` follows. `SettledHasResult` gives every handler a result, so
that the callbacks it makes are those of some result (`LogIsAnswer`);
`PromptForSignature` and `RequestKnown` give types to what a reply to a prompt and
a dispatch use. Each lemma `...Inductive` takes one group of actions and shows each
conjunct that the group can disturb; facts about sequences of calls
(`UpdateCallType`, `UpdateInductive`) are stated once. TLC checks `Inductive` in
`rpc_core`.

`StepUpOnce` needs an invariant of its own, `StepUpPath`, which rests on `Inductive`: an
operation that may step up has, while its code runs, either no call and a signature or a
call to make, or one call that was answered with a demand for more signatures under a Low
key and a Standard one to go on with (`SteppingUp`); while it waits it has one call or
two, and the last carries the key that signed it. `DeliverPath` is the only step that
adds to it. `LatestCallPending` says that the result of the first of two calls is settled.

`NeverStuck` is what can be proved of `EveryCallAnswered`: in every state an operation
under way has code to run, a prompt, or a latest call that has a result or an armed
timeout, so that one of the steps that fairness speaks of is there to be taken. It is
inductive together with `Inductive`. Every program ends with a call (`ProgramEnds`) and so
does every rest of it that is not empty (`RestEnds`), so that an operation leaves its code
with a call or an answer only; `TimerFires` disarms the timeout of a call and settles it in one step.

`MemberUpdateProofs`, for any devices, keys, levels, aliases and number of
operations, from `MemberUpdateAssumption` and `NothingAssumption` (every device
begins with a key of each level, normalizing twice is normalizing once):

| theorem | |
|---|---|
| `MemberInvariant` | `Spec => []Inductive` |
| `UpdatesInOrder` | `AppliedInOrder`, if `Serial` |
| `ReportsAreTrue` | `ReportedIsApplied` |
| `NeverLockedOut` | `NeverLocksItselfOut`, if `Serial` |
| `MembersAliasesKnown` | `AliasesKnown`, if `Serial` |
| `ChangesTakeEffectOnce` | `TakesEffectOnce`: `Spec => Promise!Spec`, initial states map to initial states, and each step to a step or a stutter |

`AppliedInOrder` says nothing of an update that is still on its way.
`OvertakenIsStale` does: one that a later update of its device overtook follows a
hash the member has left behind, which `ServeUpdate` refuses. It is kept because
an application that awaits its answers has one operation under way (`OneByOne`), so
that no update is sent for an operation that was overtaken, and because hashes on
their way are never ahead of the member's (`SentOnce`). `SparesSigner` follows the
key that signs a `removeNonStoredKeys:` from the invocation to the server: it is not
among the keys to remove, and stays in the store. Every completion handler is an
instance of one lemma (`OwnStepConsistent`), every invocation of another
(`StartConsistent`).

These parts are `Consistent`, which is inductive by itself and which the refinement of
`MemberChanges` follows from: `AppliedInOrder` makes `ServeUpdate` a `TakeEffect`,
`ReportedIsApplied` makes a success an `Answer`. `AliasesKnown` needs
`CachesFollow` besides. It says nothing of a change that is under way, while the cache of
its device and the member's aliases differ. `Follows` does: an alias change the server
took and whose answer is on its way will leave a cache that agrees with the member
(`CachedAfter`, `Agrees`), a list of aliases that is on its way is the member's, and with no
change between the server and the cache the two agree. It is kept because the one device
that changes aliases has, if it awaits its answers, one change under way, and because a
change that the server takes after its device was told of an error ends `AloneChanges`.
`HashesAfter` says what an update does to the hashes of the member's aliases, whatever
forms they have, and `CachedAfterAgrees` that the cache loses no more than the member does,
and keeps of what the member loses only what was removed in another form, which stays so
(`RemovalsStay`).

`ExternalAuthorizationProofs`, for any operations, from
`ExternalAuthorizationAssumption`:

| theorem | |
|---|---|
| `AuthorizationInvariant` | `Spec => []Inductive` |
| `TokenIsUsedOnce`, `BrowserIsClosed` | `TokenUsedOnce`, `BrowserClosed`, whatever the browser does |
| `AnswersAreFinal` | `FinalAnswer`, of operations whose browser stops (`Quiet`) |
| `AuthorizationKeepsPromise` | `Spec => Promise!Spec`, of the same |

Here the invariant ties the browser to the point the operation has reached: none
before (`QuietBefore`), one on the screen while authorizing (`Authorizing`), and
with a browser that stops an answer exactly when done (`StopsMeansDone`).

`MemberSetupProofs`, for either engine and any levels, jobs, keys and kills, from
`KeyEngineAssumption` and `MemberSetupAssumption` (`generateKeys` names each level
once):

| theorem | |
|---|---|
| `SetupInvariant` | `Spec => []Inductive` |
| `SuccessIsUsable` | `UsableAfterSuccess` |
| `OldKeysAreReplaced`, `OldKeysVerify` | `Replaced`, `VerifiesLater` |
| `UnauthorizedRecoverySpares` | `RefusalSpares` |
| `SetupKeepsPromise` | `Spec => Promise!Spec`, of any one job |

`UsableAfterSuccess` relates three places: the engine, the server and what was told.
`KeysKept` ties a job's keys to the engine as long as the process lives or the keychain
holds them; it depends on `Newest`, which every generation of the level takes away, and
on `LaterIsNewer`. `TakenIsRegistered` ties them to the server: the member has the keys
of an update it took until a later job replaces them. A late update of an earlier job
could put its own keys in their place; `OvertakenIsStale` says that it follows a hash
the member has left. `Begun`, `Over` and `Path` say what a job has behind it at
each point.

`TokenBuildersProofs`, for any kinds, offers, resources, builders, payloads and
requests, from `TokenBuildersAssumption` and `OffersAssumption`:

| theorem | |
|---|---|
| `BuildersInvariant` | `Spec => []Inductive` |
| `RetriesAreSafe` | `RetriesMakeOneToken` |
| `AnswersAreOwn` | `AnswersAreItsOwn` |
| `ListsAreAsAsked` | `ListsWhatWasAsked` |

A reference id is used for what it was given out for (`UsedAsIssued`), a builder that
keeps its reference id has used no other (`OneReference`), the server has one token for a
reference id and answers with it (`OneTokenPerReference`), and nothing gets into a list
that was not asked for (`ListedAsAsked`). The first and the third together give
`AnswersAreItsOwn`, the second and the third `RetriesMakeOneToken`. Builders and payloads
only grow: most of the lemmas say so once for each way of adding or changing one element.

`SyncCallProofs`, for any calls nested in any order, from `SyncCallAssumption`:

| theorem | |
|---|---|
| `FramesStayUnfinished` | `FramesAreUnfinished` |
| `CallsNeverHang` | `NeverHangs` |

`FramesInvariant` adds the types of the stack: a call is put on the stack when it is new,
and leaves it in the step it returns in, being the last frame. `CallbackIsInnermost` says
that no frame is put above a callback's, if callbacks make no synchronous calls. Then the
main queue drains whenever the innermost frame is a call, and the innermost call waits for
that queue, is about to return, or is at a page that its user can leave (`SomethingMoves`). With `FromCallbacks` it does not
hold, which `sync_in_callback` shows.

`EncodingsProofs`, for any bytes, digits and characters and any `LimbBytes`, from
`EncodingsAssumption`:

| theorem | |
|---|---|
| `AnyBytesAreEncoded` | every buffer reserved by `b58enc` is enough: no carry leaves it, and what it holds are digits |
| `NumbersAreEncoded` | `EncodesTheNumber` |
| `EncodedBytesAreDecoded` | `DecodesWhatWasEncoded` |
| `OnlyItsOwnAreRead` | `ReadsOnlyItsOwn` |
| `CheckedBytesCheckOut` | `ChecksOut` |
| `Base64Decodes` | `DecodesBase64` |

The library's theorems of induction take an operator as their parameter, which none of the
provers can give. `Induction` has them for sets and functions instead, from the
well-foundedness of < on the natural numbers, and says what a loop computes (`Iterates`).
The rest is arithmetic. The value of a prefix of the buffer follows each loop: a carry
loop leaves the digits of what it was given in place (`BufferedIs`), the 138 digits for 100
bytes suffice because 256^8 <= 58^11 (`ReservedIsEnough`), a carry between the limbs is at
most 57, so that the mask of six bits loses nothing of it (`CarriedOnIs`). A number has
one representation in digits of a base (`OneNumber`), which gives back the bytes; zeros
before it are counted apart, and without the first of them there is one less
(`OneZeroLess`). Of Base64, three bytes and four characters are the same 24
bits, the missing ones being zero (`SextetsAre`), the loop that drops characters keeps
the others in their order (`KeptIs`), and the padding put back is what was left out
(`PaddedIs`).

Only model-checked: `EveryCallAnswered`, `EveryCallComesBack`, `ComesBackFromCalls` and
the fairness of `CallbackOnce`, which are liveness properties and, like ENABLED, outside
what the prover handles. `NeverStuck` and `NeverHangs` are the parts of the first two
that speak of states. Every other property of the passing runs is stated by a theorem.

## 6. Findings

Each is a run of `PROJECT.json` whose property is what a comment or a header says
and which TLC finds violated.

* `sync_in_callback`: `TKRpcSyncCall.m:42` turns the run loop so that the main
  thread is not hung by the semaphore. From within a callback of the SDK, a block
  of the main queue, it hangs: the inner run loop runs no further block.
* `member_stored`: `TKMember.h:133` says `removeNonStoredKeys:` removes keys without
  a private key on the device. It compares with one key of each level, and the
  in-memory store keeps all.
* `auth_cancel`: `TKOauthEngine.h:30` calls a cancellation an error. Back while the
  accounts are being linked reports one, and then the linked accounts are reported.
* `builder_terms`: `TransferTokenBuilder.h:32` distinguishes the lifetime amount from the
  amount of a charge. The builder made from a token request assigns the request's charge
  amount to the lifetime amount (`TransferTokenBuilder.m:60`). The same run's property
  also fails for a payload with times: `:106` reads `effectiveAtMs` from `expiresAtMs`.

Other disagreements and doubts met on the way, for which a run would show no more than
the line does:

* `TKMember.h:1055` says security metadata is sent with each request. The member read
  that begins every update goes through the unauthenticated client, which sends none
  (`HeaderOf`, `ReadFirst`).
* `TransferTokenBuilder.h:129` says `execute` throws if an external authorization is
  required; it runs `executeAsync:`, which opens the browser (`AuthRequired`, `Authorize`), and
  waits for the bank's page without a limit (`Page` of `SyncCall`).
* `TKMember.h:47` calls `aliases` the "Member's aliases". `addAliases:` of an affiliated
  member writes the partner's realm into the alias (`TKMember.m:231`) and caches it so; the
  server removes by a hash that leaves the realm out (`TKHasher.m:45`), the cache whole
  aliases only (`TKMember.m:280`). An alias that is removed as it was given, without a
  realm, is the member's no more and stays in `aliases` and `firstAlias`. So does one that
  is removed in another spelling, of any member. `AliasesKnown` states how far the two can
  differ (`RemovedInAnotherForm`).
* A lifetime amount that a payload does not have becomes the decimal number NaN of the
  builder made from it (`TransferTokenBuilder.m:85`), which writes "NaN" into the next
  payload (`:145`); a charge amount is checked for it (`AsRead`).
* `AccessTokenBuilder.m:72` draws a reference id where `token.proto:67` has the request's
  "transferred to the token payload"; `:76` takes the `description` every object has, not the
  request's `description_p`; `:152` lists the resources again with each build.
* `TransferTokenBuilder.m:39` takes the empty reference id of a request that has none for
  one (`Empty`); an account id read from a payload (`:104`) is an empty string, which the
  check at `:229` for a missing source does not notice.
* `BulkTransferTokenBuilder.m:46` overwrites the `from` that `:43` and `:44` set.
* `TKMember.m:760` and `:794` draw a reference id for each `redeemToken:` without one: a
  redemption repeated after a timeout is a second one.
* `TKCryptoEngine.h:15` says a generated key replaces the one of its level; the token
  engine's store keeps both (`Kept`), and a lookup may find either.
* `TKCrypto.m:28` raises if the engine gives no key back (`GenerationRaises`), and
  `TokenClient.m:537` for a nil alias, which the comment at `:486` allows.
* `removeNonStoredKeys:` calls `onError` a second time when the engine has
  reported a missing key (`TKMember.m:157`).
* `TKCrypto.m:84` encodes a payload as ASCII, `:139` another as UTF-8: what of the former
  is not ASCII gives nil.
* `b58tobin` reports a size beyond its buffer for digits that begin with more zeros than
  it has room for (`DecodesWhatWasEncoded` has it); `encodeBase58:` gives nil for no bytes
  and does not free its buffer then (`TKHasher.m:58`); the status of `SecItemDelete` is
  ignored (`TKSecureEnclaveCryptoEngine.m:388`).

## 7. What is not modelled

Contents of requests and responses where no property is about them; the wording of
errors; logging; the layout of the UI; generated code; values without behaviour;
`TKAuthorizationEngine` and `QHex`, which nothing uses. Beyond these:

* the effect of `deleteMember:` on the server, and the sharing of one cached member
  between a `TKMember` and its `forAccessToken:` copies;
* the use of the in-memory store's dictionary from two threads at once, whose outcomes
  Foundation does not specify;
* of the secure enclave engine, `getKeyInfo:` and the system's own prompt; key deletion
  that fails is not told from one that succeeds by the code, and is taken to succeed;
* of the builders, the fields that are copied one by one, `redeemToken:`, and a payload
  that the application changes after it was built, or that two builders share;
* the canonical JSON of `TKJson`, the conversions of names, the normalization of aliases
  beyond its being idempotent, and the hashes and signatures themselves, which are
  libraries' (`CheckSum` is any function of the bytes);
* applications that ask for a change of one member before the last one was answered:
  `MemberSetup` has none, and `MemberUpdate` allows them with `Serial` = FALSE, where no
  order can be promised, and the runs have TRUE. `RpcCall`, `SyncCall`,
  `ExternalAuthorization` and `TokenBuilders` allow any overlap.
