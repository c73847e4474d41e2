------------------------------ MODULE RpcCall ------------------------------
(***************************************************************************)
(* The life of the SDK's asynchronous operations: from the invocation of a  *)
(* TKMember, TKClient or TKUnauthenticatedClient method, through the         *)
(* signatures and gRPC calls of its program, to the callback the            *)
(* application receives.  An operation runs on the thread that invoked it    *)
(* until its first call is dispatched; completion handlers and the per-call  *)
(* timeout blocks run on the main queue.  A prompt for the device owner      *)
(* blocks the thread that asked for the signature, the main thread included. *)
(***************************************************************************)
EXTENDS RpcApis, Naturals

CONSTANTS
  Ops,              \* the invocations the application makes
  Apis,             \* the methods it may invoke
  Clients,          \* TKClient objects: the member's own and its copies
  OwnClient,        \* the one initWithGateway: made
  AccessTokens,     \* what a copy may act with
  Metadata,         \* SecurityMetadata values
  Nothing,          \* nil
  Free,             \* the main thread, when it runs nothing of the SDK
  LocalAuthentication, \* TKTokenCryptoEngine's useLocalAuthentication
  GlobalCallback    \* whether a globalRpcErrorCallback was installed

ASSUME RpcCallAssumption ==
  /\ Apis \subseteq AllApis
  /\ OwnClient \in Clients
  /\ Nothing \notin AccessTokens \cup Metadata
  /\ Free \notin Ops
  /\ LocalAuthentication \in BOOLEAN
  /\ GlobalCallback \in BOOLEAN

VARIABLES
  alive,      \* the process has not been ended by an uncaught exception
  main,       \* the operation whose code holds the main thread, or Free
  pc,         \* where each operation is
  request,    \* what the application asked: method, key level, client
  key,        \* the key level of each operation's latest signature
  todo,       \* the steps the current attempt has left
  calls,      \* the GRPCProtoCalls of each operation, in order of dispatch
  log,        \* the callbacks the application received for each operation
  created,    \* the TKClient objects that exist
  onBehalfOf, \* TKClient's onBehalfOfMemberId
  metadata    \* TKClient's securityMetadata

clientVars == <<created, onBehalfOf, metadata>>
vars == <<alive, main, pc, request, key, todo, calls, log, clientVars>>

-----------------------------------------------------------------------------
(* Results of a call and callbacks *)

\* What the handler can find in a response, by the kind of status it carries.
Answers(reply) ==
  {"ok"} \cup (IF reply = "plain" THEN {} ELSE {"refused"})
         \cup (IF reply = "request" THEN {"moreSignatures"} ELSE {})
         \cup (IF reply = "transfer" THEN {"authRequired"} ELSE {})

\* gRPC errors: one the SDK maps (an SDK version or developer key the server
\* rejects) or any other.
RpcErrors == {"clientRejected", "rpcError"}

Results == {"ok", "refused", "moreSignatures", "authRequired", "cancelled"}
             \cup RpcErrors
ASSUME NoResultAssumption == Nothing \notin Results

SignErrors == {"userCancelled", "userInvalid"}

Callback(cb, why) == [cb |-> cb, why |-> why]
Callbacks == [cb : {"global", "success", "error", "authRequired"},
              why : Results \cup SignErrors]

PrivateCallback(result) ==
  Callback(IF result = "ok" THEN "success"
           ELSE IF result = "authRequired" THEN "authRequired"
           ELSE "error", result)

\* Mutant: the private callback is told first.
CallbacksPrivateFirst(result) ==
  IF result = "clientRejected" /\ GlobalCallback
    THEN <<PrivateCallback(result), Callback("global", result)>>
    ELSE <<PrivateCallback(result)>>

\* TKRpcErrorHandler tells the global callback first, then the private one;
\* errors found in a response go to the private callback alone.
CallbacksFor(result) ==
  IF result = "clientRejected" /\ GlobalCallback
    THEN <<Callback("global", result), PrivateCallback(result)>>
    ELSE <<PrivateCallback(result)>>

Headers == [auth : BOOLEAN, key : Levels \cup {Nothing},
            onBehalfOf : AccessTokens \cup {Nothing},
            metadata : Metadata \cup {Nothing}]

Requests == [api : Apis, key : Levels, client : Clients]

CallRecords == [net : {"open", "settled", "delivered"},
                result : Results \cup {Nothing},
                timer : {"armed", "fired"},
                reply : ReplyKinds,
                header : Headers]

Places == {"idle", "running", "prompting", "waiting", "done", "threw"}

TypeOK ==
  /\ alive \in BOOLEAN
  /\ main \in Ops \cup {Free}
  /\ pc \in [Ops -> Places]
  /\ request \in [Ops -> Requests \cup {Nothing}]
  /\ key \in [Ops -> Levels \cup {Nothing}]
  /\ todo \in [Ops -> Seq(Steps)]
  /\ calls \in [Ops -> Seq(CallRecords)]
  /\ log \in [Ops -> Seq(Callbacks)]
  /\ created \in SUBSET Clients
  /\ onBehalfOf \in [Clients -> AccessTokens \cup {Nothing}]
  /\ metadata \in [Clients -> Metadata \cup {Nothing}]

Init ==
  /\ alive = TRUE
  /\ main = Free
  /\ pc = [o \in Ops |-> "idle"]
  /\ request = [o \in Ops |-> Nothing]
  /\ key = [o \in Ops |-> Nothing]
  /\ todo = [o \in Ops |-> <<>>]
  /\ calls = [o \in Ops |-> <<>>]
  /\ log = [o \in Ops |-> <<>>]
  /\ created = {OwnClient}
  /\ onBehalfOf = [c \in Clients |-> Nothing]
  /\ metadata = [c \in Clients |-> Nothing]
-----------------------------------------------------------------------------
(* Helpers *)

ReleaseMain(o) == main' = IF main = o THEN Free ELSE main

Goto(o, place) == pc' = [pc EXCEPT ![o] = place]

AtStep(o, do) == alive /\ pc[o] = "running" /\ todo[o] # <<>> /\ Head(todo[o]).do = do

\* The code is still below the application's own stack frame: an exception
\* reaches the application instead of ending the process.
InCallersFrame(o) == calls[o] = <<>>

\* The operation ends with the callbacks of its last result.
Answer(o, callbacks) ==
  /\ Goto(o, "done")
  /\ log' = [log EXCEPT ![o] = @ \o callbacks]
  /\ ReleaseMain(o)

-----------------------------------------------------------------------------
(* The application *)

\* A method is invoked, from the main thread when that is free or from a thread
\* of the application's own.  k stands for no key level where the method takes
\* none.
Invoke(o, a, k, c, onMain) ==
  /\ alive
  /\ pc[o] = "idle"
  /\ c \in created
  /\ a \in KeyedApis \/ k = "Low"
  /\ onMain => main = Free
  /\ Goto(o, "running")
  /\ main' = IF onMain THEN o ELSE main
  /\ request' = [request EXCEPT ![o] = [api |-> a, key |-> k, client |-> c]]
  /\ todo' = [todo EXCEPT ![o] = Program(a, k)]
  /\ UNCHANGED <<alive, key, calls, log, clientVars>>

\* Mutant: the access token is set on the client that is copied as well.
ForAccessTokenShared(c, token) ==
  /\ alive
  /\ c \notin created
  /\ created' = created \cup {c}
  /\ onBehalfOf' = [d \in Clients |-> token]
  /\ metadata' = [metadata EXCEPT ![c] = Nothing]
  /\ UNCHANGED <<alive, main, pc, request, key, todo, calls, log>>

\* TKMember forAccessToken: a copy of the client, without its security
\* metadata, is given the access token.
ForAccessToken(c, token) ==
  /\ alive
  /\ c \notin created
  /\ created' = created \cup {c}
  /\ onBehalfOf' = [onBehalfOf EXCEPT ![c] = token]
  /\ metadata' = [metadata EXCEPT ![c] = Nothing]
  /\ UNCHANGED <<alive, main, pc, request, key, todo, calls, log>>

SetSecurityMetadata(c, m) ==
  /\ alive
  /\ c \in created
  /\ metadata' = [metadata EXCEPT ![c] = m]
  /\ UNCHANGED <<alive, main, pc, request, key, todo, calls, log, created,
                 onBehalfOf>>
-----------------------------------------------------------------------------
(* Signatures *)

\* A key of the level signs, and the code goes on.
Signed(o) ==
  /\ key' = [key EXCEPT ![o] = Head(todo[o]).key]
  /\ todo' = [todo EXCEPT ![o] = Tail(@)]

\* No prompt: local authentication is off, the key is Low, or the device has
\* no owner authentication to evaluate.
SignAtOnce(o) ==
  /\ AtStep(o, "sign")
  /\ Signed(o)
  /\ UNCHANGED <<alive, main, pc, request, calls, log, clientVars>>

\* The key store has no unexpired key of the level and raises.
SignRaises(o) ==
  /\ AtStep(o, "sign")
  /\ IF InCallersFrame(o)
       THEN /\ Goto(o, "threw")
            /\ ReleaseMain(o)
            /\ UNCHANGED alive
       ELSE /\ alive' = FALSE
            /\ UNCHANGED <<pc, main>>
  /\ UNCHANGED <<request, key, todo, calls, log, clientVars>>

Prompt(o) ==
  /\ AtStep(o, "sign")
  /\ LocalAuthentication
  /\ Head(todo[o]).key # "Low"
  /\ Goto(o, "prompting")
  /\ UNCHANGED <<alive, main, request, key, todo, calls, log, clientVars>>

PromptApproved(o) ==
  /\ alive
  /\ pc[o] = "prompting"
  /\ Goto(o, "running")
  /\ Signed(o)
  /\ UNCHANGED <<alive, main, request, calls, log, clientVars>>

\* The owner approves but the store has no key: it raises on the thread of the
\* authentication reply, which has no handler.
PromptRaises(o) ==
  /\ alive
  /\ pc[o] = "prompting"
  /\ alive' = FALSE
  /\ UNCHANGED <<main, pc, request, key, todo, calls, log, clientVars>>

\* Mutant: the caller does not return on a nil signature.
PromptRefusedGoesOn(o, error) ==
  /\ alive
  /\ pc[o] = "prompting"
  /\ Goto(o, "running")
  /\ log' = [log EXCEPT ![o] = Append(@, Callback("error", error))]
  /\ todo' = [todo EXCEPT ![o] = Tail(@)]
  /\ UNCHANGED <<alive, main, request, key, calls, clientVars>>

\* signData reports the error and returns nil, on which every caller returns.
PromptRefused(o, error) ==
  /\ alive
  /\ pc[o] = "prompting"
  /\ Answer(o, <<Callback("error", error)>>)
  /\ UNCHANGED <<alive, request, key, todo, calls, clientVars>>
-----------------------------------------------------------------------------
(* Calls *)

\* The headers of the call: an authenticated one carries the signature just
\* made, the client's security metadata and its access token.
HeaderOf(o) ==
  LET c == request[o].client
  IN  IF Head(todo[o]).auth
        THEN [auth |-> TRUE, key |-> key[o],
              onBehalfOf |-> onBehalfOf[c], metadata |-> metadata[c]]
        ELSE [auth |-> FALSE, key |-> Nothing,
              onBehalfOf |-> Nothing, metadata |-> Nothing]

\* The call as it goes out, its timeout scheduled.
NewCallWith(o, timer) ==
  [net |-> "open", result |-> Nothing, timer |-> timer,
   reply |-> Head(todo[o]).reply, header |-> HeaderOf(o)]

\* Mutant: no timeout is scheduled.
NewCallUntimed(o) == NewCallWith(o, "fired")

NewCall(o) == NewCallWith(o, "armed")

\* TKRpc dispatch: the timeout block is scheduled, then the call starts.
Dispatch(o) ==
  /\ AtStep(o, "call")
  /\ calls' = [calls EXCEPT ![o] = Append(@, NewCall(o))]
  /\ todo' = [todo EXCEPT ![o] = Tail(@)]
  /\ Goto(o, "waiting")
  /\ ReleaseMain(o)
  /\ UNCHANGED <<alive, request, key, log, clientVars>>

UpdateCall(o, i, call) == calls' = [calls EXCEPT ![o] = [@ EXCEPT ![i] = call]]

SettledWith(call, result) == [call EXCEPT !.net = "settled", !.result = result]

\* External: the server answers, or the connection fails.
Settle(o, i, result) ==
  /\ alive
  /\ calls[o][i].net = "open"
  /\ result \in Answers(calls[o][i].reply) \cup RpcErrors
  /\ UpdateCall(o, i, SettledWith(calls[o][i], result))
  /\ UNCHANGED <<alive, main, pc, request, key, todo, log, clientVars>>

\* External: cancelling an open call settles it; one whose handler is queued
\* may still lose its result; one whose handler ran is left alone.
Cancelled(call) ==
  (IF call.net = "open" THEN {} ELSE {call})
    \cup (IF call.net = "delivered" THEN {}
          ELSE {SettledWith(call, "cancelled")})

\* Mutant: the timeout block cancels whatever call is the latest.
TimerCancelsLatest(o, i) ==
  /\ alive
  /\ main = Free
  /\ calls[o][i].timer = "armed"
  /\ LET latest == Len(calls[o])
     IN  \E call \in Cancelled(calls[o][latest]) :
           calls' = [calls EXCEPT ![o] = [[@ EXCEPT ![latest] = call]
                                            EXCEPT ![i].timer = "fired"]]
  /\ UNCHANGED <<alive, main, pc, request, key, todo, log, clientVars>>

\* Mutant: the timeout block answers the application itself.
TimerAnswers(o, i) ==
  /\ alive
  /\ main = Free
  /\ calls[o][i].timer = "armed"
  /\ UpdateCall(o, i, [calls[o][i] EXCEPT !.timer = "fired"])
  /\ Answer(o, <<Callback("error", "cancelled")>>)
  /\ UNCHANGED <<alive, request, key, todo, clientVars>>

\* The timeout block of one call runs, whatever became of that call.
TimerFires(o, i) ==
  /\ alive
  /\ main = Free
  /\ calls[o][i].timer = "armed"
  /\ \E call \in Cancelled(calls[o][i]) :
       UpdateCall(o, i, [call EXCEPT !.timer = "fired"])
  /\ UNCHANGED <<alive, main, pc, request, key, todo, log, clientVars>>

\* Mutant: whatever key signed the request.
StepsUpAlways(o, result) ==
  /\ result = "moreSignatures"
  /\ request[o].api \in StepUpApis

\* The error callback TKMember wraps around a Low request asks again.
StepsUp(o, result) ==
  /\ result = "moreSignatures"
  /\ request[o].api \in StepUpApis
  /\ key[o] = "Low"

\* The completion handler goes on with the program,
Resume(o, result) ==
  /\ result = "ok"
  /\ todo[o] # <<>>
  /\ Goto(o, "running")
  /\ main' = o
  /\ UNCHANGED <<todo, log>>

\* or asks again with a Standard key,
StepUp(o, result) ==
  /\ StepsUp(o, result)
  /\ Goto(o, "running")
  /\ main' = o
  /\ todo' = [todo EXCEPT ![o] = Program(request[o].api, "Standard")]
  /\ UNCHANGED log

\* or answers the application.
Conclude(o, result) ==
  /\ result = "ok" => todo[o] = <<>>
  /\ ~StepsUp(o, result)
  /\ Answer(o, CallbacksFor(result))
  /\ UNCHANGED todo

Deliver(o, i) ==
  /\ alive
  /\ main = Free
  /\ calls[o][i].net = "settled"
  /\ UpdateCall(o, i, [calls[o][i] EXCEPT !.net = "delivered"])
  /\ \/ Resume(o, calls[o][i].result)
     \/ StepUp(o, calls[o][i].result)
     \/ Conclude(o, calls[o][i].result)
  /\ UNCHANGED <<alive, request, key, clientVars>>
-----------------------------------------------------------------------------

Application ==
  \/ \E o \in Ops, a \in Apis, k \in Levels, c \in Clients, onMain \in BOOLEAN :
       Invoke(o, a, k, c, onMain)
  \/ \E c \in Clients, token \in AccessTokens : ForAccessToken(c, token)
  \/ \E c \in Clients, m \in Metadata : SetSecurityMetadata(c, m)

\* Code of the SDK that runs on the operation's current thread.
Run(o) == SignAtOnce(o) \/ SignRaises(o) \/ Prompt(o) \/ Dispatch(o)

Owner(o) ==
  \/ PromptApproved(o)
  \/ PromptRaises(o)
  \/ \E error \in SignErrors : PromptRefused(o, error)

Network(o) ==
  \E i \in DOMAIN calls[o], result \in Results : Settle(o, i, result)

MainQueue(o) == \E i \in DOMAIN calls[o] : TimerFires(o, i) \/ Deliver(o, i)

Next ==
  \/ Application
  \/ \E o \in Ops : Run(o) \/ Owner(o) \/ Network(o) \/ MainQueue(o)

\* Threads run, the owner answers a prompt, and the main queue runs its blocks.
\* Nothing is assumed of the network or of the application.
Fairness ==
  \A o \in Ops : WF_vars(Run(o)) /\ WF_vars(Owner(o)) /\ WF_vars(MainQueue(o))

Spec == Init /\ [][Next]_vars
FairSpec == Spec /\ Fairness
-----------------------------------------------------------------------------
(* Properties *)

Private(entry) == entry.cb # "global"

\* The application hears exactly once from an operation: never from one still
\* under way, and from a finished one through exactly one private callback,
\* which comes last (TKRpcErrorHandler handle:withError:, the completion
\* handlers and the early returns on a nil signature).
OneAnswer ==
  \A o \in Ops :
    /\ pc[o] # "done" => log[o] = <<>>
    /\ pc[o] = "done" =>
         /\ log[o] # <<>>
         /\ \A j \in DOMAIN log[o] : Private(log[o][j]) <=> j = Len(log[o])

\* The global callback hears an error exactly when the server rejected this
\* SDK version or developer key, once, and before the private callback does.
GlobalCallbackFirst ==
  \A o \in Ops :
    pc[o] = "done" =>
      LET answer == log[o][Len(log[o])]
      IN  IF answer.why = "clientRejected" /\ GlobalCallback
            THEN log[o] = <<Callback("global", "clientRejected"), answer>>
            ELSE Len(log[o]) = 1

\* An operation that has answered, or thrown to its caller, has nothing on the
\* wire and no handler to run: whatever timers are left cannot call back.
QuietAfterAnswer ==
  \A o \in Ops :
    pc[o] # "waiting" => \A i \in DOMAIN calls[o] : calls[o][i].net = "delivered"

\* Only its own timeout cancels a call: the timer left from an attempt that
\* was answered does not reach the attempt that followed it.
OwnTimeout ==
  \A o \in Ops : \A i \in DOMAIN calls[o] :
    calls[o][i].result = "cancelled" => calls[o][i].timer = "fired"

\* An operation that TKMember may ask again for, and what its calls then look like.
MayStepUp(o) == request[o] # Nothing /\ request[o].api \in StepUpApis

SteppedUpOnce(o) ==
  /\ Len(calls[o]) <= 2
  /\ Len(calls[o]) = 2 =>
       /\ calls[o][1].result = "moreSignatures"
       /\ calls[o][1].header.key = "Low"
       /\ calls[o][2].header.key = "Standard"
  /\ pc[o] = "done" /\ log[o][Len(log[o])].why = "moreSignatures" =>
       calls[o][Len(calls[o])].header.key # "Low"

\* The bank's request for more signatures reaches the application only when no
\* step up was left to try; a step up is made at most once, after that request,
\* from a Low to a Standard key (TKMember getBalance:withKey: and the others).
StepUpOnce == \A o \in Ops : MayStepUp(o) => SteppedUpOnce(o)

\* The member's own client never acts for somebody else, and what a copy sends
\* acts with the copy's token, though both share one TKRpc
\* (TKMember forAccessToken:, TKClient copyWithZone:).
ActsForItself ==
  \A o \in Ops : \A i \in DOMAIN calls[o] :
    calls[o][i].header.auth =>
      calls[o][i].header.onBehalfOf =
        IF request[o].client = OwnClient THEN Nothing
        ELSE onBehalfOf[request[o].client]

EndsInCall(steps) == steps # <<>> /\ steps[Len(steps)].do = "call"

\* The handler of a call will have a result, or has one.
ResultToCome(call) == call.net = "settled" \/ (call.net = "open" /\ call.timer = "armed")

GoesOn(o) ==
  /\ pc[o] \in {"running", "prompting"} => EndsInCall(todo[o])
  /\ pc[o] = "waiting" =>
       /\ calls[o] # <<>> /\ ResultToCome(calls[o][Len(calls[o])])
       /\ todo[o] = <<>> \/ EndsInCall(todo[o])

\* An operation under way waits for nothing that may never come: its code is at a
\* signature or a call, or its owner is asked for one, or its latest call has a result
\* or a timeout to come, for which TKRpc schedules one with every call.  And the main
\* thread is held by such code only.  (EveryCallAnswered rests on it.)
NeverStuck ==
  /\ main # Free => pc[main] \in {"running", "prompting"}
  /\ \A o \in Ops : GoesOn(o)

\* Every operation the application starts is answered or throws to its caller,
\* unless the process ends, whatever the network does: the timeout of each call
\* sees to it (TKRpc dispatch:request:).
EveryCallAnswered ==
  \A o \in Ops :
    pc[o] = "running" ~> (pc[o] \in {"done", "threw"} \/ ~alive)

-----------------------------------------------------------------------------
(* The inductive invariant *)

\* A call whose handler has not run is the operation's latest, and the
\* operation waits for it.
LatestCallPending ==
  \A o \in Ops : \A i \in DOMAIN calls[o] :
    calls[o][i].net # "delivered" => pc[o] = "waiting" /\ i = Len(calls[o])

\* A handler never runs without a result.
SettledHasResult ==
  \A o \in Ops : \A i \in DOMAIN calls[o] :
    calls[o][i].net # "open" => calls[o][i].result \in Results

\* An operation under way has a request, of a client that exists.
RequestKnown ==
  /\ OwnClient \in created
  /\ onBehalfOf[OwnClient] = Nothing
  /\ \A o \in Ops :
       IF pc[o] = "idle" THEN calls[o] = <<>>
       ELSE request[o] \in Requests /\ request[o].client \in created

\* A prompt is for the signature the program asks for next.
AtSign(o) == todo[o] # <<>> /\ Head(todo[o]).do = "sign"
PromptForSignature == \A o \in Ops : pc[o] = "prompting" => AtSign(o)

\* What the application can have heard of an operation: nothing before it is
\* done, then the callbacks of one result or of one refused signature.
AnswerLogs == {CallbacksFor(r) : r \in Results}
                \cup {<<Callback("error", e)>> : e \in SignErrors}
LogIsAnswer ==
  \A o \in Ops : IF pc[o] = "done" THEN log[o] \in AnswerLogs ELSE log[o] = <<>>

\* Preserved by every step.
Inductive ==
  /\ TypeOK
  /\ LatestCallPending
  /\ SettledHasResult
  /\ RequestKnown
  /\ PromptForSignature
  /\ LogIsAnswer
  /\ OwnTimeout
  /\ ActsForItself

\* Preserved too, and what StepUpOnce follows from: while the code of such an operation
\* runs it has made no call, or one that the bank wanted more signatures of, and then
\* signs with a Standard key; while it waits, its latest call has its latest key.
SteppingUp(o) ==
  /\ calls[o][1].result = "moreSignatures"
  /\ calls[o][1].header.key = "Low"
  /\ \/ todo[o] = <<Sign("Standard"), AuthCall("request")>>
     \/ todo[o] = <<AuthCall("request")>> /\ key[o] = "Standard"

OnItsPath(o) ==
  /\ SteppedUpOnce(o)
  /\ pc[o] \in {"running", "prompting"} =>
       /\ \/ todo[o] = <<AuthCall("request")>>
          \/ \E l \in Levels : todo[o] = <<Sign(l), AuthCall("request")>>
       /\ Len(calls[o]) = 0 \/ (Len(calls[o]) = 1 /\ SteppingUp(o))
  /\ pc[o] = "waiting" =>
       /\ todo[o] = <<>>
       /\ Len(calls[o]) \in {1, 2}
       /\ calls[o][Len(calls[o])].header.key = key[o]

StepUpPath == \A o \in Ops : MayStepUp(o) => OnItsPath(o)

-----------------------------------------------------------------------------
(* Refinement of CallbackOnce *)

\* The answer the application has of an operation.
StatusOf(o) ==
  IF pc[o] = "done" THEN log[o][Len(log[o])].cb
  ELSE IF pc[o] \in {"idle", "threw"} THEN pc[o]
  ELSE "pending"

status == [o \in Ops |-> StatusOf(o)]

Promise == INSTANCE CallbackOnce WITH Ops <- Ops, status <- status, alive <- alive

\* The SDK keeps the promise of CallbackOnce: each step of an operation is a
\* step of its promise or no step at all, and a promise made is kept.
KeepsPromise == Promise!FairSpec
=============================================================================
