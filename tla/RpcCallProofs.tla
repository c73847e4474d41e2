--------------------------- MODULE RpcCallProofs ---------------------------
(* Proofs about RpcCall, for any operations, methods, clients and constants. *)
EXTENDS RpcCall, SequenceTheorems, TLAPS

\* Every program is a sequence of steps, in three parts.
LEMMA PartsType ==
  ASSUME NEW a \in AllApis, NEW k \in Levels
  PROVE  /\ ReadFirst(a) \in Seq(Steps)
         /\ PayloadSignature(a, k) \in Seq(Steps)
         /\ FinalCall(a, k) \in Seq(Steps)
<1>1. \A l \in Levels : Sign(l) \in Steps
  BY DEF Sign, Steps, SignSteps
<1>2. \A r \in ReplyKinds : OpenCall(r) \in Steps /\ AuthCall(r) \in Steps
  BY DEF OpenCall, AuthCall, Steps, CallSteps
<1>3. ReadFirst(a) \in Seq(Steps)
  BY <1>2 DEF ReadFirst, ReplyKinds
<1>4. PayloadSignature(a, k) \in Seq(Steps)
  BY <1>1 DEF PayloadSignature, Levels
<1>5. FinalCall(a, k) \in Seq(Steps)
  <2>1. RequestKey(a, k) \in Levels /\ ReplyKind(a) \in ReplyKinds
    BY DEF RequestKey, ReplyKind, Levels, ReplyKinds
  <2>2. QED
    BY <1>1, <1>2, <2>1 DEF FinalCall
<1>6. QED
  BY <1>3, <1>4, <1>5

LEMMA ProgramType ==
  ASSUME NEW a \in AllApis, NEW k \in Levels
  PROVE  Program(a, k) \in Seq(Steps)
  BY PartsType DEF Program

-----------------------------------------------------------------------------
(* Type correctness *)

\* What the SDK calls back with is a sequence of callbacks.
LEMMA CallbacksType ==
  /\ \A e \in SignErrors : <<Callback("error", e)>> \in Seq(Callbacks)
  /\ \A r \in Results : CallbacksFor(r) \in Seq(Callbacks)
<1>1. \A e \in SignErrors : Callback("error", e) \in Callbacks
  BY DEF Callback, Callbacks
<1>2. \A r \in Results : Callback("global", r) \in Callbacks
                          /\ PrivateCallback(r) \in Callbacks
  BY DEF Callback, Callbacks, PrivateCallback
<1>3. QED
  BY <1>1, <1>2 DEF CallbacksFor

\* The process starts with the types of its state.
LEMMA InitType == Init => TypeOK
  BY RpcCallAssumption DEF Init, TypeOK, Places

\* No call of the application breaks them.
LEMMA ApplicationType == TypeOK /\ Application => TypeOK'
<1> SUFFICES ASSUME TypeOK, Application PROVE TypeOK'
  OBVIOUS
<1>1. ASSUME NEW o \in Ops, NEW a \in Apis, NEW k \in Levels, NEW c \in Clients,
             NEW onMain \in BOOLEAN, Invoke(o, a, k, c, onMain)
      PROVE  TypeOK'
  <2>1. Program(a, k) \in Seq(Steps)
    BY ProgramType, RpcCallAssumption
  <2>2. [api |-> a, key |-> k, client |-> c] \in Requests
    BY DEF Requests
  <2>3. QED
    BY <1>1, <2>1, <2>2 DEF Invoke, Goto, TypeOK, Places, clientVars
<1>2. ASSUME NEW c \in Clients, NEW token \in AccessTokens, ForAccessToken(c, token)
      PROVE  TypeOK'
  BY <1>2 DEF ForAccessToken, TypeOK
<1>3. ASSUME NEW c \in Clients, NEW m \in Metadata, SetSecurityMetadata(c, m)
      PROVE  TypeOK'
  BY <1>3 DEF SetSecurityMetadata, TypeOK
<1>4. QED
  BY <1>1, <1>2, <1>3 DEF Application

\* The next step of a program, and the rest of it.
LEMMA HeadTail ==
  ASSUME NEW o \in Ops, TypeOK, todo[o] # <<>>
  PROVE  Head(todo[o]) \in Steps /\ Tail(todo[o]) \in Seq(Steps)
  BY DEF TypeOK

\* What a dispatch appends to an operation's calls.
LEMMA NewCallType ==
  ASSUME TypeOK, RequestKnown, NEW o \in Ops, AtStep(o, "call")
  PROVE  /\ HeaderOf(o) \in Headers
         /\ Head(todo[o]).reply \in ReplyKinds
<1>1. Head(todo[o]) \in CallSteps
  BY HeadTail DEF AtStep, Steps, SignSteps, CallSteps
<1>2. request[o].client \in Clients /\ key[o] \in Levels \cup {Nothing}
  BY DEF AtStep, RequestKnown, Requests, TypeOK
<1>3. HeaderOf(o) \in Headers
  BY <1>1, <1>2 DEF HeaderOf, Headers, TypeOK, CallSteps
<1>4. QED
  BY <1>1, <1>3 DEF CallSteps

\* Nor does the code that signs and dispatches,
LEMMA RunType ==
  ASSUME TypeOK, RequestKnown, NEW o \in Ops, Run(o)
  PROVE  TypeOK'
<1>0. todo[o] # <<>> /\ Head(todo[o]) \in Steps /\ Tail(todo[o]) \in Seq(Steps)
  BY HeadTail DEF Run, SignAtOnce, SignRaises, Prompt, Dispatch, AtStep
<1>1. CASE SignAtOnce(o)
  BY <1>1, <1>0 DEF SignAtOnce, Signed, AtStep, TypeOK, Steps, SignSteps,
                    CallSteps, clientVars
<1>2. CASE SignRaises(o)
  BY <1>2 DEF SignRaises, Goto, ReleaseMain, TypeOK, Places, clientVars
<1>3. CASE Prompt(o)
  BY <1>3 DEF Prompt, Goto, TypeOK, Places, clientVars
<1>4. CASE Dispatch(o)
  <2>1. HeaderOf(o) \in Headers /\ Head(todo[o]).reply \in ReplyKinds
    BY <1>4, NewCallType DEF Dispatch
  <2>2. NewCall(o) \in CallRecords
    BY <2>1 DEF NewCall, NewCallWith, CallRecords
  <2>3. QED
    BY <1>4, <1>0, <2>2 DEF Dispatch, Goto, ReleaseMain, TypeOK, Places, clientVars
<1>5. QED
  BY <1>1, <1>2, <1>3, <1>4 DEF Run

\* nor an answer to a prompt, which is for a signature.
LEMMA OwnerType ==
  ASSUME TypeOK, NEW o \in Ops, Owner(o), pc[o] = "prompting" => AtSign(o)
  PROVE  TypeOK'
<1>1. CASE PromptApproved(o)
  BY <1>1, HeadTail DEF PromptApproved, Signed, Goto, TypeOK, Places, AtSign,
                        Steps, SignSteps, CallSteps, clientVars
<1>2. CASE PromptRaises(o)
  BY <1>2 DEF PromptRaises, TypeOK, clientVars
<1>3. ASSUME NEW error \in SignErrors, PromptRefused(o, error) PROVE TypeOK'
  BY <1>3, CallbacksType
     DEF PromptRefused, Answer, Goto, ReleaseMain, TypeOK, Places, clientVars
<1>4. QED
  BY <1>1, <1>2, <1>3 DEF Owner

\* What updating one call leaves of the others.
LEMMA UpdateCallType ==
  ASSUME TypeOK, NEW o \in Ops, NEW i \in DOMAIN calls[o],
         NEW call \in CallRecords, UpdateCall(o, i, call)
  PROVE  /\ calls' \in [Ops -> Seq(CallRecords)]
         /\ \A p \in Ops \ {o} : calls'[p] = calls[p]
         /\ \A p \in Ops : DOMAIN calls'[p] = DOMAIN calls[p]
                          /\ Len(calls'[p]) = Len(calls[p])
         /\ \A p \in Ops : \A j \in DOMAIN calls[p] :
              calls'[p][j] = IF p = o /\ j = i THEN call ELSE calls[p][j]
<1> DEFINE new == [calls[o] EXCEPT ![i] = call]
<1>1. calls[o] \in Seq(CallRecords)
  BY DEF TypeOK
<1>2. /\ new \in Seq(CallRecords) /\ Len(new) = Len(calls[o])
      /\ DOMAIN new = DOMAIN calls[o]
      /\ \A j \in DOMAIN calls[o] : new[j] = IF j = i THEN call ELSE calls[o][j]
  BY <1>1
<1>3. calls' = [calls EXCEPT ![o] = new]
  BY DEF UpdateCall, TypeOK
<1> HIDE DEF new
<1>4. QED
  BY <1>2, <1>3 DEF TypeOK

\* Settling a call leaves its timer and headers.
LEMMA SettledType ==
  ASSUME NEW call \in CallRecords, NEW result \in Results
  PROVE  /\ SettledWith(call, result) \in CallRecords
         /\ SettledWith(call, result).net = "settled"
         /\ SettledWith(call, result).result = result
         /\ SettledWith(call, result).timer = call.timer
         /\ SettledWith(call, result).header = call.header
  BY DEF SettledWith, CallRecords

\* Nor does what the network makes of a call,
LEMMA NetworkType ==
  ASSUME TypeOK, NEW o \in Ops, Network(o)
  PROVE  TypeOK'
<1>1. PICK i \in DOMAIN calls[o], result \in Results : Settle(o, i, result)
  BY DEF Network
<1>2. calls[o][i] \in CallRecords
  BY DEF TypeOK
<1>3. calls' \in [Ops -> Seq(CallRecords)]
  BY <1>1, <1>2, SettledType, UpdateCallType DEF Settle
<1>4. QED
  BY <1>1, <1>3 DEF Settle, TypeOK, clientVars

\* A timeout that fires leaves the rest of its call.
LEMMA FiredType ==
  ASSUME NEW call \in CallRecords
  PROVE  /\ [call EXCEPT !.timer = "fired"] \in CallRecords
         /\ [call EXCEPT !.timer = "fired"].timer = "fired"
         /\ [call EXCEPT !.timer = "fired"].net = call.net
         /\ [call EXCEPT !.timer = "fired"].result = call.result
         /\ [call EXCEPT !.timer = "fired"].header = call.header
  BY DEF CallRecords

\* Running a call's handler leaves its result, timer and headers.
LEMMA DeliveredType ==
  ASSUME NEW call \in CallRecords
  PROVE  /\ [call EXCEPT !.net = "delivered"] \in CallRecords
         /\ [call EXCEPT !.net = "delivered"].net = "delivered"
         /\ [call EXCEPT !.net = "delivered"].timer = call.timer
         /\ [call EXCEPT !.net = "delivered"].result = call.result
         /\ [call EXCEPT !.net = "delivered"].header = call.header
  BY DEF CallRecords

\* A cancelled call is in flight only if it was, and keeps its headers.
LEMMA CancelledType ==
  ASSUME NEW call \in CallRecords, NEW c \in Cancelled(call)
  PROVE  /\ c \in CallRecords
         /\ c.net = "delivered" <=> call.net = "delivered"
         /\ c.header = call.header
<1>1. "cancelled" \in Results
  BY DEF Results
<1>2. CASE c = call
  BY <1>2
<1>3. CASE c = SettledWith(call, "cancelled") /\ call.net # "delivered"
  BY <1>1, <1>3, SettledType
<1>4. QED
  BY <1>2, <1>3 DEF Cancelled

\* nor a block of the main queue, which runs a handler only with a result.
LEMMA MainQueueType ==
  ASSUME TypeOK, RequestKnown, LatestCallPending, SettledHasResult,
         NEW o \in Ops, MainQueue(o)
  PROVE  TypeOK'
<1>1. PICK i \in DOMAIN calls[o] : TimerFires(o, i) \/ Deliver(o, i)
  BY DEF MainQueue
<1>2. calls[o][i] \in CallRecords
  BY DEF TypeOK
<1>3. CASE TimerFires(o, i)
  <2>1. calls' \in [Ops -> Seq(CallRecords)]
    BY <1>2, <1>3, CancelledType, FiredType, UpdateCallType DEF TimerFires
  <2>2. QED
    BY <1>3, <2>1 DEF TimerFires, TypeOK, clientVars
<1>4. CASE Deliver(o, i)
  <2>1. calls' \in [Ops -> Seq(CallRecords)]
    BY <1>2, <1>4, DeliveredType, UpdateCallType DEF Deliver
  <2>2. calls[o][i].result \in Results
    BY <1>4 DEF Deliver, SettledHasResult
  <2>3. CASE Resume(o, calls[o][i].result)
    BY <1>4, <2>1, <2>3 DEF Deliver, Resume, Goto, TypeOK, Places, clientVars
  <2>4. CASE StepUp(o, calls[o][i].result)
    <3>1. Program(request[o].api, "Standard") \in Seq(Steps)
      BY <1>4, ProgramType, RpcCallAssumption
         DEF Deliver, LatestCallPending, RequestKnown, Requests, Levels
    <3>2. QED
      BY <1>4, <2>1, <2>4, <3>1 DEF Deliver, StepUp, Goto, TypeOK, Places, clientVars
  <2>5. CASE Conclude(o, calls[o][i].result)
    <3>1. log[o] \o CallbacksFor(calls[o][i].result) \in Seq(Callbacks)
      BY <2>2, CallbacksType DEF TypeOK
    <3>2. QED
      BY <1>4, <2>1, <2>5, <3>1
         DEF Deliver, Conclude, Answer, ReleaseMain, Goto, TypeOK, Places, clientVars
  <2>6. QED
    BY <1>4, <2>3, <2>4, <2>5 DEF Deliver
<1>5. QED
  BY <1>1, <1>3, <1>4

-----------------------------------------------------------------------------
(* The inductive invariant *)

\* The inductive invariant holds when the process starts.
LEMMA InductiveInit == Init => Inductive
<1> SUFFICES ASSUME Init PROVE Inductive
  OBVIOUS
<1>1. TypeOK
  BY InitType
<1>2. LatestCallPending /\ SettledHasResult /\ OwnTimeout /\ ActsForItself
  BY DEF Init, LatestCallPending, SettledHasResult, OwnTimeout, ActsForItself
<1>3. RequestKnown /\ PromptForSignature /\ LogIsAnswer
  BY RpcCallAssumption DEF Init, RequestKnown, PromptForSignature, LogIsAnswer
<1>4. QED
  BY <1>1, <1>2, <1>3 DEF Inductive

\* The application's calls preserve it: what exists keeps its client and token.
LEMMA ApplicationInductive ==
  ASSUME Inductive, Application
  PROVE  Inductive'
<1>1. TypeOK'
  BY ApplicationType DEF Inductive
<1>2. ASSUME NEW o \in Ops, NEW a \in Apis, NEW k \in Levels, NEW c \in Clients,
             NEW onMain \in BOOLEAN, Invoke(o, a, k, c, onMain)
      PROVE  Inductive'
  <2>1. /\ pc[o] = "idle" /\ calls[o] = <<>>
        /\ pc' = [pc EXCEPT ![o] = "running"]
        /\ request' = [request EXCEPT ![o] = [api |-> a, key |-> k, client |-> c]]
        /\ UNCHANGED <<calls, log, created, onBehalfOf>>
    BY <1>2 DEF Invoke, Goto, Inductive, RequestKnown, clientVars
  <2>2. LatestCallPending' /\ SettledHasResult' /\ OwnTimeout'
    BY <2>1 DEF Inductive, TypeOK, LatestCallPending, SettledHasResult, OwnTimeout
  <2>3. RequestKnown'
    BY <1>2, <2>1 DEF Inductive, TypeOK, RequestKnown, Requests, Invoke
  <2>4. ActsForItself'
    BY <2>1 DEF Inductive, TypeOK, ActsForItself
  <2>5. PromptForSignature'
    BY <1>2, <2>1 DEF Inductive, TypeOK, PromptForSignature, AtSign, Invoke
  <2>6. LogIsAnswer'
    BY <2>1 DEF Inductive, TypeOK, LogIsAnswer
  <2>7. QED
    BY <1>1, <2>2, <2>3, <2>4, <2>5, <2>6 DEF Inductive
<1>3. ASSUME NEW c \in Clients, NEW token \in AccessTokens, ForAccessToken(c, token)
      PROVE  Inductive'
  <2>1. LatestCallPending' /\ SettledHasResult' /\ OwnTimeout' /\ LogIsAnswer'
        /\ PromptForSignature'
    BY <1>3 DEF ForAccessToken, Inductive, LatestCallPending, SettledHasResult,
                OwnTimeout, LogIsAnswer, PromptForSignature, AtSign
  <2>2. RequestKnown'
    BY <1>3 DEF ForAccessToken, Inductive, RequestKnown, TypeOK
  <2>3. ActsForItself'
    BY <1>3 DEF ForAccessToken, Inductive, RequestKnown, ActsForItself, TypeOK
  <2>4. QED
    BY <1>1, <2>1, <2>2, <2>3 DEF Inductive
<1>4. ASSUME NEW c \in Clients, NEW m \in Metadata, SetSecurityMetadata(c, m)
      PROVE  Inductive'
  BY <1>1, <1>4 DEF SetSecurityMetadata, Inductive, LatestCallPending, RequestKnown,
       SettledHasResult, OwnTimeout, LogIsAnswer, PromptForSignature, AtSign,
       ActsForItself
<1>5. QED
  BY <1>2, <1>3, <1>4 DEF Application

\* The signing and dispatching code preserves it: a dispatch follows the handlers
\* of all earlier calls of its operation.
LEMMA RunInductive ==
  ASSUME Inductive, NEW o \in Ops, Run(o)
  PROVE  Inductive'
<1>1. TypeOK'
  BY RunType DEF Inductive
<1>2. TypeOK /\ pc[o] = "running" /\ todo[o] # <<>>
  BY DEF Inductive, Run, SignAtOnce, SignRaises, Prompt, Dispatch, AtStep
<1>3. CASE SignAtOnce(o) \/ SignRaises(o) \/ Prompt(o)
  <2>1. /\ UNCHANGED <<calls, log, request, created, onBehalfOf>>
        /\ \E place \in {"running", "threw", "prompting"} :
             pc' = [pc EXCEPT ![o] = place]
    BY <1>2, <1>3
       DEF SignAtOnce, SignRaises, Prompt, Goto, clientVars, TypeOK
  <2>2. LatestCallPending' /\ SettledHasResult' /\ OwnTimeout' /\ ActsForItself'
    BY <1>2, <2>1 DEF Inductive, TypeOK, LatestCallPending, SettledHasResult,
                      OwnTimeout, ActsForItself
  <2>3. RequestKnown' /\ LogIsAnswer'
    BY <1>2, <2>1 DEF Inductive, TypeOK, RequestKnown, LogIsAnswer
  <2>4. PromptForSignature'
    BY <1>2, <1>3 DEF Inductive, TypeOK, PromptForSignature, AtSign, SignAtOnce,
                      SignRaises, Prompt, Goto, Signed, AtStep
  <2>5. QED
    BY <1>1, <2>2, <2>3, <2>4 DEF Inductive
<1>4. CASE Dispatch(o)
  <2> DEFINE call == NewCall(o)
  <2>1. call \in CallRecords
    BY <1>4, NewCallType DEF Dispatch, Inductive, NewCall, NewCallWith, CallRecords
  <2>2. /\ calls' = [calls EXCEPT ![o] = Append(@, call)]
        /\ pc' = [pc EXCEPT ![o] = "waiting"]
        /\ todo' = [todo EXCEPT ![o] = Tail(@)]
        /\ UNCHANGED <<log, request, created, onBehalfOf>>
    BY <1>4 DEF Dispatch, Goto, clientVars
  <2>3. call.net = "open" /\ call.result = Nothing /\ call.header = HeaderOf(o)
    BY DEF NewCall, NewCallWith
  <2> HIDE DEF call
  <2>4. /\ \A p \in Ops \ {o} : calls'[p] = calls[p] /\ pc'[p] = pc[p]
        /\ Len(calls'[o]) = Len(calls[o]) + 1
        /\ DOMAIN calls[o] = 1 .. Len(calls[o])
        /\ DOMAIN calls'[o] = 1 .. Len(calls'[o])
        /\ \A i \in DOMAIN calls'[o] :
             IF i = Len(calls'[o]) THEN calls'[o][i] = call
             ELSE i \in DOMAIN calls[o] /\ calls'[o][i] = calls[o][i]
        /\ pc'[o] = "waiting"
    BY <1>2, <2>1, <2>2 DEF TypeOK
  <2>5. LatestCallPending'
    BY <1>2, <2>4 DEF Inductive, LatestCallPending
  <2>6. SettledHasResult' /\ OwnTimeout'
    BY <2>3, <2>4, NoResultAssumption
       DEF Inductive, SettledHasResult, OwnTimeout, Results
  <2>7. RequestKnown' /\ PromptForSignature' /\ LogIsAnswer'
    BY <1>2, <2>2, <2>4 DEF Inductive, TypeOK, RequestKnown, PromptForSignature,
                            AtSign, LogIsAnswer
  <2>8. HeaderOf(o).auth =>
          HeaderOf(o).onBehalfOf = IF request[o].client = OwnClient THEN Nothing
                                   ELSE onBehalfOf[request[o].client]
    BY <1>2 DEF HeaderOf, Inductive, RequestKnown
  <2>9. ActsForItself'
    BY <2>2, <2>3, <2>4, <2>8 DEF Inductive, ActsForItself
  <2>10. QED
    BY <1>1, <2>5, <2>6, <2>7, <2>9 DEF Inductive
<1>5. QED
  BY <1>3, <1>4 DEF Run

\* An answer to a prompt preserves it: a refusal is the only callback.
LEMMA OwnerInductive ==
  ASSUME Inductive, NEW o \in Ops, Owner(o)
  PROVE  Inductive'
<1>1. TypeOK'
  BY OwnerType DEF Inductive, PromptForSignature
<1>2. TypeOK /\ pc[o] = "prompting" /\ log[o] = <<>>
  BY DEF Inductive, Owner, PromptApproved, PromptRaises, PromptRefused, LogIsAnswer
<1>3. UNCHANGED <<calls, request, created, onBehalfOf>>
  BY DEF Owner, PromptApproved, PromptRaises, PromptRefused, clientVars
<1>4. \E place \in {"running", "prompting", "done"} : pc' = [pc EXCEPT ![o] = place]
  BY <1>2 DEF Owner, PromptApproved, PromptRaises, PromptRefused, Answer, Goto, TypeOK
<1>5. LatestCallPending' /\ SettledHasResult' /\ OwnTimeout' /\ ActsForItself'
  BY <1>2, <1>3, <1>4 DEF Inductive, TypeOK, LatestCallPending, SettledHasResult,
                          OwnTimeout, ActsForItself
<1>6. RequestKnown'
  BY <1>2, <1>3, <1>4 DEF Inductive, TypeOK, RequestKnown
<1>7. PromptForSignature'
  BY <1>2 DEF Inductive, TypeOK, PromptForSignature, AtSign, Owner, PromptApproved,
              PromptRaises, PromptRefused, Answer, Signed, Goto
<1>8. LogIsAnswer'
  <2>1. CASE PromptApproved(o) \/ PromptRaises(o)
    BY <1>2, <2>1 DEF Inductive, TypeOK, LogIsAnswer, PromptApproved, PromptRaises, Goto
  <2>2. ASSUME NEW e \in SignErrors, PromptRefused(o, e) PROVE LogIsAnswer'
    <3>1. log' = [log EXCEPT ![o] = <<>> \o <<Callback("error", e)>>]
          /\ pc' = [pc EXCEPT ![o] = "done"]
      BY <1>2, <2>2 DEF PromptRefused, Answer, Goto
    <3>2. <<>> \o <<Callback("error", e)>> = <<Callback("error", e)>>
      BY CallbacksType
    <3>3. <<Callback("error", e)>> \in AnswerLogs
      BY DEF AnswerLogs
    <3>4. QED
      BY <3>1, <3>2, <3>3 DEF Inductive, TypeOK, LogIsAnswer
  <2>3. QED
    BY <2>1, <2>2 DEF Owner
<1>9. QED
  BY <1>1, <1>5, <1>6, <1>7, <1>8 DEF Inductive

\* What the calls of an operation have in common before and after an update
\* that keeps the headers and never sends a delivered call again.
LEMMA UpdateInductive ==
  ASSUME Inductive, NEW o \in Ops, NEW i \in DOMAIN calls[o],
         NEW call \in CallRecords, UpdateCall(o, i, call),
         call.header = calls[o][i].header,
         call.net # "open" => call.result \in Results,
         call.result = "cancelled" => call.timer = "fired",
         UNCHANGED <<request, onBehalfOf>>
  PROVE  SettledHasResult' /\ OwnTimeout' /\ ActsForItself'
<1>1. TypeOK
  BY DEF Inductive
<1>2. \A p \in Ops :
        /\ DOMAIN calls'[p] = DOMAIN calls[p]
        /\ \A j \in DOMAIN calls[p] :
             calls'[p][j] = IF p = o /\ j = i THEN call ELSE calls[p][j]
  BY <1>1, UpdateCallType
<1>3. SettledHasResult' /\ OwnTimeout'
  BY <1>2 DEF Inductive, SettledHasResult, OwnTimeout
<1>4. ActsForItself'
  BY <1>2 DEF Inductive, ActsForItself
<1>5. QED
  BY <1>3, <1>4

\* The network preserves it: it settles only the call the operation waits for.
LEMMA NetworkInductive ==
  ASSUME Inductive, NEW o \in Ops, Network(o)
  PROVE  Inductive'
<1>1. TypeOK /\ TypeOK'
  BY NetworkType DEF Inductive
<1>2. PICK i \in DOMAIN calls[o], result \in Results : Settle(o, i, result)
  BY DEF Network
<1> DEFINE call == SettledWith(calls[o][i], result)
<1>3. /\ calls[o][i] \in CallRecords /\ calls[o][i].net = "open"
      /\ UpdateCall(o, i, call)
      /\ UNCHANGED <<pc, request, todo, log, created, onBehalfOf>>
  BY <1>1, <1>2 DEF Settle, TypeOK, clientVars
<1>4. result # "cancelled"
  BY <1>2 DEF Settle, Answers, RpcErrors
<1>5. /\ call \in CallRecords /\ call.header = calls[o][i].header
      /\ call.result = result /\ call.net = "settled"
  BY <1>3, SettledType
<1> HIDE DEF call
<1>6. SettledHasResult' /\ OwnTimeout' /\ ActsForItself'
  BY <1>3, <1>4, <1>5, UpdateInductive
<1>7. LatestCallPending'
  BY <1>1, <1>3, <1>5, UpdateCallType DEF Inductive, LatestCallPending
<1>8. RequestKnown'
  BY <1>1, <1>3, <1>5, UpdateCallType DEF Inductive, RequestKnown, TypeOK
<1>9. PromptForSignature' /\ LogIsAnswer'
  BY <1>3 DEF Inductive, PromptForSignature, AtSign, LogIsAnswer
<1>10. QED
  BY <1>1, <1>6, <1>7, <1>8, <1>9 DEF Inductive

\* A timeout preserves it, however late it fires: it cancels its own call alone.
LEMMA TimerInductive ==
  ASSUME Inductive, NEW o \in Ops, NEW i \in DOMAIN calls[o], TimerFires(o, i)
  PROVE  Inductive'
<1>1. TypeOK /\ calls[o][i] \in CallRecords
  BY DEF Inductive, TypeOK
<1>2. TypeOK'
  BY MainQueueType DEF MainQueue, Inductive
<1>3. PICK c \in Cancelled(calls[o][i]) :
        UpdateCall(o, i, [c EXCEPT !.timer = "fired"])
  BY DEF TimerFires
<1> DEFINE call == [c EXCEPT !.timer = "fired"]
<1>4. UNCHANGED <<pc, request, todo, log, created, onBehalfOf>>
  BY DEF TimerFires, clientVars
<1>5. /\ c \in CallRecords /\ c.header = calls[o][i].header
      /\ c.net = "delivered" <=> calls[o][i].net = "delivered"
      /\ c.net # "open" => c.result \in Results
  <2>1. c.net # "open" => c.result \in Results
    <3>1. c = calls[o][i] => (c.net # "open" => c.result \in Results)
      BY DEF Inductive, SettledHasResult
    <3>2. c = SettledWith(calls[o][i], "cancelled") => c.result \in Results
      BY <1>1, SettledType DEF Results
    <3>3. QED
      BY <3>1, <3>2 DEF Cancelled
  <2>2. QED
    BY <1>1, <2>1, CancelledType
<1>6. /\ call \in CallRecords /\ call.header = calls[o][i].header
      /\ call.timer = "fired"
      /\ call.net = "delivered" <=> calls[o][i].net = "delivered"
      /\ call.net # "open" => call.result \in Results
  BY <1>5, FiredType
<1>7. UpdateCall(o, i, call)
  BY <1>3
<1> HIDE DEF call
<1>8. SettledHasResult' /\ OwnTimeout' /\ ActsForItself'
  BY <1>4, <1>6, <1>7, UpdateInductive
<1>9. LatestCallPending' /\ RequestKnown'
  <2>1. /\ \A p \in Ops \ {o} : calls'[p] = calls[p]
        /\ DOMAIN calls'[o] = DOMAIN calls[o] /\ Len(calls'[o]) = Len(calls[o])
        /\ \A j \in DOMAIN calls[o] :
             calls'[o][j] = IF j = i THEN call ELSE calls[o][j]
    BY <1>1, <1>6, <1>7, UpdateCallType
  <2>2. LatestCallPending'
    BY <1>4, <1>6, <2>1 DEF Inductive, LatestCallPending
  <2>3. pc[o] # "idle"
    BY <1>1 DEF Inductive, RequestKnown, TypeOK
  <2>4. RequestKnown'
    BY <1>4, <2>1, <2>3 DEF Inductive, RequestKnown
  <2>5. QED
    BY <2>2, <2>4
<1>10. PromptForSignature' /\ LogIsAnswer'
  BY <1>4 DEF Inductive, PromptForSignature, AtSign, LogIsAnswer
<1>11. QED
  BY <1>2, <1>8, <1>9, <1>10 DEF Inductive

\* A handler preserves it: it ran for the latest call, so no other is left.
LEMMA DeliverInductive ==
  ASSUME Inductive, NEW o \in Ops, NEW i \in DOMAIN calls[o], Deliver(o, i)
  PROVE  Inductive'
<1> DEFINE call == [calls[o][i] EXCEPT !.net = "delivered"]
           result == calls[o][i].result
<1>1. /\ TypeOK /\ calls[o][i] \in CallRecords
      /\ calls[o][i].net = "settled" /\ UpdateCall(o, i, call)
      /\ UNCHANGED <<request, created, onBehalfOf>>
  BY DEF Inductive, TypeOK, Deliver, clientVars
<1>2. TypeOK'
  BY MainQueueType DEF MainQueue, Inductive
<1>3. /\ pc[o] = "waiting" /\ i = Len(calls[o]) /\ result \in Results
      /\ log[o] = <<>>
  BY <1>1 DEF Inductive, LatestCallPending, SettledHasResult, LogIsAnswer
<1>4. /\ call \in CallRecords /\ call.header = calls[o][i].header
      /\ call.timer = calls[o][i].timer /\ call.result = result
      /\ call.net = "delivered"
  BY <1>1, DeliveredType
<1>5. result = "cancelled" => calls[o][i].timer = "fired"
  BY DEF Inductive, OwnTimeout
<1>6. \E place \in {"running", "done"} : pc' = [pc EXCEPT ![o] = place]
  BY <1>1 DEF Deliver, Resume, StepUp, Conclude, Answer, Goto
<1> HIDE DEF call, result
<1>7. SettledHasResult' /\ OwnTimeout' /\ ActsForItself'
  BY <1>1, <1>3, <1>4, <1>5, UpdateInductive
<1>8. LatestCallPending'
  <2>1. \A j \in DOMAIN calls[o] : j # i => calls[o][j].net = "delivered"
    BY <1>1, <1>3 DEF Inductive, TypeOK, LatestCallPending, CallRecords
  <2>2. QED
    BY <1>1, <1>4, <1>6, <2>1, UpdateCallType
       DEF Inductive, TypeOK, LatestCallPending
<1>9. RequestKnown'
  <2>1. pc'[o] # "idle" /\ \A p \in Ops \ {o} : pc'[p] = pc[p] /\ calls'[p] = calls[p]
    BY <1>1, <1>4, <1>6, UpdateCallType DEF TypeOK
  <2>2. QED
    BY <1>1, <1>3, <2>1 DEF Inductive, RequestKnown
<1>10. PromptForSignature'
  BY <1>1, <1>3, <1>6 DEF Inductive, TypeOK, PromptForSignature, AtSign, Deliver,
                          Resume, StepUp, Conclude
<1>11. LogIsAnswer'
  <2>1. CASE Resume(o, result) \/ StepUp(o, result)
    BY <1>1, <1>3, <2>1 DEF Inductive, TypeOK, LogIsAnswer, Resume, StepUp, Goto
  <2>2. CASE Conclude(o, result)
    <3>1. log' = [log EXCEPT ![o] = <<>> \o CallbacksFor(result)]
          /\ pc' = [pc EXCEPT ![o] = "done"]
      BY <1>3, <2>2 DEF Conclude, Answer, Goto
    <3>2. <<>> \o CallbacksFor(result) = CallbacksFor(result)
      BY <1>3, CallbacksType
    <3>3. CallbacksFor(result) \in AnswerLogs
      BY <1>3 DEF AnswerLogs
    <3>4. QED
      BY <1>1, <3>1, <3>2, <3>3 DEF Inductive, TypeOK, LogIsAnswer
  <2>3. QED
    BY <2>1, <2>2 DEF Deliver, result
<1>12. QED
  BY <1>2, <1>7, <1>8, <1>9, <1>10, <1>11 DEF Inductive

\* Every reachable state of the SDK satisfies the inductive invariant.
THEOREM InductiveInvariant == Spec => []Inductive
<1>1. Init => Inductive
  BY InductiveInit
<1>2. Inductive /\ [Next]_vars => Inductive'
  <2> SUFFICES ASSUME Inductive, [Next]_vars PROVE Inductive'
    OBVIOUS
  <2>1. CASE Application
    BY <2>1, ApplicationInductive
  <2>2. ASSUME NEW o \in Ops, Run(o) PROVE Inductive'
    BY <2>2, RunInductive
  <2>3. ASSUME NEW o \in Ops, Owner(o) PROVE Inductive'
    BY <2>3, OwnerInductive
  <2>4. ASSUME NEW o \in Ops, Network(o) PROVE Inductive'
    BY <2>4, NetworkInductive
  <2>5. ASSUME NEW o \in Ops, MainQueue(o) PROVE Inductive'
    BY <2>5, TimerInductive, DeliverInductive DEF MainQueue
  <2>6. CASE UNCHANGED vars
    BY <2>6 DEF vars, clientVars, Inductive, TypeOK, LatestCallPending,
       SettledHasResult, RequestKnown, PromptForSignature, AtSign, LogIsAnswer,
       OwnTimeout, ActsForItself
  <2>7. QED
    BY <2>1, <2>2, <2>3, <2>4, <2>5, <2>6 DEF Next
<1>3. QED
  BY <1>1, <1>2, PTL DEF Spec
-----------------------------------------------------------------------------
(* The properties *)

\* What every answer looks like: one private callback, which comes last, alone
\* or after the global one when the server rejected the client.
LEMMA AnswerForm ==
  ASSUME NEW answer \in AnswerLogs
  PROVE  /\ DOMAIN answer = 1 .. Len(answer)
         /\ answer[Len(answer)].cb \in {"success", "error", "authRequired"}
         /\ IF answer[Len(answer)].why = "clientRejected" /\ GlobalCallback
              THEN /\ Len(answer) = 2
                   /\ answer = <<Callback("global", "clientRejected"), answer[2]>>
                   /\ answer[1].cb = "global"
              ELSE Len(answer) = 1
<1>1. \A r \in Results : /\ PrivateCallback(r).cb \in {"success", "error", "authRequired"}
                          /\ PrivateCallback(r).why = r
  BY DEF PrivateCallback, Callback
<1>2. ASSUME NEW e \in SignErrors, answer = <<Callback("error", e)>>
      PROVE  Len(answer) = 1 /\ DOMAIN answer = 1 .. 1 /\ answer[1].cb = "error"
             /\ answer[1].why # "clientRejected"
  BY <1>2 DEF Callback, SignErrors
<1>3. ASSUME NEW r \in Results, answer = CallbacksFor(r),
             r = "clientRejected" /\ GlobalCallback
      PROVE  /\ Len(answer) = 2 /\ DOMAIN answer = 1 .. 2
             /\ answer[1] = Callback("global", "clientRejected")
             /\ answer[1].cb = "global"
             /\ answer[2] = PrivateCallback(r)
             /\ answer = <<Callback("global", "clientRejected"), answer[2]>>
  <2>1. answer = <<Callback("global", "clientRejected"), PrivateCallback(r)>>
    BY <1>3 DEF CallbacksFor
  <2>2. Callback("global", "clientRejected").cb = "global"
    BY DEF Callback
  <2>3. QED
    BY <2>1, <2>2
<1>4. ASSUME NEW r \in Results, answer = CallbacksFor(r),
             ~(r = "clientRejected" /\ GlobalCallback)
      PROVE  Len(answer) = 1 /\ DOMAIN answer = 1 .. 1 /\ answer[1] = PrivateCallback(r)
  BY <1>4 DEF CallbacksFor
<1>5. CASE \E r \in Results : answer = CallbacksFor(r)
  BY <1>1, <1>3, <1>4, <1>5
<1>6. CASE \E e \in SignErrors : answer = <<Callback("error", e)>>
  BY <1>2, <1>6
<1>7. QED
  BY <1>5, <1>6 DEF AnswerLogs

\* The process and the types of its state, whatever the application, the owner
\* of the device and the network do.
THEOREM TypeCorrect == Spec => []TypeOK
  BY InductiveInvariant, PTL DEF Inductive

\* No operation answers twice, answers before it ends, or ends in silence.
THEOREM AnsweredOnce == Spec => []OneAnswer
<1>1. Inductive => OneAnswer
  <2> SUFFICES ASSUME Inductive, NEW o \in Ops, pc[o] = "done"
               PROVE  /\ log[o] # <<>>
                      /\ \A j \in DOMAIN log[o] : Private(log[o][j]) <=> j = Len(log[o])
    BY DEF Inductive, LogIsAnswer, OneAnswer
  <2>1. log[o] \in AnswerLogs
    BY DEF Inductive, LogIsAnswer
  <2>2. Len(log[o]) \in {1, 2} /\ DOMAIN log[o] = 1 .. Len(log[o])
    BY <2>1, AnswerForm
  <2>3. log[o][Len(log[o])].cb # "global" /\ (Len(log[o]) = 2 => log[o][1].cb = "global")
    BY <2>1, AnswerForm
  <2>4. QED
    BY <2>2, <2>3 DEF Private
<1>2. QED
  BY <1>1, InductiveInvariant, PTL

\* The global error callback is told of a rejected client, before the private
\* one, and of nothing else.
THEOREM GlobalToldFirst == Spec => []GlobalCallbackFirst
<1>1. Inductive => GlobalCallbackFirst
  <2> SUFFICES ASSUME Inductive, NEW o \in Ops, pc[o] = "done"
               PROVE  LET answer == log[o][Len(log[o])]
                      IN  IF answer.why = "clientRejected" /\ GlobalCallback
                          THEN log[o] = <<Callback("global", "clientRejected"), answer>>
                          ELSE Len(log[o]) = 1
    BY DEF GlobalCallbackFirst
  <2>1. log[o] \in AnswerLogs
    BY DEF Inductive, LogIsAnswer
  <2>2. QED
    BY <2>1, AnswerForm
<1>2. QED
  BY <1>1, InductiveInvariant, PTL

\* What has answered has nothing left that could call back.
THEOREM QuietOnceAnswered == Spec => []QuietAfterAnswer
<1>1. Inductive => QuietAfterAnswer
  BY DEF Inductive, LatestCallPending, QuietAfterAnswer
<1>2. QED
  BY <1>1, InductiveInvariant, PTL

\* A timeout left behind by an answered call cancels no other.
THEOREM CancelledByOwnTimeout == Spec => []OwnTimeout
  BY InductiveInvariant, PTL DEF Inductive

\* No access token leaks into the calls of the member's own client.
THEOREM EachClientForItself == Spec => []ActsForItself
  BY InductiveInvariant, PTL DEF Inductive

-----------------------------------------------------------------------------
(* Step up *)

\* The program of a method that may step up.
LEMMA StepUpProgram ==
  ASSUME NEW a \in StepUpApis, NEW k \in Levels
  PROVE  Program(a, k) = <<Sign(k), AuthCall("request")>>
<1>1. a \notin ChainUpdates \cup OpenApis
  BY DEF StepUpApis, BalanceReads, TransactionReads, StandingOrderReads, ChainUpdates,
         OpenApis, MemberLookups, BankLookups, OpenNotifications, RecoveryRequests,
         RecoveryAuthorizations, OpenUpdates
<1>2. ReadFirst(a) = <<>>
  BY <1>1 DEF ReadFirst
<1>3. PayloadSignature(a, k) = <<>>
  BY DEF PayloadSignature, StepUpApis, BalanceReads, TransactionReads,
         StandingOrderReads, ChainUpdates, OpenUpdates, BeneficiaryUpdates,
         Cancellations, Replacements, Redemptions, AddressAdditions, Endorsements,
         SignedTokenCreations
<1>4. RequestKey(a, k) = k /\ ReplyKind(a) = "request"
  BY DEF RequestKey, ReplyKind, StepUpApis, BalanceReads, TransactionReads,
         StandingOrderReads, DeleteMember, ScaCalls, RecoveryAuthorizations,
         OauthLinkings, Redemptions
<1>5. FinalCall(a, k) = <<Sign(k), AuthCall("request")>>
  BY <1>1, <1>4 DEF FinalCall
<1>6. QED
  BY <1>2, <1>3, <1>5 DEF Program

\* What is left of it after a signature, and after its call.
LEMMA StepUpSteps ==
  ASSUME NEW l \in Levels
  PROVE  /\ Head(<<Sign(l), AuthCall("request")>>) = Sign(l)
         /\ Tail(<<Sign(l), AuthCall("request")>>) = <<AuthCall("request")>>
         /\ Head(<<AuthCall("request")>>) = AuthCall("request")
         /\ Tail(<<AuthCall("request")>>) = <<>>
         /\ Sign(l).do = "sign" /\ Sign(l).key = l
         /\ AuthCall("request").do = "call" /\ AuthCall("request").auth
         /\ <<Sign(l), AuthCall("request")>> # <<AuthCall("request")>>
         /\ <<Sign(l), AuthCall("request")>> # <<>>
         /\ <<AuthCall("request")>> # <<>>
<1>1. /\ Sign(l).do = "sign" /\ Sign(l).key = l
      /\ AuthCall("request").do = "call" /\ AuthCall("request").auth
  BY DEF Sign, AuthCall
<1>2. ASSUME NEW s, NEW t
      PROVE  /\ Head(<<s, t>>) = s /\ Tail(<<s, t>>) = <<t>>
             /\ Head(<<t>>) = t /\ Tail(<<t>>) = <<>>
  OBVIOUS
<1>3. ASSUME NEW s, NEW t
      PROVE  /\ Len(<<s, t>>) = 2 /\ Len(<<t>>) = 1 /\ Len(<<>>) = 0
  OBVIOUS
<1>4. ASSUME NEW s, NEW t
      PROVE  <<s, t>> # <<t>> /\ <<s, t>> # <<>> /\ <<t>> # <<>>
  <2>1. Len(<<s, t>>) = 2 /\ Len(<<t>>) = 1 /\ Len(<<>>) = 0
    BY <1>3
  <2>2. QED
    BY <2>1
<1>5. QED
  BY <1>1, <1>2, <1>4

\* Nothing of an operation's path changes with the steps of another.
LEMMA PathKept ==
  ASSUME NEW o \in Ops, OnItsPath(o),
         UNCHANGED <<pc[o], key[o], todo[o], calls[o], log[o]>>
  PROVE  OnItsPath(o)'
  BY DEF OnItsPath, SteppedUpOnce, SteppingUp

\* A step of one operation keeps the paths of all if it keeps its own.
LEMMA OtherPaths ==
  ASSUME StepUpPath, NEW o \in Ops, UNCHANGED request,
         MayStepUp(o) => OnItsPath(o)',
         \A p \in Ops \ {o} :
           UNCHANGED <<pc[p], key[p], todo[p], calls[p], log[p]>>
  PROVE  StepUpPath'
<1> SUFFICES ASSUME NEW p \in Ops, MayStepUp(p)' PROVE OnItsPath(p)'
  BY DEF StepUpPath
<1>1. MayStepUp(p)
  BY DEF MayStepUp
<1>2. CASE p = o
  BY <1>1, <1>2
<1>3. CASE p # o
  BY <1>1, <1>3, PathKept DEF StepUpPath
<1>4. QED
  BY <1>2, <1>3

\* The application's calls: an operation begins with its whole program.
LEMMA ApplicationPath ==
  ASSUME Inductive, StepUpPath, Application
  PROVE  StepUpPath'
<1>1. ASSUME NEW o \in Ops, NEW a \in Apis, NEW k \in Levels, NEW c \in Clients,
             NEW onMain \in BOOLEAN, Invoke(o, a, k, c, onMain)
      PROVE  StepUpPath'
  <2> SUFFICES ASSUME NEW p \in Ops, MayStepUp(p)' PROVE OnItsPath(p)'
    BY DEF StepUpPath
  <2>1. /\ calls[o] = <<>> /\ calls' = calls /\ log' = log /\ key' = key
        /\ pc' = [pc EXCEPT ![o] = "running"]
        /\ todo' = [todo EXCEPT ![o] = Program(a, k)]
        /\ request' = [request EXCEPT ![o] = [api |-> a, key |-> k, client |-> c]]
    BY <1>1 DEF Invoke, Goto, Inductive, RequestKnown
  <2>2. CASE p = o
    <3>1. a \in StepUpApis
      BY <2>1, <2>2 DEF MayStepUp, Inductive, TypeOK
    <3>2. todo'[p] = <<Sign(k), AuthCall("request")>> /\ pc'[p] = "running"
      BY <2>1, <2>2, <3>1, StepUpProgram DEF Inductive, TypeOK
    <3>3. Len(calls'[p]) = 0
      BY <2>1, <2>2
    <3>4. QED
      BY <3>2, <3>3 DEF OnItsPath, SteppedUpOnce
  <2>3. CASE p # o
    <3>1. MayStepUp(p)
      BY <2>1, <2>3 DEF MayStepUp, Inductive, TypeOK
    <3>2. UNCHANGED <<pc[p], key[p], todo[p], calls[p], log[p]>>
      BY <2>1, <2>3 DEF Inductive, TypeOK
    <3>3. QED
      BY <3>1, <3>2, PathKept DEF StepUpPath
  <2>4. QED
    BY <2>2, <2>3
<1>2. ASSUME UNCHANGED <<pc, key, todo, calls, log, request>> PROVE StepUpPath'
  BY <1>2, PathKept DEF StepUpPath, MayStepUp
<1>3. QED
  BY <1>1, <1>2 DEF Application, ForAccessToken, SetSecurityMetadata

\* A signature is by the key its program asks for.
LEMMA SignedPath ==
  ASSUME Inductive, StepUpPath, NEW o \in Ops, MayStepUp(o),
         pc[o] \in {"running", "prompting"}, AtSign(o), Signed(o), pc'[o] = "running",
         UNCHANGED <<calls, log>>
  PROVE  OnItsPath(o)'
<1>1. OnItsPath(o) /\ TypeOK
  BY DEF StepUpPath, Inductive
<1>2. PICK l \in Levels : todo[o] = <<Sign(l), AuthCall("request")>>
  <2>1. "Low" \in Levels
    BY DEF Levels
  <2>2. todo[o] # <<AuthCall("request")>>
    BY <2>1, StepUpSteps DEF AtSign
  <2>3. QED
    BY <1>1, <2>2 DEF OnItsPath
<1>3. todo'[o] = <<AuthCall("request")>> /\ key'[o] = l
  BY <1>1, <1>2, StepUpSteps DEF Signed, TypeOK
<1>4. Len(calls[o]) = 1 => l = "Standard"
  <2>1. SUFFICES ASSUME Len(calls[o]) = 1 PROVE l = "Standard"
    OBVIOUS
  <2>2. SteppingUp(o)
    BY <1>1, <2>1 DEF OnItsPath
  <2>3. todo[o] = <<Sign("Standard"), AuthCall("request")>>
    BY <1>2, <2>2, StepUpSteps DEF SteppingUp
  <2>4. Sign("Standard") = Sign(l)
    BY <1>2, <2>3
  <2>5. QED
    BY <2>4 DEF Sign
<1>5. Len(calls[o]) = 0 \/ (Len(calls[o]) = 1 /\ SteppingUp(o))
  BY <1>1 DEF OnItsPath
<1>6. Len(calls'[o]) = 0 \/ (Len(calls'[o]) = 1 /\ SteppingUp(o)')
  BY <1>3, <1>4, <1>5 DEF SteppingUp
<1>7. SteppedUpOnce(o)'
  BY <1>1 DEF OnItsPath, SteppedUpOnce
<1>8. QED
  BY <1>3, <1>6, <1>7 DEF OnItsPath

\* The code that signs and dispatches: a call takes the latest key with it.
LEMMA RunPath ==
  ASSUME Inductive, StepUpPath, NEW o \in Ops, Run(o)
  PROVE  StepUpPath'
<1>1. TypeOK /\ UNCHANGED <<request, log>> /\ pc[o] = "running"
  BY DEF Inductive, Run, SignAtOnce, SignRaises, Prompt, Dispatch, AtStep
<1>2. \A p \in Ops \ {o} :
        UNCHANGED <<pc[p], key[p], todo[p], calls[p], log[p]>>
  BY <1>1 DEF Run, SignAtOnce, SignRaises, Prompt, Dispatch, Goto, Signed, TypeOK
<1> SUFFICES ASSUME MayStepUp(o) PROVE OnItsPath(o)'
  BY <1>1, <1>2, OtherPaths
<1>3. OnItsPath(o)
  BY DEF StepUpPath
<1>4. CASE SignAtOnce(o)
  BY <1>1, <1>4, SignedPath DEF SignAtOnce, AtStep, AtSign
<1>5. CASE SignRaises(o) \/ Prompt(o)
  <2>1. pc'[o] \in {"running", "threw", "prompting"}
        /\ UNCHANGED <<key, todo, calls, log>>
    BY <1>1, <1>5 DEF SignRaises, Prompt, Goto, TypeOK
  <2>2. QED
    BY <1>1, <1>3, <2>1 DEF OnItsPath, SteppedUpOnce, SteppingUp
<1>6. CASE Dispatch(o)
  <2>1. todo[o] = <<AuthCall("request")>>
    BY <1>1, <1>3, <1>6, StepUpSteps DEF OnItsPath, Dispatch, AtStep
  <2>2. Head(todo[o]).auth /\ Tail(todo[o]) = <<>>
    BY <2>1, StepUpSteps DEF Levels
  <2>3. HeaderOf(o).key = key[o]
    BY <2>2 DEF HeaderOf
  <2> DEFINE call == NewCall(o)
  <2>4. call \in CallRecords /\ call.header.key = key[o]
    BY <1>6, <2>3, NewCallType
       DEF Dispatch, Inductive, NewCall, NewCallWith, CallRecords
  <2>5. /\ calls' = [calls EXCEPT ![o] = Append(@, call)]
        /\ pc'[o] = "waiting" /\ todo'[o] = <<>> /\ key' = key
    BY <1>1, <1>6, <2>2 DEF Dispatch, Goto, TypeOK
  <2> HIDE DEF call
  <2>6. /\ calls[o] \in Seq(CallRecords)
        /\ calls'[o] = Append(calls[o], call)
    BY <1>1, <2>5 DEF TypeOK
  <2>7. /\ Len(calls'[o]) = Len(calls[o]) + 1
        /\ calls'[o][Len(calls[o]) + 1] = call
        /\ Len(calls[o]) = 1 => calls'[o][1] = calls[o][1]
    BY <2>4, <2>6
  <2>8. Len(calls[o]) = 0 \/ (Len(calls[o]) = 1 /\ SteppingUp(o))
    BY <1>1, <1>3 DEF OnItsPath
  <2>9. SteppingUp(o) => key[o] = "Standard"
    BY <2>1, StepUpSteps DEF SteppingUp, Levels
  <2>10. QED
    BY <2>4, <2>5, <2>7, <2>8, <2>9 DEF OnItsPath, SteppedUpOnce, SteppingUp
<1>7. QED
  BY <1>4, <1>5, <1>6 DEF Run

\* The owner: a refusal is no request for more signatures.
LEMMA OwnerPath ==
  ASSUME Inductive, StepUpPath, NEW o \in Ops, Owner(o)
  PROVE  StepUpPath'
<1>1. TypeOK /\ UNCHANGED <<request, calls>> /\ pc[o] = "prompting"
  BY DEF Inductive, Owner, PromptApproved, PromptRaises, PromptRefused
<1>2. \A p \in Ops \ {o} :
        UNCHANGED <<pc[p], key[p], todo[p], calls[p], log[p]>>
  BY <1>1 DEF Owner, PromptApproved, PromptRaises, PromptRefused, Answer, Goto, Signed,
              TypeOK
<1> SUFFICES ASSUME MayStepUp(o) PROVE OnItsPath(o)'
  BY <1>1, <1>2, OtherPaths
<1>3. OnItsPath(o)
  BY DEF StepUpPath
<1>4. CASE PromptApproved(o)
  BY <1>1, <1>4, SignedPath DEF PromptApproved, Goto, TypeOK, Inductive,
                                PromptForSignature
<1>5. CASE PromptRaises(o)
  BY <1>3, <1>5, PathKept DEF PromptRaises
<1>6. ASSUME NEW e \in SignErrors, PromptRefused(o, e) PROVE OnItsPath(o)'
  <2>1. log[o] = <<>>
    BY <1>1 DEF Inductive, LogIsAnswer
  <2>2. log'[o] = <<Callback("error", e)>> /\ pc'[o] = "done"
    <3>1. log'[o] = <<>> \o <<Callback("error", e)>> /\ pc'[o] = "done"
      BY <1>1, <1>6, <2>1 DEF PromptRefused, Answer, Goto, TypeOK
    <3>2. <<>> \o <<Callback("error", e)>> = <<Callback("error", e)>>
      BY CallbacksType
    <3>3. QED
      BY <3>1, <3>2
  <2>3. log'[o][Len(log'[o])].why # "moreSignatures"
    BY <2>2 DEF Callback, SignErrors
  <2>4. QED
    BY <1>1, <1>3, <2>2, <2>3 DEF OnItsPath, SteppedUpOnce
<1>7. QED
  BY <1>4, <1>5, <1>6 DEF Owner

\* A change to one call that keeps its headers, and its result if its handler ran.
LEMMA CallUpdatePath ==
  ASSUME Inductive, StepUpPath, NEW o \in Ops, NEW i \in DOMAIN calls[o],
         NEW call \in CallRecords, UpdateCall(o, i, call),
         call.header = calls[o][i].header,
         calls[o][i].net = "delivered" => call.result = calls[o][i].result,
         UNCHANGED <<request, pc, key, todo, log>>
  PROVE  StepUpPath'
<1>1. TypeOK
  BY DEF Inductive
<1>2. /\ \A p \in Ops \ {o} : calls'[p] = calls[p]
      /\ Len(calls'[o]) = Len(calls[o]) /\ DOMAIN calls[o] = 1 .. Len(calls[o])
      /\ \A j \in DOMAIN calls[o] :
           calls'[o][j] = IF j = i THEN call ELSE calls[o][j]
  BY <1>1, UpdateCallType DEF TypeOK
<1> SUFFICES ASSUME MayStepUp(o) PROVE OnItsPath(o)'
  BY <1>2, OtherPaths
<1>3. OnItsPath(o)
  BY DEF StepUpPath
<1>4. \A j \in DOMAIN calls[o] : calls'[o][j].header = calls[o][j].header
  BY <1>2
<1>5. 1 \in DOMAIN calls[o] /\ (pc[o] # "waiting" \/ Len(calls[o]) = 2) =>
        calls'[o][1].result = calls[o][1].result
  <2>1. 1 \in DOMAIN calls[o] /\ (pc[o] # "waiting" \/ Len(calls[o]) = 2) =>
          calls[o][1].net = "delivered"
    BY DEF Inductive, LatestCallPending
  <2>2. QED
    BY <1>2, <2>1
<1>6. Len(calls[o]) \in Nat /\ \A n \in 1 .. Len(calls[o]) : n \in DOMAIN calls[o]
  BY <1>1, <1>2 DEF TypeOK
<1>7. Len(calls[o]) <= 2
  BY <1>3 DEF OnItsPath, SteppedUpOnce
<1>8. SteppedUpOnce(o)'
  <2>1. Len(calls[o]) = 2 => SteppedUpOnce(o)'
    BY <1>2, <1>3, <1>4, <1>5, <1>6 DEF OnItsPath, SteppedUpOnce
  <2>2. Len(calls[o]) = 1 => SteppedUpOnce(o)'
    BY <1>2, <1>3, <1>4, <1>6 DEF OnItsPath, SteppedUpOnce
  <2>3. Len(calls[o]) = 0 => SteppedUpOnce(o)'
    <3> SUFFICES ASSUME Len(calls[o]) = 0 PROVE SteppedUpOnce(o)'
      OBVIOUS
    <3>1. calls'[o] = calls[o]
      BY <1>1, <1>2, <1>6
    <3>2. QED
      BY <1>3, <3>1 DEF OnItsPath, SteppedUpOnce
  <2>4. Len(calls[o]) = 0 \/ Len(calls[o]) = 1 \/ Len(calls[o]) = 2
    <3> DEFINE n == Len(calls[o])
    <3>1. n \in Nat /\ n <= 2
      BY <1>6, <1>7
    <3> HIDE DEF n
    <3>2. n = 0 \/ n = 1 \/ n = 2
      BY <3>1
    <3>3. QED
      BY <3>2 DEF n
  <2>5. QED
    BY <2>1, <2>2, <2>3, <2>4
<1>9. QED
  BY <1>2, <1>3, <1>4, <1>5, <1>6, <1>8 DEF OnItsPath, SteppingUp

\* The last callback of a result says what the result was.
LEMMA LastWhy ==
  ASSUME NEW r \in Results
  PROVE  CallbacksFor(r)[Len(CallbacksFor(r))].why = r
<1>1. PrivateCallback(r).why = r
  BY DEF PrivateCallback, Callback
<1>2. QED
  BY <1>1 DEF CallbacksFor

\* A handler: it steps up after a first call with a Low key, and tells of a request
\* for more signatures after no such call.
LEMMA DeliverPath ==
  ASSUME Inductive, StepUpPath, NEW o \in Ops, NEW i \in DOMAIN calls[o], Deliver(o, i)
  PROVE  StepUpPath'
<1> DEFINE call == [calls[o][i] EXCEPT !.net = "delivered"]
           result == calls[o][i].result
<1>1. /\ TypeOK /\ calls[o][i] \in CallRecords /\ calls[o][i].net = "settled"
      /\ UpdateCall(o, i, call) /\ UNCHANGED <<request, key>>
  BY DEF Inductive, TypeOK, Deliver
<1>2. pc[o] = "waiting" /\ i = Len(calls[o]) /\ result \in Results /\ log[o] = <<>>
  BY <1>1 DEF Inductive, LatestCallPending, SettledHasResult, LogIsAnswer
<1>3. call \in CallRecords /\ call.header = calls[o][i].header /\ call.result = result
  BY <1>1, DeliveredType
<1>4. Resume(o, result) \/ StepUp(o, result) \/ Conclude(o, result)
  BY DEF Deliver
<1> HIDE DEF call, result
<1>5. /\ \A p \in Ops \ {o} : calls'[p] = calls[p]
      /\ Len(calls'[o]) = Len(calls[o])
      /\ \A j \in DOMAIN calls[o] : /\ calls'[o][j].header = calls[o][j].header
                                    /\ j # i => calls'[o][j].result = calls[o][j].result
      /\ calls'[o][i].result = result
  BY <1>1, <1>3, UpdateCallType
<1>6. \A p \in Ops \ {o} :
        UNCHANGED <<pc[p], key[p], todo[p], calls[p], log[p]>>
  BY <1>1, <1>4, <1>5 DEF Resume, StepUp, Conclude, Answer, Goto, TypeOK
<1> SUFFICES ASSUME MayStepUp(o) PROVE OnItsPath(o)'
  BY <1>1, <1>6, OtherPaths
<1>7. /\ SteppedUpOnce(o) /\ todo[o] = <<>> /\ Len(calls[o]) \in {1, 2}
      /\ calls[o][i].header.key = key[o]
  BY <1>2 DEF StepUpPath, OnItsPath
<1>8. DOMAIN calls[o] = 1 .. Len(calls[o])
  BY <1>1 DEF TypeOK
<1>9. Len(calls[o]) = 2 => /\ calls'[o][1].result = "moreSignatures"
                           /\ calls'[o][1].header.key = "Low"
                           /\ calls'[o][2].header.key = "Standard"
  BY <1>2, <1>5, <1>7, <1>8 DEF SteppedUpOnce
<1>10. ~Resume(o, result)
  BY <1>7 DEF Resume
<1>11. CASE StepUp(o, result)
  <2>1. request[o].api \in StepUpApis /\ result = "moreSignatures" /\ key[o] = "Low"
    BY <1>11 DEF StepUp, StepsUp
  <2>2. Len(calls[o]) = 1 /\ i = 1
    BY <1>2, <1>7, <2>1 DEF SteppedUpOnce
  <2>3. todo'[o] = <<Sign("Standard"), AuthCall("request")>> /\ pc'[o] = "running"
    BY <1>1, <1>11, <2>1, StepUpProgram DEF StepUp, Goto, TypeOK, Levels
  <2>4. SteppingUp(o)'
    BY <1>5, <1>7, <2>1, <2>2, <2>3 DEF SteppingUp
  <2>5. QED
    BY <1>5, <2>2, <2>3, <2>4 DEF OnItsPath, SteppedUpOnce, Levels
<1>12. CASE Conclude(o, result)
  <2>1. pc'[o] = "done" /\ log'[o] = <<>> \o CallbacksFor(result)
    BY <1>1, <1>2, <1>12 DEF Conclude, Answer, Goto, TypeOK
  <2>2. log'[o] = CallbacksFor(result)
    BY <1>2, <2>1, CallbacksType
  <2>3. log'[o][Len(log'[o])].why = result
    BY <1>2, <2>2, LastWhy
  <2>4. result = "moreSignatures" => key[o] # "Low"
    BY <1>12 DEF Conclude, StepsUp, MayStepUp
  <2>5. calls'[o][Len(calls'[o])].header.key = key[o]
    BY <1>2, <1>5, <1>7
  <2>6. QED
    BY <1>5, <1>7, <1>9, <2>1, <2>3, <2>4, <2>5 DEF OnItsPath, SteppedUpOnce
<1>13. QED
  BY <1>4, <1>10, <1>11, <1>12

\* A step up is made at most once, after the bank asked a Low key for more signatures,
\* and only what a higher key could not get is reported as lacking signatures.
THEOREM StepsUpOnce == Spec => []StepUpOnce
<1>1. Init => StepUpPath
  BY DEF Init, StepUpPath, MayStepUp
<1>2. Inductive /\ StepUpPath /\ [Next]_vars => StepUpPath'
  <2> SUFFICES ASSUME Inductive, StepUpPath, [Next]_vars PROVE StepUpPath'
    OBVIOUS
  <2>1. CASE Application
    BY <2>1, ApplicationPath
  <2>2. ASSUME NEW o \in Ops, Run(o) \/ Owner(o) PROVE StepUpPath'
    BY <2>2, RunPath, OwnerPath
  <2>3. ASSUME NEW o \in Ops, NEW i \in DOMAIN calls[o], NEW result \in Results,
               Settle(o, i, result)
        PROVE  StepUpPath'
    <3>1. calls[o][i] \in CallRecords
      BY DEF Inductive, TypeOK
    <3>2. SettledWith(calls[o][i], result) \in CallRecords
          /\ SettledWith(calls[o][i], result).header = calls[o][i].header
      BY <3>1, SettledType
    <3>3. QED
      BY <2>3, <3>2, CallUpdatePath DEF Settle
  <2>4. ASSUME NEW o \in Ops, NEW i \in DOMAIN calls[o], TimerFires(o, i)
        PROVE  StepUpPath'
    <3>1. calls[o][i] \in CallRecords
      BY DEF Inductive, TypeOK
    <3>2. PICK c \in Cancelled(calls[o][i]) :
            UpdateCall(o, i, [c EXCEPT !.timer = "fired"])
      BY <2>4 DEF TimerFires
    <3>3. /\ c \in CallRecords /\ c.header = calls[o][i].header
          /\ calls[o][i].net = "delivered" => c = calls[o][i]
      BY <3>1, CancelledType DEF Cancelled
    <3>4. QED
      BY <2>4, <3>2, <3>3, FiredType, CallUpdatePath DEF TimerFires
  <2>5. ASSUME NEW o \in Ops, NEW i \in DOMAIN calls[o], Deliver(o, i)
        PROVE  StepUpPath'
    BY <2>5, DeliverPath
  <2>6. CASE UNCHANGED vars
    BY <2>6, PathKept DEF vars, StepUpPath, MayStepUp
  <2>7. QED
    BY <2>1, <2>2, <2>3, <2>4, <2>5, <2>6 DEF Next, Network, MainQueue
<1>3. StepUpPath => StepUpOnce
  BY DEF StepUpPath, StepUpOnce, OnItsPath
<1>4. QED
  BY <1>1, <1>2, <1>3, InductiveInvariant, PTL DEF Spec

-----------------------------------------------------------------------------
(* What an operation waits for *)

\* Every program ends with a call.
LEMMA ProgramEnds ==
  ASSUME NEW a \in AllApis, NEW k \in Levels
  PROVE  EndsInCall(Program(a, k))
<1>1. /\ ReadFirst(a) \in Seq(Steps) /\ PayloadSignature(a, k) \in Seq(Steps)
      /\ FinalCall(a, k) \in Seq(Steps)
  BY PartsType
<1>2. EndsInCall(FinalCall(a, k))
  <2>1. OpenCall(ReplyKind(a)).do = "call" /\ AuthCall(ReplyKind(a)).do = "call"
    BY DEF OpenCall, AuthCall
  <2>2. ASSUME NEW s, NEW t, t.do = "call" PROVE EndsInCall(<<t>>) /\ EndsInCall(<<s, t>>)
    BY <2>2 DEF EndsInCall
  <2>3. QED BY <2>1, <2>2 DEF FinalCall
<1>3. ASSUME NEW s \in Seq(Steps), NEW t \in Seq(Steps), EndsInCall(t)
      PROVE  EndsInCall(s \o t)
  <2>1. Len(t) \in Nat \ {0} /\ Len(s) \in Nat
    BY <1>3 DEF EndsInCall
  <2>2. Len(s \o t) = Len(s) + Len(t) /\ s \o t # <<>>
    BY <2>1
  <2>3. (s \o t)[Len(s) + Len(t)] = t[Len(t)]
    BY <2>1
  <2>4. QED BY <1>3, <2>2, <2>3 DEF EndsInCall
<1>4. ReadFirst(a) \o PayloadSignature(a, k) \in Seq(Steps)
  BY <1>1
<1>5. QED
  BY <1>1, <1>2, <1>3, <1>4 DEF Program

\* What is left of it after a step is nothing, or ends with a call too;
LEMMA RestEnds ==
  ASSUME NEW steps \in Seq(Steps), EndsInCall(steps)
  PROVE  Tail(steps) = <<>> \/ EndsInCall(Tail(steps))
<1>1. steps # <<>>
  BY DEF EndsInCall
<1>2. /\ Tail(steps) \in Seq(Steps) /\ Len(Tail(steps)) = Len(steps) - 1
      /\ \A i \in 1..Len(Tail(steps)) : Tail(steps)[i] = steps[i + 1]
  BY <1>1, HeadTailProperties
<1>3. Len(Tail(steps)) \in Nat
  BY <1>2
<1>4. CASE Tail(steps) # <<>>
  <2>1. Len(Tail(steps)) # 0
    BY <1>2, <1>4, EmptySeq
  <2>2. Tail(steps)[Len(Tail(steps))] = steps[Len(steps)]
    BY <1>2, <1>3, <2>1
  <2>3. QED BY <1>4, <2>2 DEF EndsInCall
<1>5. QED BY <1>4

\* after a signature, it is not nothing.
LEMMA SignedEnds ==
  ASSUME NEW steps \in Seq(Steps), EndsInCall(steps), Head(steps).do = "sign"
  PROVE  EndsInCall(Tail(steps))
<1>1. Len(steps) \in Nat /\ steps # <<>> /\ Head(steps) = steps[1]
  BY DEF EndsInCall
<1>2. Len(steps) # 1
  BY <1>1 DEF EndsInCall
<1>3. Len(Tail(steps)) = Len(steps) - 1
  BY <1>1, HeadTailProperties
<1>4. Tail(steps) # <<>>
  <2>1. Len(Tail(steps)) # 0
    BY <1>1, <1>2, <1>3
  <2>2. QED BY <2>1, EmptySeq
<1>5. QED
  BY <1>4, RestEnds

\* The step of one operation concerns its own only, and holds the main thread while it runs.
LEMMA OthersGoOn ==
  ASSUME NeverStuck, NEW o \in Ops, GoesOn(o)',
         main' = main \/ main' \in {o, Free},
         main' = o => pc'[o] \in {"running", "prompting"},
         \A p \in Ops \ {o} : UNCHANGED <<pc[p], todo[p], calls[p]>>,
         main \in Ops \cup {Free}
  PROVE  NeverStuck'
<1>1. ASSUME NEW p \in Ops PROVE GoesOn(p)'
  BY DEF NeverStuck, GoesOn
<1>2. ASSUME main' # Free PROVE pc'[main'] \in {"running", "prompting"}
  BY <1>2 DEF NeverStuck
<1>3. QED
  BY <1>1, <1>2 DEF NeverStuck

LEMMA ApplicationGoesOn ==
  ASSUME Inductive, NeverStuck, Application
  PROVE  NeverStuck'
<1>1. TypeOK
  BY DEF Inductive
<1>2. ASSUME NEW o \in Ops, NEW a \in Apis, NEW k \in Levels, NEW c \in Clients,
             NEW onMain \in BOOLEAN, Invoke(o, a, k, c, onMain)
      PROVE  NeverStuck'
  <2>1. pc'[o] = "running" /\ todo'[o] = Program(a, k)
        /\ \A p \in Ops \ {o} : UNCHANGED <<pc[p], todo[p], calls[p]>>
    BY <1>1, <1>2 DEF Invoke, Goto, TypeOK
  <2>2. EndsInCall(Program(a, k))
    BY ProgramEnds, RpcCallAssumption
  <2>3. GoesOn(o)'
    BY <2>1, <2>2 DEF GoesOn
  <2>4. main' = main \/ main' \in {o, Free}
    BY <1>2 DEF Invoke
  <2>5. main \in Ops \cup {Free}
    BY <1>1 DEF TypeOK
  <2>6. QED BY <2>1, <2>3, <2>4, <2>5, OthersGoOn
<1>3. ASSUME UNCHANGED <<main, pc, todo, calls>> PROVE NeverStuck'
  BY <1>3 DEF NeverStuck, GoesOn
<1>4. QED
  BY <1>2, <1>3 DEF Application, ForAccessToken, SetSecurityMetadata

LEMMA RunGoesOn ==
  ASSUME Inductive, NeverStuck, NEW o \in Ops, Run(o)
  PROVE  NeverStuck'
<1>1. TypeOK /\ main \in Ops \cup {Free} /\ pc[o] = "running" /\ todo[o] \in Seq(Steps)
  BY DEF Inductive, TypeOK, Run, SignAtOnce, SignRaises, Prompt, Dispatch, AtStep
<1>2. \A p \in Ops \ {o} : UNCHANGED <<pc[p], todo[p], calls[p]>>
  BY <1>1 DEF Run, SignAtOnce, SignRaises, Prompt, Dispatch, Goto, Signed, TypeOK
<1>3. EndsInCall(todo[o])
  BY <1>1 DEF NeverStuck, GoesOn
<1>4. CASE SignAtOnce(o)
  <2>1. Head(todo[o]).do = "sign" /\ todo'[o] = Tail(todo[o]) /\ UNCHANGED <<main, pc>>
    BY <1>1, <1>4 DEF SignAtOnce, AtStep, Signed, TypeOK
  <2>2. EndsInCall(todo'[o])
    BY <1>1, <1>3, <2>1, SignedEnds
  <2>3. GoesOn(o)'
    BY <1>1, <2>1, <2>2 DEF GoesOn
  <2>4. QED BY <1>1, <1>2, <2>1, <2>3, OthersGoOn
<1>5. CASE SignRaises(o)
  <2>1. \/ pc'[o] = "threw" /\ main' # o /\ (main' = main \/ main' = Free)
        \/ UNCHANGED <<main, pc, todo, calls>>
    BY <1>1, <1>5, RpcCallAssumption DEF SignRaises, Goto, ReleaseMain, TypeOK
  <2>2. CASE pc'[o] = "threw" /\ main' # o /\ (main' = main \/ main' = Free)
    <3>1. GoesOn(o)'
      BY <2>2 DEF GoesOn
    <3>2. QED BY <1>1, <1>2, <2>2, <3>1, OthersGoOn
  <2>3. CASE UNCHANGED <<main, pc, todo, calls>>
    BY <2>3 DEF NeverStuck, GoesOn
  <2>4. QED BY <2>1, <2>2, <2>3
<1>6. CASE Prompt(o)
  <2>1. pc'[o] = "prompting" /\ UNCHANGED <<main, todo>>
    BY <1>1, <1>6 DEF Prompt, Goto, TypeOK
  <2>2. GoesOn(o)'
    BY <1>3, <2>1 DEF GoesOn
  <2>3. QED BY <1>1, <1>2, <2>1, <2>2, OthersGoOn
<1>7. CASE Dispatch(o)
  <2> DEFINE call == NewCall(o)
  <2>1. pc'[o] = "waiting" /\ calls'[o] = Append(calls[o], call)
        /\ main' # o /\ (main' = main \/ main' = Free)
    BY <1>1, <1>7, RpcCallAssumption DEF Dispatch, Goto, ReleaseMain, TypeOK
  <2>2. ResultToCome(call)
    BY DEF NewCall, NewCallWith, ResultToCome
  <2>3. call \in CallRecords
    BY <1>7, NewCallType DEF Dispatch, Inductive, NewCall, NewCallWith, CallRecords
  <2> HIDE DEF call
  <2>4. calls[o] \in Seq(CallRecords)
    BY <1>1 DEF TypeOK
  <2>5. calls'[o] # <<>> /\ calls'[o][Len(calls'[o])] = call
    BY <2>1, <2>3, <2>4
  <2>6. todo'[o] = <<>> \/ EndsInCall(todo'[o])
    BY <1>1, <1>3, <1>7, RestEnds DEF Dispatch, TypeOK
  <2>7. GoesOn(o)'
    BY <2>1, <2>2, <2>5, <2>6 DEF GoesOn
  <2>8. QED BY <1>1, <1>2, <2>1, <2>7, OthersGoOn
<1>8. QED
  BY <1>4, <1>5, <1>6, <1>7 DEF Run

LEMMA OwnerGoesOn ==
  ASSUME Inductive, NeverStuck, NEW o \in Ops, Owner(o)
  PROVE  NeverStuck'
<1>1. TypeOK /\ main \in Ops \cup {Free} /\ pc[o] = "prompting" /\ todo[o] \in Seq(Steps)
  BY DEF Inductive, TypeOK, Owner, PromptApproved, PromptRaises, PromptRefused
<1>2. \A p \in Ops \ {o} : UNCHANGED <<pc[p], todo[p], calls[p]>>
  BY <1>1 DEF Owner, PromptApproved, PromptRaises, PromptRefused, Answer, Goto, Signed,
              TypeOK
<1>3. CASE PromptApproved(o)
  <2>1. pc'[o] = "running" /\ todo'[o] = Tail(todo[o]) /\ UNCHANGED main
    BY <1>1, <1>3 DEF PromptApproved, Goto, Signed, TypeOK
  <2>2. EndsInCall(todo[o]) /\ Head(todo[o]).do = "sign"
    BY <1>1 DEF NeverStuck, GoesOn, Inductive, PromptForSignature, AtSign
  <2>3. EndsInCall(todo'[o])
    BY <1>1, <2>1, <2>2, SignedEnds
  <2>4. GoesOn(o)'
    BY <2>1, <2>3 DEF GoesOn
  <2>5. QED BY <1>1, <1>2, <2>1, <2>4, OthersGoOn
<1>4. CASE PromptRaises(o)
  BY <1>4 DEF PromptRaises, NeverStuck, GoesOn
<1>5. ASSUME NEW e \in SignErrors, PromptRefused(o, e) PROVE NeverStuck'
  <2>1. pc'[o] = "done" /\ main' # o /\ (main' = main \/ main' = Free)
    BY <1>1, <1>5, RpcCallAssumption DEF PromptRefused, Answer, Goto, ReleaseMain, TypeOK
  <2>2. GoesOn(o)'
    BY <2>1 DEF GoesOn
  <2>3. QED BY <1>1, <1>2, <2>1, <2>2, OthersGoOn
<1>6. QED
  BY <1>3, <1>4, <1>5 DEF Owner

\* A change to one call, after which it is settled if it is the latest.
LEMMA UpdateGoesOn ==
  ASSUME Inductive, NeverStuck, NEW o \in Ops, NEW i \in DOMAIN calls[o],
         NEW call \in CallRecords, UpdateCall(o, i, call),
         ResultToCome(calls[o][i]) => ResultToCome(call), UNCHANGED <<main, pc, todo>>
  PROVE  NeverStuck'
<1>1. TypeOK /\ main \in Ops \cup {Free} /\ calls[o] \in Seq(CallRecords)
  BY DEF Inductive, TypeOK
<1>2. /\ \A p \in Ops \ {o} : calls'[p] = calls[p]
      /\ DOMAIN calls'[o] = DOMAIN calls[o] /\ Len(calls'[o]) = Len(calls[o])
      /\ \A j \in DOMAIN calls[o] : calls'[o][j] = IF j = i THEN call ELSE calls[o][j]
  BY <1>1, UpdateCallType
<1>3. GoesOn(o)'
  <2>1. SUFFICES ASSUME pc[o] = "waiting"
                 PROVE  calls'[o] # <<>> /\ ResultToCome(calls'[o][Len(calls'[o])])
    BY DEF NeverStuck, GoesOn
  <2>2. calls[o] # <<>> /\ ResultToCome(calls[o][Len(calls[o])])
    BY <2>1 DEF NeverStuck, GoesOn
  <2>3. Len(calls[o]) \in DOMAIN calls[o]
    BY <1>1, <2>2
  <2>4. calls'[o] # <<>>
    BY <1>2, <2>3
  <2>5. ResultToCome(calls'[o][Len(calls[o])])
    BY <1>2, <2>2, <2>3
  <2>6. QED BY <1>2, <2>4, <2>5
<1>4. main' = o => pc'[o] \in {"running", "prompting"}
  BY RpcCallAssumption DEF NeverStuck
<1>5. QED
  BY <1>1, <1>2, <1>3, <1>4, OthersGoOn

\* An operation never waits for what may never come: every call has a timeout until it
\* has a result, and every program ends with a call.
THEOREM NeverWaitsInVain == Spec => []NeverStuck
<1>1. Init => NeverStuck
  BY DEF Init, NeverStuck, GoesOn
<1>2. Inductive /\ NeverStuck /\ [Next]_vars => NeverStuck'
  <2> SUFFICES ASSUME Inductive, NeverStuck, [Next]_vars PROVE NeverStuck'
    OBVIOUS
  <2>1. CASE Application
    BY <2>1, ApplicationGoesOn
  <2>2. ASSUME NEW o \in Ops, Run(o) \/ Owner(o) PROVE NeverStuck'
    BY <2>2, RunGoesOn, OwnerGoesOn
  <2>3. ASSUME NEW o \in Ops, NEW i \in DOMAIN calls[o], NEW result \in Results,
               Settle(o, i, result)
        PROVE  NeverStuck'
    <3>1. calls[o][i] \in CallRecords
      BY DEF Inductive, TypeOK
    <3>2. /\ SettledWith(calls[o][i], result) \in CallRecords
          /\ ResultToCome(SettledWith(calls[o][i], result))
      BY <3>1, SettledType DEF ResultToCome
    <3>3. QED BY <2>3, <3>2, UpdateGoesOn DEF Settle
  <2>4. ASSUME NEW o \in Ops, NEW i \in DOMAIN calls[o], TimerFires(o, i) PROVE NeverStuck'
    <3>1. calls[o][i] \in CallRecords
      BY DEF Inductive, TypeOK
    <3>2. PICK c \in Cancelled(calls[o][i]) : UpdateCall(o, i, [c EXCEPT !.timer = "fired"])
      BY <2>4 DEF TimerFires
    <3>3. c \in CallRecords
      BY <3>1, CancelledType
    <3>4. ResultToCome(calls[o][i]) => c.net = "settled"
      BY <3>1, SettledType DEF ResultToCome, Cancelled, Results
    <3> DEFINE call == [c EXCEPT !.timer = "fired"]
    <3>5. call \in CallRecords /\ call.net = c.net
      BY <3>3, FiredType
    <3>6. ResultToCome(calls[o][i]) => ResultToCome(call)
      BY <3>4, <3>5 DEF ResultToCome
    <3>7. UpdateCall(o, i, call) /\ UNCHANGED <<main, pc, todo>>
      BY <2>4, <3>2 DEF TimerFires
    <3> HIDE DEF call
    <3>8. QED BY <3>5, <3>6, <3>7, UpdateGoesOn
  <2>5. ASSUME NEW o \in Ops, NEW i \in DOMAIN calls[o], Deliver(o, i) PROVE NeverStuck'
    <3> DEFINE call == [calls[o][i] EXCEPT !.net = "delivered"]
               result == calls[o][i].result
    <3>1. /\ TypeOK /\ calls[o][i] \in CallRecords /\ UpdateCall(o, i, call)
          /\ calls[o][i].net = "settled" /\ main \in Ops \cup {Free} /\ main = Free
      BY <2>5 DEF Inductive, TypeOK, Deliver
    <3>2. call \in CallRecords
      BY <3>1, DeliveredType
    <3>3. Resume(o, result) \/ StepUp(o, result) \/ Conclude(o, result)
      BY <2>5 DEF Deliver
    <3>4. pc[o] = "waiting" /\ RequestKnown
      BY <3>1 DEF Inductive, LatestCallPending
    <3> HIDE DEF call, result
    <3>5. \A p \in Ops \ {o} : UNCHANGED <<pc[p], todo[p], calls[p]>>
      BY <3>1, <3>2, <3>3, UpdateCallType DEF Resume, StepUp, Conclude, Answer, Goto, TypeOK
    <3>6. CASE Resume(o, result)
      <4>1. pc'[o] = "running" /\ main' = o /\ todo'[o] = todo[o] /\ todo[o] # <<>>
        BY <3>1, <3>6 DEF Resume, Goto, TypeOK
      <4>2. EndsInCall(todo'[o])
        BY <3>4, <4>1 DEF NeverStuck, GoesOn
      <4>3. GoesOn(o)'
        BY <4>1, <4>2 DEF GoesOn
      <4>4. QED BY <3>1, <3>5, <4>1, <4>3, OthersGoOn
    <3>7. CASE StepUp(o, result)
      <4>1. /\ pc'[o] = "running" /\ main' = o
            /\ todo'[o] = Program(request[o].api, "Standard")
        BY <3>1, <3>7 DEF StepUp, Goto, TypeOK
      <4>2. request[o].api \in AllApis
        BY <3>4, RpcCallAssumption DEF RequestKnown, Requests
      <4>3. EndsInCall(todo'[o])
        BY <4>1, <4>2, ProgramEnds DEF Levels
      <4>4. GoesOn(o)'
        BY <4>1, <4>3 DEF GoesOn
      <4>5. QED BY <3>1, <3>5, <4>1, <4>4, OthersGoOn
    <3>8. CASE Conclude(o, result)
      <4>1. pc'[o] = "done" /\ main' # o /\ (main' = main \/ main' = Free)
        BY <3>1, <3>8, RpcCallAssumption DEF Conclude, Answer, Goto, ReleaseMain, TypeOK
      <4>2. GoesOn(o)'
        BY <4>1 DEF GoesOn
      <4>3. QED BY <3>1, <3>5, <4>1, <4>2, OthersGoOn
    <3>9. QED BY <3>3, <3>6, <3>7, <3>8
  <2>6. CASE UNCHANGED vars
    BY <2>6 DEF vars, NeverStuck, GoesOn
  <2>7. QED
    BY <2>1, <2>2, <2>3, <2>4, <2>5, <2>6 DEF Next, Network, MainQueue
<1>3. QED
  BY <1>1, <1>2, InductiveInvariant, PTL DEF Spec

-----------------------------------------------------------------------------
(* Refinement *)

\* A step that ends one pending operation is that operation's Finish.
LEMMA FinishStep ==
  ASSUME TypeOK, NEW o \in Ops, NEW s \in Promise!Answers \cup {"threw"},
         alive, alive' = alive, StatusOf(o) = "pending", StatusOf(o)' = s,
         \A p \in Ops \ {o} : StatusOf(p)' = StatusOf(p)
  PROVE  Promise!Finish(o)
  BY DEF Promise!Finish, status

\* Every step of the operations is a step of their promise, or invisible to it.
LEMMA StepRefines ==
  ASSUME Inductive, Inductive', [Next]_vars
  PROVE  [Promise!Next]_<<status, alive>>
<1> USE DEF Inductive
<1>1. ASSUME UNCHANGED <<pc, log>> PROVE UNCHANGED status
  BY <1>1 DEF status, StatusOf
<1>2. CASE UNCHANGED vars
  BY <1>1, <1>2 DEF vars
<1>3. CASE Application
  <2>1. ASSUME NEW o \in Ops, NEW a \in Apis, NEW k \in Levels, NEW c \in Clients,
               NEW onMain \in BOOLEAN, Invoke(o, a, k, c, onMain)
        PROVE  Promise!Start(o)
    BY <2>1 DEF Invoke, Goto, TypeOK, Promise!Start, status, StatusOf
  <2>2. ASSUME NEW c \in Clients, NEW token \in AccessTokens, ForAccessToken(c, token)
        PROVE  UNCHANGED <<status, alive>>
    BY <1>1, <2>2 DEF ForAccessToken
  <2>3. ASSUME NEW c \in Clients, NEW m \in Metadata, SetSecurityMetadata(c, m)
        PROVE  UNCHANGED <<status, alive>>
    BY <1>1, <2>3 DEF SetSecurityMetadata
  <2>4. QED
    BY <1>3, <2>1, <2>2, <2>3 DEF Application, Promise!Next
<1>4. ASSUME NEW o \in Ops, Run(o) PROVE [Promise!Next]_<<status, alive>>
  <2>1. CASE SignAtOnce(o)
    BY <1>1, <2>1 DEF SignAtOnce
  <2>2. CASE SignRaises(o)
    <3>1. CASE InCallersFrame(o)
      <4>1. StatusOf(o) = "pending" /\ StatusOf(o)' = "threw" /\ alive /\ alive' = alive
            /\ \A p \in Ops \ {o} : StatusOf(p)' = StatusOf(p)
        BY <2>2, <3>1 DEF SignRaises, AtStep, Goto, TypeOK, StatusOf
      <4>2. Promise!Finish(o)
        BY <4>1, FinishStep
      <4>3. QED
        BY <4>2 DEF Promise!Next
    <3>2. CASE ~InCallersFrame(o)
      BY <1>1, <2>2, <3>2 DEF SignRaises, AtStep, Promise!Next, Promise!Crash
    <3>3. QED
      BY <3>1, <3>2
  <2>3. CASE Prompt(o)
    BY <2>3 DEF Prompt, AtStep, Goto, TypeOK, status, StatusOf
  <2>4. CASE Dispatch(o)
    BY <2>4 DEF Dispatch, AtStep, Goto, TypeOK, status, StatusOf
  <2>5. QED
    BY <1>4, <2>1, <2>2, <2>3, <2>4 DEF Run
<1>5. ASSUME NEW o \in Ops, pc[o] \in {"prompting", "waiting"}, alive, alive' = alive,
             pc' = [pc EXCEPT ![o] = "done"],
             \A p \in Ops \ {o} : log'[p] = log[p]
      PROVE  Promise!Finish(o)
  <2>1. log'[o] \in AnswerLogs
    BY <1>5 DEF LogIsAnswer, TypeOK
  <2>2. log'[o][Len(log'[o])].cb \in Promise!Answers
    BY <2>1, AnswerForm DEF Promise!Answers
  <2>3. StatusOf(o) = "pending" /\ StatusOf(o)' \in Promise!Answers
        /\ \A p \in Ops \ {o} : StatusOf(p)' = StatusOf(p)
    BY <1>5, <2>2 DEF StatusOf, TypeOK
  <2>4. QED
    BY <1>5, <2>3, FinishStep
<1>6. ASSUME NEW o \in Ops, Owner(o) PROVE [Promise!Next]_<<status, alive>>
  <2>1. CASE PromptApproved(o)
    BY <2>1 DEF PromptApproved, Goto, TypeOK, status, StatusOf
  <2>2. CASE PromptRaises(o)
    BY <1>1, <2>2 DEF PromptRaises, Promise!Next, Promise!Crash
  <2>3. ASSUME NEW e \in SignErrors, PromptRefused(o, e) PROVE Promise!Finish(o)
    BY <1>5, <2>3 DEF PromptRefused, Answer, Goto, TypeOK
  <2>4. QED
    BY <1>6, <2>1, <2>2, <2>3 DEF Owner, Promise!Next
<1>7. ASSUME NEW o \in Ops, Network(o) PROVE UNCHANGED <<status, alive>>
  BY <1>1, <1>7 DEF Network, Settle
<1>8. ASSUME NEW o \in Ops, NEW i \in DOMAIN calls[o], TimerFires(o, i)
      PROVE  UNCHANGED <<status, alive>>
  BY <1>1, <1>8 DEF TimerFires
<1>9. ASSUME NEW o \in Ops, NEW i \in DOMAIN calls[o], Deliver(o, i)
      PROVE  [Promise!Next]_<<status, alive>>
  <2>1. pc[o] = "waiting" /\ alive /\ alive' = alive
    BY <1>9 DEF Deliver, LatestCallPending
  <2>2. CASE pc' = [pc EXCEPT ![o] = "running"] /\ UNCHANGED log
    BY <2>1, <2>2 DEF TypeOK, status, StatusOf
  <2>3. CASE Conclude(o, calls[o][i].result)
    <3>1. Promise!Finish(o)
      BY <1>5, <2>1, <2>3 DEF Conclude, Answer, Goto, TypeOK
    <3>2. QED
      BY <3>1 DEF Promise!Next
  <2>4. QED
    BY <1>9, <2>2, <2>3 DEF Deliver, Resume, StepUp, Goto
<1>10. QED
  BY <1>2, <1>3, <1>4, <1>6, <1>7, <1>8, <1>9 DEF Next, MainQueue

\* The safety half of KeepsPromise: started operations are answered at most once
\* and in no other way than CallbackOnce allows.
THEOREM RefinesCallbackOnce == Spec => Promise!Spec
<1>1. Init => Promise!Init
  BY DEF Init, Promise!Init, status, StatusOf
<1>2. Inductive /\ Inductive' /\ [Next]_vars => [Promise!Next]_<<status, alive>>
  BY StepRefines
<1>3. QED
  BY <1>1, <1>2, InductiveInvariant, PTL DEF Spec, Promise!Spec, Promise!vars
=============================================================================
