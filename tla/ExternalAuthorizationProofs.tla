--------------------- MODULE ExternalAuthorizationProofs ---------------------
(* Proofs about ExternalAuthorization, for any operations and any browser. *)
EXTENDS ExternalAuthorization, TLAPS

USE ExternalAuthorizationAssumption

\* The first answer is the last one of a sequence that was empty.
LEMMA FirstAnswer ==
  ASSUME NEW s \in Seq(Answers), NEW a \in Answers
  PROVE  /\ Append(s, a) \in Seq(Answers)
         /\ Append(s, a) # <<>>
         /\ Append(s, a)[Len(Append(s, a))] = a
  OBVIOUS

\* Everything is at rest to begin with.
LEMMA InitInductive == Init => Inductive
  BY DEF Init, Inductive, TypeOK, Places, QuietBefore, Authorizing, UsedIsFound,
         BrowserClosed, StopsMeansDone, Quiet

\* The steps up to the authorization preserve the invariant,
LEMMA CallsInductive ==
  ASSUME Inductive, NEW f \in Flows, Start(f) \/ Calls(f)
  PROVE  Inductive'
<1> USE DEF Inductive, TypeOK, Places, Answers, QuietBefore, Authorizing,
            UsedIsFound, BrowserClosed, StopsMeansDone, Goto
<1>1. CASE Start(f)
  BY <1>1 DEF Start
<1>2. CASE Throw(f)
  BY <1>2 DEF Throw
<1>3. CASE FirstCall(f)
  BY <1>3 DEF FirstCall
<1>4. CASE CallFails(f)
  <2>1. answers'[f] # <<>> /\ answers' \in [Flows -> Seq(Answers)]
    BY <1>4, FirstAnswer DEF CallFails, Tell
  <2>2. QED
    BY <1>4, <2>1 DEF CallFails, Tell
<1>5. CASE CreatedAtOnce(f)
  <2>1. answers'[f] # <<>> /\ answers' \in [Flows -> Seq(Answers)]
    BY <1>5, FirstAnswer DEF CreatedAtOnce, Tell
  <2>2. QED
    BY <1>5, <2>1 DEF CreatedAtOnce, Tell
<1>6. CASE AuthRequired(f)
  BY <1>6 DEF AuthRequired
<1>7. CASE Authorize(f)
  <2>1. CASE Goto(f, "browser")
             /\ browser' = [browser EXCEPT ![f] = "presented"]
             /\ UNCHANGED answers
    BY <1>7, <2>1 DEF Authorize
  <2>2. CASE Goto(f, "done") /\ Tell(f, "cancelled") /\ UNCHANGED browser
    <3>1. answers'[f] # <<>> /\ answers' \in [Flows -> Seq(Answers)]
      BY <2>2, FirstAnswer DEF Tell
    <3>2. QED
      BY <1>7, <2>2, <3>1 DEF Authorize, Tell
  <2>3. QED
    BY <1>7, <2>1, <2>2 DEF Authorize
\* and so does the answer of the call that follows it.
<1>8. ASSUME NEW answer \in {"success", "error"}, Answered(f, answer)
      PROVE  Inductive'
  <2>1. answers'[f] # <<>> /\ answers' \in [Flows -> Seq(Answers)]
    BY <1>8, FirstAnswer DEF Answered, Tell
  <2>2. QED
    BY <1>8, <2>1 DEF Answered, Tell, Close
<1>9. QED
  BY <1>1, <1>2, <1>3, <1>4, <1>5, <1>6, <1>7, <1>8 DEF Calls

\* An authorization that fails closes the engine and leaves what goes on alone.
LEMMA FailureInductive ==
  ASSUME Inductive, NEW f \in Flows, NEW answer \in Answers,
         browser[f] # "none",
         AuthorizationFails(f, answer),
         found' \in [Flows -> BOOLEAN],
         \A g \in Flows : found[g] => found'[g],
         \A g \in Flows : g # f => found'[g] = found[g],
         f \in Quiet => at[f] = "browser"
  PROVE  Inductive'
<1> USE DEF Inductive, TypeOK, Places, Answers, QuietBefore, Authorizing,
            UsedIsFound, BrowserClosed, StopsMeansDone, Goto
<1>1. answers'[f] # <<>> /\ answers' \in [Flows -> Seq(Answers)]
  BY FirstAnswer DEF AuthorizationFails, Tell
<1>2. TypeOK'
  BY <1>1 DEF AuthorizationFails, Close
<1>3. QuietBefore' /\ Authorizing'
  BY <1>1 DEF AuthorizationFails, Tell, Close
<1>4. UsedIsFound'
  BY DEF AuthorizationFails
<1>5. BrowserClosed'
  BY <1>1 DEF AuthorizationFails, Tell, Close
<1>6. StopsMeansDone'
  BY <1>1 DEF AuthorizationFails, Tell, Quiet
<1>7. QED
  BY <1>2, <1>3, <1>4, <1>5, <1>6

\* A browser that stops reports only to an operation that is authorizing.
LEMMA StoppedBrowser ==
  ASSUME Inductive, NEW f \in Quiet, ~found[f], Loads(f)
  PROVE  at[f] = "browser"
<1> USE DEF Quiet
<1>1. browser[f] = "presented"
  BY DEF Loads
<1>2. at[f] \in Places
  BY DEF Inductive, TypeOK
<1>3. at[f] \notin {"idle", "invoked", "first", "account", "threw"}
  BY <1>1 DEF Inductive, QuietBefore
<1>4. at[f] # "second" /\ at[f] # "done"
  BY <1>1 DEF Inductive, StopsMeansDone, BrowserClosed
<1>5. QED
  BY <1>2, <1>3, <1>4 DEF Places

\* Whatever the browser reports, the invariant holds.
LEMMA BrowserInductive ==
  ASSUME Inductive, NEW f \in Flows, Browser(f)
  PROVE  Inductive'
<1>1. CASE CompletionUrl(f)
  <2> USE DEF Inductive, TypeOK, Places, Answers, QuietBefore, Authorizing,
              UsedIsFound, BrowserClosed, StopsMeansDone, Goto
  <2>0. used[f] = 0
    BY <1>1 DEF CompletionUrl
  <2>1. TypeOK' /\ UsedIsFound'
    <3>1. used' = [used EXCEPT ![f] = 1] /\ found' = [found EXCEPT ![f] = TRUE]
      BY <1>1, <2>0 DEF CompletionUrl
    <3>2. used' \in [Flows -> 0 .. MaxAnswers] /\ UsedIsFound'
      BY <3>1
    <3>3. browser' \in [Flows -> {"none", "presented", "dismissed"}]
      BY <1>1 DEF CompletionUrl, Close
    <3>4. QED
      BY <1>1, <3>1, <3>2, <3>3 DEF CompletionUrl
  <2>2. QuietBefore' /\ Authorizing'
    BY <1>1 DEF CompletionUrl, Close
  <2>3. BrowserClosed'
    BY <1>1 DEF CompletionUrl, Close
  <2>4. StopsMeansDone'
    BY <1>1, StoppedBrowser DEF CompletionUrl
  <2>5. QED
    BY <2>1, <2>2, <2>3, <2>4
<1>2. CASE ErrorUrl(f)
  <2>1. f \in Quiet => at[f] = "browser"
    BY <1>2, StoppedBrowser DEF ErrorUrl
  <2>2. /\ found' \in [Flows -> BOOLEAN]
        /\ \A g \in Flows : found[g] => found'[g]
        /\ \A g \in Flows : g # f => found'[g] = found[g]
    BY <1>2 DEF ErrorUrl, Inductive, TypeOK
  <2>3. "error" \in Answers /\ browser[f] # "none"
    BY <1>2 DEF Answers, ErrorUrl, Loads
  <2>4. AuthorizationFails(f, "error")
    BY <1>2 DEF ErrorUrl
  <2>5. QED
    BY <2>1, <2>2, <2>3, <2>4, FailureInductive
<1>3. CASE Back(f) \/ NavigationFails(f)
  <2>1. browser[f] # "none" /\ AuthorizationFails(f, "cancelled")
        /\ UNCHANGED found
    BY <1>3 DEF Back, NavigationFails, Loads
  <2>2. f \in Quiet => ~found[f] /\ Loads(f)
    BY <1>3 DEF Quiet, Back, NavigationFails, Loads
  <2>3. f \in Quiet => at[f] = "browser"
    BY <2>2, StoppedBrowser
  <2>4. "cancelled" \in Answers /\ found' \in [Flows -> BOOLEAN]
    BY <2>1 DEF Answers, Inductive, TypeOK
  <2>5. QED
    BY <2>1, <2>3, <2>4, FailureInductive
<1>4. QED
  BY <1>1, <1>2, <1>3 DEF Browser

\* The invariant of ExternalAuthorization, whatever the browser does.
THEOREM AuthorizationInvariant == Spec => []Inductive
<1>1. Inductive /\ [Next]_vars => Inductive'
  <2> SUFFICES ASSUME Inductive, [Next]_vars PROVE Inductive'
    OBVIOUS
  <2>1. CASE UNCHANGED vars
    BY <2>1 DEF vars, Inductive, TypeOK, QuietBefore, Authorizing, UsedIsFound,
                BrowserClosed, StopsMeansDone
  <2>2. ASSUME NEW f \in Flows, Start(f) \/ Calls(f) PROVE Inductive'
    BY <2>2, CallsInductive
  <2>3. ASSUME NEW f \in Flows, Browser(f) PROVE Inductive'
    BY <2>3, BrowserInductive
  <2>4. QED
    BY <2>1, <2>2, <2>3 DEF Next
<1>2. QED
  BY InitInductive, <1>1, PTL DEF Spec

\* The access token is used once, even by a browser that goes on loading after
\* the user went back.
THEOREM TokenIsUsedOnce == Spec => []TokenUsedOnce
<1>1. Inductive => TokenUsedOnce
  BY DEF Inductive, TypeOK, UsedIsFound, TokenUsedOnce
<1>2. QED
  BY <1>1, AuthorizationInvariant, PTL

\* No operation leaves its browser on the screen.
THEOREM BrowserIsClosed == Spec => []BrowserClosed
<1>1. Inductive => BrowserClosed
  BY DEF Inductive
<1>2. QED
  BY <1>1, AuthorizationInvariant, PTL

-----------------------------------------------------------------------------
(* With a browser that stops at its completion *)

\* An operation that was answered takes no further step.
LEMMA AnsweredIsStill ==
  ASSUME Inductive, NEW f \in Flows, NEW g \in Quiet,
         answers[g] # <<>>, Start(f) \/ Calls(f) \/ Browser(f)
  PROVE  f # g
<1> SUFFICES ASSUME f = g PROVE FALSE
  OBVIOUS
<1> USE DEF Quiet
<1>1. at[f] = "done" /\ browser[f] # "presented"
  BY DEF Inductive, StopsMeansDone, BrowserClosed
<1>2. ~Loads(f)
  BY <1>1 DEF Loads
<1>3. ~Browser(f)
  BY <1>1, <1>2 DEF Browser, CompletionUrl, ErrorUrl, Back, NavigationFails
<1>4. ~Start(f) /\ ~Calls(f)
  BY <1>1 DEF Start, Calls, Throw, FirstCall, CallFails, CreatedAtOnce,
              AuthRequired, Authorize, Answered
<1>5. QED
  BY <1>3, <1>4

\* A step of one operation leaves the answers of the others alone.
LEMMA OthersUntouched ==
  ASSUME Inductive, NEW f \in Flows, NEW g \in Flows, f # g,
         Start(f) \/ Calls(f) \/ Browser(f)
  PROVE  at'[g] = at[g] /\ answers'[g] = answers[g] /\ used'[g] = used[g]
<1> USE DEF Inductive, TypeOK
<1>1. CASE Start(f)
  BY <1>1 DEF Start, Goto
<1>2. CASE Calls(f)
  BY <1>2 DEF Calls, Throw, FirstCall, CallFails, CreatedAtOnce, AuthRequired,
              Authorize, Answered, Goto, Tell
<1>3. CASE Browser(f)
  BY <1>3 DEF Browser, CompletionUrl, ErrorUrl, Back, NavigationFails,
              AuthorizationFails, Goto, Tell
<1>4. QED
  BY <1>1, <1>2, <1>3

\* What was answered is over, for an operation whose browser stops.
THEOREM AnswersAreFinal == Spec => FinalAnswer
<1>1. Inductive /\ [Next]_vars =>
        [\A f \in Quiet :
           answers[f] # <<>> => answers'[f] = answers[f] /\ used'[f] = used[f]]_vars
  <2> SUFFICES ASSUME Inductive, Next, NEW g \in Quiet, answers[g] # <<>>
               PROVE  answers'[g] = answers[g] /\ used'[g] = used[g]
    BY DEF vars
  <2>1. PICK f \in Flows : Start(f) \/ Calls(f) \/ Browser(f)
    BY DEF Next
  <2>2. QED
    BY <2>1, AnsweredIsStill, OthersUntouched DEF Quiet
<1>2. QED
  BY <1>1, AuthorizationInvariant, PTL DEF Spec, FinalAnswer

\* A step of an operation that goes on unanswered, or gets its answer.
LEMMA StepOfPromise ==
  ASSUME Inductive, Inductive', NEW f \in Quiet,
         Start(f) \/ Calls(f) \/ Browser(f)
  PROVE  \/ Status(f)' = Status(f)
         \/ Status(f) = "idle" /\ Status(f)' = "pending"
         \/ Status(f) = "pending" /\ Status(f)' \in {"success", "error", "threw"}
<1> USE DEF Quiet
<1>1. answers[f] = <<>>
  BY AnsweredIsStill
<1>2. CASE Start(f)
  BY <1>1, <1>2 DEF Start, Goto, Status, Inductive, TypeOK
<1>3. CASE Calls(f) \/ Browser(f)
  <2>1. at[f] # "idle" /\ at[f] # "threw" /\ at'[f] # "idle"
    <3>1. CASE Calls(f)
      BY <3>1 DEF Calls, Throw, FirstCall, CallFails, CreatedAtOnce, AuthRequired,
                  Authorize, Answered, Goto, Inductive, TypeOK
    <3>2. CASE Browser(f)
      <4>1. at[f] = "browser"
        BY <3>2, StoppedBrowser
           DEF Browser, CompletionUrl, ErrorUrl, Back, NavigationFails, Loads
      <4>2. QED
        BY <3>2, <4>1 DEF Browser, CompletionUrl, ErrorUrl, Back, NavigationFails,
                          AuthorizationFails, Goto, Inductive, TypeOK
    <3>3. QED
      BY <1>3, <3>1, <3>2
  <2>2. Status(f) = "pending"
    BY <1>1, <2>1 DEF Status
  <2>3. Status(f)' \in {"pending", "success", "error", "threw"}
    BY <2>1 DEF Status
  <2>4. QED
    BY <2>2, <2>3
<1>4. QED
  BY <1>2, <1>3

\* The operations whose browser stops keep the promise of CallbackOnce.
THEOREM AuthorizationKeepsPromise == Spec => KeepsPromise
<1>1. Init => Promise!Init
  BY DEF Init, Promise!Init, status, Status, Quiet
<1>2. Inductive /\ Inductive' /\ [Next]_vars => [Promise!Next]_(Promise!vars)
  <2> SUFFICES ASSUME Inductive, Inductive', [Next]_vars
               PROVE  [Promise!Next]_(Promise!vars)
    OBVIOUS
  <2>1. CASE UNCHANGED vars
    BY <2>1 DEF vars, Promise!vars, status, Status
  <2>2. ASSUME NEW f \in Flows, Start(f) \/ Calls(f) \/ Browser(f)
        PROVE  [Promise!Next]_(Promise!vars)
    <3>1. \A g \in Quiet : g # f => Status(g)' = Status(g)
      BY <2>2, OthersUntouched DEF Quiet, Status
    <3>2. CASE f \notin Quiet
      BY <3>1, <3>2 DEF status, Promise!vars
    <3> SUFFICES ASSUME f \in Quiet PROVE [Promise!Next]_(Promise!vars)
      BY <3>2
    <3>3. status' = [status EXCEPT ![f] = Status(f)']
      BY <3>1 DEF status
    <3>4. status[f] = Status(f)
      BY DEF status
    <3>5. CASE Status(f)' = Status(f)
      BY <3>1, <3>5 DEF status, Promise!vars
    <3>6. CASE Status(f) = "idle" /\ Status(f)' = "pending"
      BY <3>3, <3>4, <3>6 DEF Promise!Next, Promise!Start
    <3>7. CASE Status(f) = "pending" /\ Status(f)' \in {"success", "error", "threw"}
      BY <3>3, <3>4, <3>7
         DEF Promise!Next, Promise!Finish, Promise!Answers
    <3>8. QED
      BY <2>2, <3>5, <3>6, <3>7, StepOfPromise
  <2>3. QED
    BY <2>1, <2>2 DEF Next
<1>3. QED
  BY <1>1, <1>2, AuthorizationInvariant, PTL DEF Spec, KeepsPromise, Promise!Spec
=============================================================================
