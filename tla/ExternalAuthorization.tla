----------------------- MODULE ExternalAuthorization -----------------------
(***************************************************************************)
(* Operations that send the user to a bank's page: TKMember                 *)
(* initiateAccountLinking: reads the bank, has a TKOauthEngine obtain an    *)
(* access token in a browser and links the accounts; TransferTokenBuilder   *)
(* executeAsync: tries to create the token, and where the bank requires an  *)
(* authorization reads the account, obtains an access token and tries again. *)
(* Each call of TKClient is answered once (CallbackOnce).  The browser talks *)
(* to the engine for as long as it lives.                                   *)
(***************************************************************************)
EXTENDS Naturals, Sequences

CONSTANTS
  Linkings,    \* initiateAccountLinking: operations
  Transfers,   \* executeAsync: operations
  KeepsUp,     \* what the browser of each still does: "back" once it has found
               \* the completion URL, "loading" after that or dismissed
  MaxAnswers   \* bound: answers to one operation while its browser lives

ASSUME ExternalAuthorizationAssumption ==
  /\ Linkings \cap Transfers = {}
  /\ KeepsUp \in [Linkings \cup Transfers -> SUBSET {"back", "loading"}]
  /\ MaxAnswers \in Nat \ {0}

Flows == Linkings \cup Transfers

\* Those whose browser reports nothing once it has found the completion URL.
Quiet == {f \in Flows : KeepsUp[f] = {}}

VARIABLES
  at,      \* what each operation waits for
  browser, \* its engine's browser
  found,   \* the engine's completionUrlIsFound
  used,    \* how often its access token was used in a call
  answers  \* what the application was told

vars == <<at, browser, found, used, answers>>

\* "first" and "second" are calls before and after the authorization.
Places == {"idle", "invoked", "first", "account", "browser", "second", "done", "threw"}
Answers == {"success", "error", "cancelled"}

TypeOK ==
  /\ at \in [Flows -> Places]
  /\ browser \in [Flows -> {"none", "presented", "dismissed"}]
  /\ found \in [Flows -> BOOLEAN]
  /\ used \in [Flows -> 0 .. MaxAnswers]
  /\ answers \in [Flows -> Seq(Answers)]

Init ==
  /\ at = [f \in Flows |-> "idle"]
  /\ browser = [f \in Flows |-> "none"]
  /\ found = [f \in Flows |-> FALSE]
  /\ used = [f \in Flows |-> 0]
  /\ answers = [f \in Flows |-> <<>>]
-----------------------------------------------------------------------------

Goto(f, place) == at' = [at EXCEPT ![f] = place]
Tell(f, answer) == answers' = [answers EXCEPT ![f] = Append(@, answer)]

\* TKOauthEngine close, which dismisses the browser once.
Close(f) ==
  browser' = [browser EXCEPT ![f] = IF @ = "presented" THEN "dismissed" ELSE @]

Start(f) ==
  /\ at[f] = "idle"
  /\ Goto(f, "invoked")
  /\ UNCHANGED <<browser, found, used, answers>>

\* executeAsync: throws if the builder has no source account.
Throw(f) ==
  /\ f \in Transfers
  /\ at[f] = "invoked"
  /\ Goto(f, "threw")
  /\ UNCHANGED <<browser, found, used, answers>>

\* getBankInfo: or createTransferToken:
FirstCall(f) ==
  /\ at[f] = "invoked"
  /\ Goto(f, "first")
  /\ UNCHANGED <<browser, found, used, answers>>

\* Mutant: an account that cannot be read has the token tried again.
RetriesForEver(f) ==
  /\ at[f] \in {"first", "account"}
  /\ IF at[f] = "account"
       THEN Goto(f, "first") /\ UNCHANGED answers
       ELSE Goto(f, "done") /\ Tell(f, "error")
  /\ UNCHANGED <<browser, found, used>>

\* A call fails, or the bank refuses, and the operation ends.
CallFails(f) ==
  /\ at[f] \in {"first", "account"}
  /\ Goto(f, "done")
  /\ Tell(f, "error")
  /\ UNCHANGED <<browser, found, used>>

\* createTransferToken: needs no authorization.
CreatedAtOnce(f) ==
  /\ f \in Transfers
  /\ at[f] = "first"
  /\ Goto(f, "done")
  /\ Tell(f, "success")
  /\ UNCHANGED <<browser, found, used>>

AuthRequired(f) ==
  /\ f \in Transfers
  /\ at[f] = "first"
  /\ Goto(f, "account")
  /\ UNCHANGED <<browser, found, used, answers>>

\* The engine is made and its browser loads the bank's page, if the application
\* has a view controller to present it.
Authorize(f) ==
  /\ at[f] = IF f \in Linkings THEN "first" ELSE "account"
  /\ \/ /\ Goto(f, "browser")
        /\ browser' = [browser EXCEPT ![f] = "presented"]
        /\ UNCHANGED answers
     \/ /\ Goto(f, "done")
        /\ Tell(f, "cancelled")
        /\ UNCHANGED browser
  /\ UNCHANGED <<found, used>>

-----------------------------------------------------------------------------
(* The browser *)

\* A page can still be loading after the browser was dismissed.
Loads(f) ==
  /\ Len(answers[f]) < MaxAnswers
  /\ \/ browser[f] = "presented"
     \/ browser[f] = "dismissed" /\ "loading" \in KeepsUp[f]

\* Mutant: the completion URL is not remembered.
AgainAndAgain(f) ==
  /\ Loads(f)
  /\ used[f] < MaxAnswers
  /\ Goto(f, "second")
  /\ used' = [used EXCEPT ![f] = @ + 1]
  /\ IF f \in Transfers THEN Close(f) ELSE UNCHANGED browser
  /\ UNCHANGED <<found, answers>>

\* The page redirects with an access token.  The accounts are linked, or the
\* token is created with it and the engine closed.
CompletionUrl(f) ==
  /\ Loads(f)
  /\ ~found[f]
  /\ found' = [found EXCEPT ![f] = TRUE]
  /\ Goto(f, "second")
  /\ used' = [used EXCEPT ![f] = @ + 1]
  /\ IF f \in Transfers THEN Close(f) ELSE UNCHANGED browser
  /\ UNCHANGED answers

\* Mutant: onError does not close the engine.
FailsOpen(f, answer) ==
  /\ Tell(f, answer)
  /\ Goto(f, IF at[f] = "browser" THEN "done" ELSE at[f])
  /\ UNCHANGED <<browser, used>>

\* onError of the engine: what has been asked for already goes on.
AuthorizationFails(f, answer) ==
  /\ Tell(f, answer)
  /\ Close(f)
  /\ Goto(f, IF at[f] = "browser" THEN "done" ELSE at[f])
  /\ UNCHANGED used

\* The page redirects with an error.
ErrorUrl(f) ==
  /\ Loads(f)
  /\ ~found[f]
  /\ found' = [found EXCEPT ![f] = TRUE]
  /\ AuthorizationFails(f, "error")

\* The user goes back: browserWillCancel: asks nothing of completionUrlIsFound.
Back(f) ==
  /\ browser[f] = "presented"
  /\ found[f] => "back" \in KeepsUp[f]
  /\ Len(answers[f]) < MaxAnswers
  /\ AuthorizationFails(f, "cancelled")
  /\ UNCHANGED found

\* The page fails to load with an error the browser reports.
NavigationFails(f) ==
  /\ Loads(f)
  /\ found[f] => "loading" \in KeepsUp[f]
  /\ AuthorizationFails(f, "cancelled")
  /\ UNCHANGED found

-----------------------------------------------------------------------------
(* The call made with the access token *)

\* Mutant: the engine is closed on success only.
LeavesOpen(f, answer) ==
  /\ at[f] = "second"
  /\ Goto(f, "done")
  /\ Tell(f, answer)
  /\ IF answer = "success" THEN Close(f) ELSE UNCHANGED browser
  /\ UNCHANGED <<found, used>>

\* Linking closes the engine after its answer.  A bank that asks for yet another
\* authorization is an error.
Answered(f, answer) ==
  /\ at[f] = "second"
  /\ Goto(f, "done")
  /\ Tell(f, answer)
  /\ Close(f)
  /\ UNCHANGED <<found, used>>

Calls(f) ==
  \/ Throw(f) \/ FirstCall(f) \/ CallFails(f)
  \/ CreatedAtOnce(f) \/ AuthRequired(f) \/ Authorize(f)
  \/ \E answer \in {"success", "error"} : Answered(f, answer)

Browser(f) ==
  CompletionUrl(f) \/ ErrorUrl(f) \/ Back(f) \/ NavigationFails(f)

Next == \E f \in Flows : Start(f) \/ Calls(f) \/ Browser(f)

Spec == Init /\ [][Next]_vars

\* Each call is answered, as RpcCall implements CallbackOnce.  Users may stay on
\* the bank's page for ever.
FairSpec == Spec /\ \A f \in Flows : WF_vars(Calls(f))
-----------------------------------------------------------------------------
(* Properties *)

\* The access token obtained for an operation is used for one call at most,
\* however the browser goes on after its completion URL (TKOauthEngine
\* completionUrlIsFound): accounts are linked once, a transfer is retried once.
TokenUsedOnce == \A f \in Flows : used[f] <= 1

\* An operation that ended has left no browser on the screen, and a transfer has
\* dismissed it before its second attempt ("it is necessary to close the auth
\* engine after authorizeOnSuccess:onError:", TKOauthEngine.h).
BrowserClosed ==
  \A f \in Flows :
    /\ answers[f] # <<>> => browser[f] # "presented"
    /\ f \in Transfers /\ at[f] = "second" => browser[f] # "presented"

\* What was answered is over, with a browser that stops: no call goes out for an
\* operation after its application was told of its end, and nothing else is told
\* (TKMember initiateAccountLinking:, TransferTokenBuilder executeAsync:).
FinalAnswer ==
  [][\A f \in Quiet :
       answers[f] # <<>> => answers'[f] = answers[f] /\ used'[f] = used[f]]_vars

\* What TKOauthEngine.h says of its callbacks, "invoked on success" and "invoked on
\* error (Cancellation is a kind of error)": one of them is.
AnsweredOnce == \A f \in Flows : Len(answers[f]) <= 1

\* Nothing but the user keeps an operation from its end.
ComesBackFromCalls ==
  \A f \in Flows :
    at[f] \in {"invoked", "first", "account", "second"} ~>
      at[f] \in {"browser", "done", "threw"}

-----------------------------------------------------------------------------
(* The inductive invariant *)

\* Until it is authorizing, an operation has no browser and no answer.
QuietBefore ==
  \A f \in Flows :
    at[f] \in {"idle", "invoked", "first", "account", "threw"} =>
      browser[f] = "none" /\ answers[f] = <<>> /\ ~found[f]

\* While it is, the browser is shown and has not found its completion URL.
Authorizing ==
  \A f \in Flows :
    at[f] = "browser" =>
      browser[f] = "presented" /\ answers[f] = <<>> /\ ~found[f]

UsedIsFound == \A f \in Flows : used[f] <= (IF found[f] THEN 1 ELSE 0)

\* With a browser that stops, an answered operation is done.
StopsMeansDone ==
  \A f \in Quiet :
    /\ at[f] = "done" <=> answers[f] # <<>>
    /\ at[f] = "second" => found[f]

Inductive ==
  /\ TypeOK
  /\ QuietBefore
  /\ Authorizing
  /\ UsedIsFound
  /\ BrowserClosed
  /\ StopsMeansDone

-----------------------------------------------------------------------------
(* Refinement of CallbackOnce *)

Status(f) ==
  IF answers[f] # <<>>
    THEN IF answers[f][Len(answers[f])] = "success" THEN "success" ELSE "error"
  ELSE IF at[f] \in {"idle", "threw"} THEN at[f]
  ELSE "pending"

status == [f \in Quiet |-> Status(f)]

Promise == INSTANCE CallbackOnce WITH Ops <- Quiet, status <- status, alive <- TRUE

\* With a browser that stops at its completion, an operation is answered the way
\* the calls it is made of are: pending, then one answer, for good.
KeepsPromise == Promise!Spec
=============================================================================
