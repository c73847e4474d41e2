------------------------------ MODULE SyncCall ------------------------------
(***************************************************************************)
(* Synchronous calls: TKRpcSyncCall run: starts an asynchronous operation   *)
(* and does not return until one of its callbacks has signalled.  The one    *)
(* operation called so is executeAsync: of TransferTokenBuilder (execute):   *)
(* it makes up to three calls to the server and may open a bank's page in    *)
(* between.  The handlers of those calls, and the timeout that bounds each,  *)
(* are blocks of the main queue; nothing bounds the page.  On the main thread *)
(* run: therefore turns the run loop while it waits, and whatever event the  *)
(* run loop handles may make another synchronous call.                       *)
(***************************************************************************)
EXTENDS Sequences, SequencesExt, Naturals

CONSTANTS
  Calls,         \* TKRpcSyncCall objects, one for each call
  Block,         \* a frame of the main thread: application code in a callback
  MaxBlocks,     \* bound: callbacks of other operations the application gets
  FromCallbacks  \* whether the application calls synchronously from a callback

ASSUME SyncCallAssumption ==
  Block \notin Calls /\ MaxBlocks \in Nat /\ FromCallbacks \in BOOLEAN

VARIABLES
  stack,   \* the main thread's frames: synchronous calls and callbacks
  blocks,  \* callbacks of other operations run so far
  state    \* what became of each call

vars == <<stack, blocks, state>>

Init ==
  /\ stack = <<>>
  /\ blocks = 0
  /\ state = [c \in Calls |-> "new"]

\* Calls to the server that have not been answered: createTransferToken:, the account's,
\* createTransferToken: again.
Unanswered == {"creating", "reading", "authorized"}

\* Those that have, with a handler queued for the answer: it needs an authorization, the
\* account is there, the token was created, something failed.
Answered == {"asking", "presenting", "succeeding", "failing"}

\* "browsing": the bank's page is open.  Then a callback has signalled, and run: ended.
Signalled == {"succeeded", "failed"}
Ended == {"returned", "threw"}
States == {"new", "browsing"} \cup Unanswered \cup Answered \cup Signalled \cup Ended

\* A call in one of the states from goes to one of to.
Becomes(c, from, to) ==
  /\ state[c] \in from
  /\ \E s \in to : state' = [state EXCEPT ![c] = s]
-----------------------------------------------------------------------------

\* The run loop is what the main thread executes: at the bottom of its stack, or
\* from within a synchronous call.
RunLoopTurns == stack # <<>> => Last(stack) \in Calls

\* Mutant: run: waits for the semaphore without turning the run loop.
QueueDrainsWhenIdle == stack = <<>>

\* A run loop, the one run: turns too, drains the main queue; external: except inside
\* one of its blocks.
QueueDrains == ~Contains(stack, Block)

\* executeAsync: raises an exception if the builder has no source account.
Raise(c) == Becomes(c, {"new"}, {"threw"}) /\ UNCHANGED <<stack, blocks>>

\* The block of run: asks for the token, or has called onError already where the request
\* cannot be signed.
Started == {"creating", "failed"}

\* The application calls from an event or, if it does, from a callback.
RunOnMain(c) ==
  /\ ~FromCallbacks => RunLoopTurns
  /\ Becomes(c, {"new"}, Started)
  /\ stack' = Append(stack, c)
  /\ UNCHANGED blocks

\* Any other thread just waits for the semaphore.
RunOffMain(c) == Becomes(c, {"new"}, Started) /\ UNCHANGED <<stack, blocks>>

\* External: the server answers, and the handler is queued.
Respond(c) ==
  /\ \/ Becomes(c, {"creating"}, {"asking", "succeeding"})
     \/ Becomes(c, {"reading"}, {"presenting"})
     \/ Becomes(c, {"authorized"}, {"succeeding"})
     \/ Becomes(c, Unanswered, {"failing"})
  /\ UNCHANGED <<stack, blocks>>

\* The timeout block of a call cancels it.
TimeOut(c) ==
  QueueDrains /\ Becomes(c, Unanswered, {"failing"}) /\ UNCHANGED <<stack, blocks>>

\* Mutant: onError keeps the error and does not signal.
HandleSuccess(c) ==
  /\ QueueDrains
  /\ \/ Becomes(c, {"asking"}, {"reading", "failed"})
     \/ Becomes(c, {"presenting"}, {"browsing", "failed"})
     \/ Becomes(c, {"succeeding"}, {"succeeded"})
  /\ UNCHANGED <<stack, blocks>>

\* The handler of an answer: it reads the account or opens the page (or fails, the
\* request not signed or no view to present the page from), or onSuccess or onError
\* keeps what it is given and signals.
Handle(c) ==
  /\ QueueDrains
  /\ \/ Becomes(c, {"asking"}, {"reading", "failed"})
     \/ Becomes(c, {"presenting"}, {"browsing", "failed"})
     \/ Becomes(c, {"succeeding"}, {"succeeded"})
     \/ Becomes(c, {"failing"}, {"failed"})
  /\ UNCHANGED <<stack, blocks>>

\* An event of the page: it has the access token and the token is asked for again, or
\* onError signals: the user goes back, the bank refuses, the page fails to load, even
\* after it had the access token.
Page(c) ==
  /\ RunLoopTurns
  /\ \/ Becomes(c, {"browsing"}, {"authorized"})
     \/ Becomes(c, {"browsing", "authorized"}, {"failed"})
  /\ UNCHANGED <<stack, blocks>>

Outcome(c) ==
  Becomes(c, {"succeeded"}, {"returned"}) \/ Becomes(c, {"failed"}, {"threw"})

\* Mutant: all calls share one semaphore, so the innermost frame returns.
FinishInnermost(c) ==
  /\ Outcome(c)
  /\ stack' = IF Contains(stack, c) THEN Front(stack) ELSE stack
  /\ UNCHANGED blocks

\* run: finds the semaphore signalled and returns the result or throws the
\* error; on the main thread only when it is the innermost frame.
Finish(c) ==
  /\ Outcome(c)
  /\ IF Contains(stack, c)
       THEN Last(stack) = c /\ stack' = Front(stack)
       ELSE UNCHANGED stack
  /\ UNCHANGED blocks

\* A callback of some asynchronous operation runs application code,
EnterCallback ==
  /\ QueueDrains
  /\ blocks < MaxBlocks
  /\ blocks' = blocks + 1
  /\ stack' = Append(stack, Block)
  /\ UNCHANGED state

\* which returns.
LeaveCallback ==
  /\ stack # <<>>
  /\ Last(stack) = Block
  /\ stack' = Front(stack)
  /\ UNCHANGED <<blocks, state>>

Next ==
  \/ \E c \in Calls :
       \/ Raise(c) \/ RunOnMain(c) \/ RunOffMain(c)
       \/ Respond(c) \/ TimeOut(c) \/ Handle(c) \/ Page(c)
       \/ Finish(c)
  \/ EnterCallback
  \/ LeaveCallback

\* The main queue's blocks run when they can, threads run, callbacks return.
\* Nothing is assumed of the network, nor of the user, who may leave a page open.
Fairness ==
  /\ \A c \in Calls : WF_vars(TimeOut(c)) /\ WF_vars(Handle(c)) /\ WF_vars(Finish(c))
  /\ WF_vars(LeaveCallback)

Spec == Init /\ [][Next]_vars /\ Fairness
-----------------------------------------------------------------------------
(* Properties *)

UnderWay(c) == state[c] \notin {"new"} \cup Ended

\* However calls nest and in whatever order they are answered, a frame of the
\* main thread belongs to a call that has not returned, and to no other: no call
\* is ended by the answer to another.
FramesAreUnfinished ==
  \A i \in DOMAIN stack : stack[i] \in Calls =>
    /\ UnderWay(stack[i])
    /\ \A j \in DOMAIN stack : stack[j] = stack[i] => j = i

\* A step of the call that waits for nobody: the timeout of what it asked the server for
\* or the handler of the answer is a block of the main queue and can run, or it has
\* signalled and its thread is in run:.
CanMoveOn(c) ==
  \/ state[c] \in Unanswered \cup Answered /\ QueueDrains
  \/ state[c] \in Signalled /\ (Contains(stack, c) => Last(stack) = c)

\* The page of a call waits for its user, who can go back.
WaitsForUser(c) == state[c] = "browsing" /\ RunLoopTurns

\* Calls never wait for one another in a circle: if some call has not come back, then a
\* callback is about to return, some call can move on or waits for its user, provided no
\* callback makes a synchronous call (TKRpcSyncCall run:).  (EveryCallComesBack rests on
\* it.)
NeverHangs ==
  ~FromCallbacks /\ (\E c \in Calls : UnderWay(c)) =>
    \/ stack # <<>> /\ Last(stack) = Block
    \/ \E c \in Calls : CanMoveOn(c) \/ WaitsForUser(c)

\* The frame of d is that of c, or was put above it.
Above(d, c) ==
  \E i, j \in DOMAIN stack : i <= j /\ stack[i] = c /\ stack[j] = d

\* An open page keeps c waiting: its own, or one of a call nested in it.
KeptByPage(c) ==
  \E d \in Calls : state[d] = "browsing" /\ (d = c \/ Above(d, c))

\* Every synchronous call comes back, from whatever thread and however deep in
\* others it was made, whether or not the server answers, unless some user never leaves
\* the page it or a call nested in it has opened, for which there is no timeout ("we need
\* to excute the runloop to receive the onSuccess/onError callback. Otherwise the main
\* thread will be hung by semaphore", TKRpcSyncCall run:; executeAsync:).
EveryCallComesBack ==
  \A c \in Calls :
    []<>~KeptByPage(c) => (UnderWay(c) ~> state[c] \in Ended)
=============================================================================
