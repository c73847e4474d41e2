--------------------------- MODULE SyncCallProofs ---------------------------
(* Theorems about SyncCall. *)
EXTENDS SyncCall, TLAPS

Frames == Calls \cup {Block}

\* The invariant with the types it needs.
FramesInvariant ==
  /\ stack \in Seq(Frames)
  /\ state \in [Calls -> States]
  /\ FramesAreUnfinished
-----------------------------------------------------------------------------
(* Frames that are pushed and popped *)

LEMMA Pushed ==
  ASSUME NEW s \in Seq(Frames), NEW f \in Frames
  PROVE  /\ Append(s, f) \in Seq(Frames)
         /\ DOMAIN s = 1 .. Len(s) /\ Len(s) \in Nat
         /\ DOMAIN Append(s, f) = 1 .. Len(s) + 1
         /\ Append(s, f)[Len(s) + 1] = f
         /\ \A i \in 1 .. Len(s) : Append(s, f)[i] = s[i]
  OBVIOUS

LEMMA Popped ==
  ASSUME NEW s \in Seq(Frames), s # <<>>
  PROVE  /\ Front(s) \in Seq(Frames)
         /\ Len(s) \in Nat \ {0} /\ DOMAIN s = 1 .. Len(s)
         /\ DOMAIN Front(s) = 1 .. Len(s) - 1
         /\ \A i \in 1 .. Len(s) - 1 : Front(s)[i] = s[i]
         /\ Last(s) = s[Len(s)]
  BY DEF Front, Last

\* A call that is not on the stack may take any state; one on it may move on until it
\* has returned.
LEMMA StateMoves ==
  ASSUME FramesInvariant, NEW c \in Calls, NEW to \in States,
         state' = [state EXCEPT ![c] = to], UNCHANGED stack,
         to \notin {"new"} \cup Ended \/ ~Contains(stack, c)
  PROVE  FramesInvariant'
<1>1. stack \in Seq(Frames) /\ DOMAIN stack = 1 .. Len(stack) /\ state \in [Calls -> States]
  BY DEF FramesInvariant
<1>2. state' \in [Calls -> States]
  BY <1>1
<1>3. \A i \in DOMAIN stack : stack[i] \in Calls =>
        /\ state'[stack[i]] \notin {"new"} \cup Ended
        /\ \A j \in DOMAIN stack : stack[j] = stack[i] => j = i
  BY <1>1 DEF FramesInvariant, FramesAreUnfinished, UnderWay, Contains
<1> QED
  BY <1>1, <1>2, <1>3 DEF FramesInvariant, FramesAreUnfinished, UnderWay

LEMMA RunOnMainKeeps ==
  ASSUME FramesInvariant, NEW c \in Calls, RunOnMain(c)
  PROVE  FramesInvariant'
<1>1. /\ stack \in Seq(Frames) /\ state \in [Calls -> States] /\ c \in Frames
      /\ state[c] = "new" /\ stack' = Append(stack, c)
      /\ \E to \in Started : state' = [state EXCEPT ![c] = to]
  BY DEF FramesInvariant, RunOnMain, Becomes, Frames
<1>2. PICK to \in Started : state' = [state EXCEPT ![c] = to]
  BY <1>1
<1>3. /\ to \in States /\ to \notin {"new"} \cup Ended
  BY DEF Started, States, Unanswered, Signalled, Ended
<1>4. state' \in [Calls -> States] /\ state'[c] = to
  BY <1>1, <1>2, <1>3
<1>5. \A i \in DOMAIN stack : stack[i] \in Calls =>
        /\ stack[i] # c
        /\ state'[stack[i]] \notin {"new"} \cup Ended
        /\ \A j \in DOMAIN stack : stack[j] = stack[i] => j = i
  BY <1>1, <1>2 DEF FramesInvariant, FramesAreUnfinished, UnderWay
<1>6. /\ DOMAIN stack = 1 .. Len(stack) /\ Len(stack) \in Nat
      /\ DOMAIN stack' = 1 .. Len(stack) + 1 /\ stack'[Len(stack) + 1] = c
      /\ \A i \in 1 .. Len(stack) : stack'[i] = stack[i]
      /\ stack' \in Seq(Frames)
  BY <1>1, Pushed
<1>7. ASSUME NEW i \in DOMAIN stack', stack'[i] \in Calls
      PROVE  /\ state'[stack'[i]] \notin {"new"} \cup Ended
             /\ \A j \in DOMAIN stack' : stack'[j] = stack'[i] => j = i
  <2>1. \A j \in DOMAIN stack' : j \in DOMAIN stack \/ j = Len(stack) + 1
    BY <1>6
  <2>2. \A j \in DOMAIN stack : stack[j] # c
    BY <1>1, <1>5
  <2> QED
    BY <1>1, <1>5, <1>6, <1>7, <1>3, <1>4, <2>1, <2>2
<1> QED
  BY <1>6, <1>7, <1>4 DEF FramesInvariant, FramesAreUnfinished, UnderWay

\* The stack loses its last frame, and no call on what is left ends.
LEMMA PopKeeps ==
  ASSUME FramesInvariant, stack # <<>>, stack' = Front(stack),
         state' \in [Calls -> States],
         \A c \in Calls : c # Last(stack) => state'[c] = state[c]
  PROVE  FramesInvariant'
<1>1. stack \in Seq(Frames)
  BY DEF FramesInvariant
<1>2. /\ Len(stack) \in Nat \ {0} /\ DOMAIN stack = 1 .. Len(stack)
      /\ DOMAIN stack' = 1 .. Len(stack) - 1
      /\ \A i \in 1 .. Len(stack) - 1 : stack'[i] = stack[i]
      /\ Last(stack) = stack[Len(stack)]
      /\ stack' \in Seq(Frames)
  BY <1>1, Popped
<1>3. \A i \in DOMAIN stack : stack[i] \in Calls =>
        /\ state[stack[i]] \notin {"new"} \cup Ended
        /\ \A j \in DOMAIN stack : stack[j] = stack[i] => j = i
  BY DEF FramesInvariant, FramesAreUnfinished, UnderWay
<1>4. ASSUME NEW i \in DOMAIN stack', stack'[i] \in Calls
      PROVE  /\ state'[stack'[i]] \notin {"new"} \cup Ended
             /\ \A j \in DOMAIN stack' : stack'[j] = stack'[i] => j = i
  <2>1. i \in DOMAIN stack /\ Len(stack) \in DOMAIN stack /\ i # Len(stack)
        /\ stack'[i] = stack[i]
    BY <1>2
  <2>2. stack[i] # Last(stack)
    BY <1>2, <1>3, <1>4, <2>1
  <2> QED
    BY <1>2, <1>3, <1>4, <2>1, <2>2
<1> QED
  BY <1>2, <1>4 DEF FramesInvariant, FramesAreUnfinished, UnderWay

LEMMA FinishKeeps ==
  ASSUME FramesInvariant, NEW c \in Calls, Finish(c)
  PROVE  FramesInvariant'
<1>1. PICK to \in Ended : state' = [state EXCEPT ![c] = to]
  BY DEF Finish, Outcome, Becomes, Ended
<1>2. to \in States /\ stack \in Seq(Frames) /\ state \in [Calls -> States]
  BY DEF States, FramesInvariant
<1>3. state' \in [Calls -> States] /\ \A d \in Calls : d # c => state'[d] = state[d]
  BY <1>1, <1>2
<1>4. CASE Contains(stack, c)
  <2>1. stack # <<>>
    BY <1>2, <1>4 DEF Contains
  <2> QED
    BY <1>3, <1>4, <2>1, PopKeeps DEF Finish
<1>5. CASE ~Contains(stack, c)
  BY <1>1, <1>2, <1>5, StateMoves DEF Finish
<1> QED
  BY <1>4, <1>5

LEMMA EnterCallbackKeeps ==
  ASSUME FramesInvariant, EnterCallback
  PROVE  FramesInvariant'
<1>1. /\ stack \in Seq(Frames) /\ state \in [Calls -> States] /\ Block \in Frames
      /\ state' = state /\ stack' = Append(stack, Block) /\ Block \notin Calls
  BY SyncCallAssumption DEF FramesInvariant, EnterCallback, Frames
<1>2. \A i \in DOMAIN stack : stack[i] \in Calls =>
        /\ state[stack[i]] \notin {"new"} \cup Ended
        /\ \A j \in DOMAIN stack : stack[j] = stack[i] => j = i
  BY DEF FramesInvariant, FramesAreUnfinished, UnderWay
<1>3. /\ DOMAIN stack = 1 .. Len(stack) /\ Len(stack) \in Nat
      /\ DOMAIN stack' = 1 .. Len(stack) + 1 /\ stack'[Len(stack) + 1] = Block
      /\ \A i \in 1 .. Len(stack) : stack'[i] = stack[i]
      /\ stack' \in Seq(Frames)
  BY <1>1, Pushed
<1>4. ASSUME NEW i \in DOMAIN stack', stack'[i] \in Calls
      PROVE  /\ state'[stack'[i]] \notin {"new"} \cup Ended
             /\ \A j \in DOMAIN stack' : stack'[j] = stack'[i] => j = i
  <2>1. \A j \in DOMAIN stack' : j \in DOMAIN stack \/ j = Len(stack) + 1
    BY <1>3
  <2> QED
    BY <1>1, <1>2, <1>3, <1>4, <2>1
<1> QED
  BY <1>1, <1>3, <1>4 DEF FramesInvariant, FramesAreUnfinished, UnderWay

\* The steps that leave the stack alone and end no call.
Progress(c) == RunOffMain(c) \/ Respond(c) \/ TimeOut(c) \/ Handle(c) \/ Page(c)

LEMMA NextKeeps ==
  ASSUME FramesInvariant, [Next]_vars
  PROVE  FramesInvariant'
<1>1. ASSUME NEW c \in Calls, Progress(c)
      PROVE  FramesInvariant'
  <2>1. PICK to \in {"browsing"} \cup Unanswered \cup Answered \cup Signalled :
          state' = [state EXCEPT ![c] = to]
    BY <1>1 DEF Progress, RunOffMain, Started, Respond, TimeOut, Handle, Page, Becomes,
                Unanswered, Answered, Signalled
  <2>2. to \in States /\ to \notin {"new"} \cup Ended
    BY DEF States, Unanswered, Answered, Signalled, Ended
  <2>3. UNCHANGED stack
    BY <1>1 DEF Progress, RunOffMain, Respond, TimeOut, Handle, Page
  <2> QED
    BY <2>1, <2>2, <2>3, StateMoves
<1>2. ASSUME LeaveCallback
      PROVE  FramesInvariant'
  BY <1>2, PopKeeps DEF LeaveCallback, FramesInvariant
<1>3. ASSUME UNCHANGED vars
      PROVE  FramesInvariant'
  BY <1>3 DEF vars, FramesInvariant, FramesAreUnfinished, UnderWay
<1>4. ASSUME NEW c \in Calls, Raise(c)
      PROVE  FramesInvariant'
  <2>1. state[c] = "new" /\ state' = [state EXCEPT ![c] = "threw"] /\ UNCHANGED stack
    BY <1>4 DEF Raise, Becomes
  <2>2. "threw" \in States
    BY DEF States, Ended
  <2>3. ~Contains(stack, c)
    BY <2>1 DEF FramesInvariant, FramesAreUnfinished, UnderWay, Contains
  <2> QED
    BY <2>1, <2>2, <2>3, StateMoves
<1> QED
  BY <1>1, <1>2, <1>3, <1>4, RunOnMainKeeps, FinishKeeps, EnterCallbackKeeps
  DEF Next, Progress

\* However many calls there are and however they nest, each frame is one of a call that
\* has not returned.
THEOREM FramesStayUnfinished == Spec => []FramesAreUnfinished
<1>1. Init => FramesInvariant
  BY DEF Init, FramesInvariant, FramesAreUnfinished, UnderWay, States, Frames
<1>2. FramesInvariant /\ [Next]_vars => FramesInvariant'
  BY NextKeeps
<1>3. FramesInvariant => FramesAreUnfinished
  BY DEF FramesInvariant
<1> QED
  BY <1>1, <1>2, <1>3, PTL DEF Spec
-----------------------------------------------------------------------------
(* Nobody waits for ever *)

\* If no callback makes a synchronous call, a callback is the innermost frame.
CallbackIsInnermost ==
  ~FromCallbacks => \A i \in DOMAIN stack : stack[i] = Block => i = Len(stack)

\* What is pushed is a call, or no callback was there before;
LEMMA PushedInnermost ==
  ASSUME NEW f \in Frames, stack \in Seq(Frames), CallbackIsInnermost,
         stack' = Append(stack, f),
         ~FromCallbacks => \A i \in DOMAIN stack : stack[i] # Block
  PROVE  CallbackIsInnermost'
<1>1. /\ DOMAIN stack = 1 .. Len(stack) /\ Len(stack) \in Nat
      /\ DOMAIN stack' = 1 .. Len(stack) + 1 /\ stack' \in Seq(Frames)
      /\ \A i \in 1 .. Len(stack) : stack'[i] = stack[i]
  BY Pushed
<1>2. Len(stack') = Len(stack) + 1
  BY <1>1
<1> QED
  BY <1>1, <1>2 DEF CallbackIsInnermost

\* what is popped is the innermost frame.
LEMMA PoppedInnermost ==
  ASSUME stack \in Seq(Frames), stack # <<>>, CallbackIsInnermost, stack' = Front(stack)
  PROVE  CallbackIsInnermost'
<1>1. /\ Len(stack) \in Nat \ {0} /\ DOMAIN stack = 1 .. Len(stack)
      /\ DOMAIN stack' = 1 .. Len(stack) - 1
      /\ \A i \in 1 .. Len(stack) - 1 : stack'[i] = stack[i]
  BY Popped
<1> QED
  BY <1>1 DEF CallbackIsInnermost

LEMMA NextInnermost ==
  ASSUME FramesInvariant, CallbackIsInnermost, [Next]_vars
  PROVE  CallbackIsInnermost'
<1>1. stack \in Seq(Frames)
  BY DEF FramesInvariant
<1>2. ASSUME NEW c \in Calls, RunOnMain(c)
      PROVE  CallbackIsInnermost'
  <2>1. c \in Frames /\ stack' = Append(stack, c) /\ (~FromCallbacks => RunLoopTurns)
    BY <1>2 DEF Frames, RunOnMain
  <2>2. ASSUME ~FromCallbacks, NEW i \in DOMAIN stack
        PROVE  stack[i] # Block
    <3>1. stack # <<>>
      BY <1>1, <2>2
    <3>2. stack[Len(stack)] \in Calls
      BY <1>1, <2>1, <2>2, <3>1, Popped DEF RunLoopTurns
    <3> QED
      BY <2>2, <3>2, SyncCallAssumption DEF CallbackIsInnermost
  <2> QED
    BY <1>1, <2>1, <2>2, PushedInnermost
<1>3. ASSUME EnterCallback
      PROVE  CallbackIsInnermost'
  <2>1. Block \in Frames /\ stack' = Append(stack, Block)
    BY <1>3 DEF Frames, EnterCallback
  <2>2. \A i \in DOMAIN stack : stack[i] # Block
    BY <1>3, <1>1 DEF EnterCallback, QueueDrains, Contains
  <2> QED
    BY <1>1, <2>1, <2>2, PushedInnermost
<1>4. ASSUME UNCHANGED stack
      PROVE  CallbackIsInnermost'
  BY <1>4 DEF CallbackIsInnermost
<1>5. ASSUME NEW c \in Calls, Finish(c)
      PROVE  CallbackIsInnermost'
  <2>1. CASE Contains(stack, c)
    <3>1. stack # <<>>
      BY <1>1, <2>1 DEF Contains
    <3> QED
      BY <1>1, <1>5, <2>1, <3>1, PoppedInnermost DEF Finish
  <2>2. CASE ~Contains(stack, c)
    BY <1>4, <1>5, <2>2 DEF Finish
  <2> QED
    BY <2>1, <2>2
<1>6. ASSUME LeaveCallback
      PROVE  CallbackIsInnermost'
  BY <1>1, <1>6, PoppedInnermost DEF LeaveCallback
<1>7. \A c \in Calls : Raise(c) \/ Progress(c) => UNCHANGED stack
  BY DEF Raise, Progress, RunOffMain, Respond, TimeOut, Handle, Page
<1> QED
  BY <1>2, <1>3, <1>4, <1>5, <1>6, <1>7 DEF Next, Progress, vars

\* Without a callback on the stack the main queue drains; the innermost frame is then of
\* a call under way, which waits for that queue or its user only or is about to return.
LEMMA SomethingMoves ==
  ASSUME FramesInvariant, CallbackIsInnermost
  PROVE  NeverHangs
<1> SUFFICES ASSUME ~FromCallbacks, NEW c \in Calls, UnderWay(c),
                    ~(stack # <<>> /\ Last(stack) = Block)
             PROVE  \E d \in Calls : CanMoveOn(d) \/ WaitsForUser(d)
  BY DEF NeverHangs
<1>1. stack \in Seq(Frames) /\ state \in [Calls -> States]
  BY DEF FramesInvariant
<1>2. QueueDrains
  <2>1. SUFFICES ASSUME NEW i \in DOMAIN stack, stack[i] = Block PROVE FALSE
    BY <1>1 DEF QueueDrains, Contains
  <2>2. stack # <<>> /\ i = Len(stack)
    BY <1>1, <2>1 DEF CallbackIsInnermost
  <2>3. Last(stack) = Block
    BY <2>1, <2>2 DEF Last
  <2> QED
    BY <2>2, <2>3
<1>3. ASSUME NEW d \in Calls, UnderWay(d), Contains(stack, d) => Last(stack) = d
      PROVE  CanMoveOn(d) \/ WaitsForUser(d)
  <2>1. RunLoopTurns
    BY <1>1, Popped DEF RunLoopTurns, Frames
  <2> QED
    BY <1>1, <1>2, <1>3, <2>1 DEF UnderWay, CanMoveOn, WaitsForUser, States
<1>4. CASE ~Contains(stack, c)
  BY <1>3, <1>4
<1>5. CASE Contains(stack, c)
  <2>1. stack # <<>>
    BY <1>1, <1>5 DEF Contains
  <2>2. Len(stack) \in DOMAIN stack /\ Last(stack) = stack[Len(stack)]
    BY <1>1, <2>1, Popped
  <2>3. Last(stack) \in Calls
    BY <1>1, <2>1, <2>2 DEF Frames
  <2>4. UnderWay(Last(stack))
    BY <2>2, <2>3 DEF FramesInvariant, FramesAreUnfinished
  <2> QED
    BY <1>3, <2>3, <2>4
<1> QED
  BY <1>4, <1>5

\* Whatever calls there are and however they nest: as long as one has not come back and
\* no callback makes one, something on the way back can happen without the network, or a
\* user has a page before him.
THEOREM CallsNeverHang == Spec => []NeverHangs
<1>1. Init => FramesInvariant /\ CallbackIsInnermost
  BY DEF Init, FramesInvariant, FramesAreUnfinished, CallbackIsInnermost, States, Frames
<1>2. FramesInvariant /\ CallbackIsInnermost /\ [Next]_vars
        => FramesInvariant' /\ CallbackIsInnermost'
  BY NextKeeps, NextInnermost
<1>3. FramesInvariant /\ CallbackIsInnermost => NeverHangs
  BY SomethingMoves
<1> QED
  BY <1>1, <1>2, <1>3, PTL DEF Spec
=============================================================================
