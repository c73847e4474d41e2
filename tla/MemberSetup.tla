---------------------------- MODULE MemberSetup ----------------------------
(***************************************************************************)
(* A device gets keys for a member: createMember:, provisionDevice: and the *)
(* two forms of completeRecovery:, over a crypto engine (KeyEngine) and a   *)
(* server shared with the member's other devices.  Every form generates     *)
(* keys before the server accepts them; generations and calls fail, the     *)
(* process ends between any two steps, and a request whose caller was told  *)
(* of a timeout may still reach the server.                                 *)
(***************************************************************************)
EXTENDS KeyEngine

CONSTANTS
  LevelOrder,  \* the levels in the order of generateKeys, Privileged first
  MaxJobs,     \* bound: operations the application starts
  MaxOwn,      \* bound: keys it generates itself
  MaxCrashes,  \* bound: times the process is killed
  Watched      \* the job of which CallbackOnce is stated: any

ASSUME MemberSetupAssumption ==
  /\ LevelOrder \in Seq(Levels)
  /\ LevelOrder # <<>>
  /\ \A l \in Levels : \E i \in 1 .. Len(LevelOrder) : LevelOrder[i] = l
  /\ \A i, j \in 1 .. Len(LevelOrder) : LevelOrder[i] = LevelOrder[j] => i = j
  /\ Watched \in 1 .. MaxJobs
  /\ MaxJobs \in Nat /\ MaxOwn \in Nat /\ MaxCrashes \in Nat

Signing == LevelOrder[1]
Jobs == 1 .. MaxJobs
NoUpdate == [prev |-> 0, signer |-> NoKey]

VARIABLES
  hash,        \* the member's lastHash as the number of its updates; none: no member
  registered,  \* the device's key pairs that are keys of the member
  others,      \* whether the member has another device
  kind, pc,    \* what each job is, and the point it has reached
  left,        \* the levels it has still to generate keys of
  got,         \* the keys it has generated
  authorized,  \* whether its recovery was authorized
  sent,        \* its update, from when it is sent until the server handles it
  taken,       \* whether the server took it
  told,        \* what its application was told
  lost,        \* whether the process ended since the job began
  crashes, own \* counters of the bounds

server == <<hash, registered, others>>
job == <<kind, pc, left, got, authorized, told, lost>>
wire == <<sent, taken>>
bounds == <<crashes, own>>
vars == <<engineVars, server, job, wire, bounds>>

Busy == {"asking", "generating", "authorizing", "reading", "updating"}

TypeOK ==
  /\ EngineTypeOK
  /\ hash \in Nat
  /\ registered \subseteq 1 .. Len(pairs)
  /\ others \in BOOLEAN
  /\ kind \in [Jobs -> {"none", "create", "provision", "recover"}]
  /\ pc \in [Jobs -> Busy \cup {"idle", "done", "dead"}]
  /\ left \in [Jobs -> Seq(Levels)]
  /\ got \in [Jobs -> [Levels -> 0 .. Len(pairs)]]
  /\ authorized \in [Jobs -> BOOLEAN]
  /\ sent \in [Jobs -> [prev : Nat, signer : 0 .. Len(pairs)]]
  /\ taken \in [Jobs -> BOOLEAN]
  /\ told \in [Jobs -> {"nothing", "success", "error"}]
  /\ lost \in [Jobs -> BOOLEAN]
  /\ crashes \in Nat /\ own \in Nat

Init ==
  /\ EngineInit
  /\ others \in BOOLEAN
  /\ hash = (IF others THEN 1 ELSE 0)
  /\ registered = {}
  /\ kind = [o \in Jobs |-> "none"]
  /\ pc = [o \in Jobs |-> "idle"]
  /\ left = [o \in Jobs |-> <<>>]
  /\ got = [o \in Jobs |-> [l \in Levels |-> NoKey]]
  /\ authorized = [o \in Jobs |-> FALSE]
  /\ sent = [o \in Jobs |-> NoUpdate]
  /\ taken = [o \in Jobs |-> FALSE]
  /\ told = [o \in Jobs |-> "nothing"]
  /\ lost = [o \in Jobs |-> FALSE]
  /\ crashes = 0 /\ own = 0
-----------------------------------------------------------------------------
(* The application *)

\* It awaits an answer before it goes on.
Idle == \A o \in Jobs : pc[o] \notin Busy

Start(o, k, place, levels) ==
  /\ Idle
  /\ kind[o] = "none"
  /\ \A p \in Jobs : p < o => kind[p] # "none"
  /\ kind' = [kind EXCEPT ![o] = k]
  /\ pc' = [pc EXCEPT ![o] = place]
  /\ left' = [left EXCEPT ![o] = levels]
  /\ UNCHANGED <<engineVars, server, got, authorized, told, lost, wire, bounds>>

\* One member is followed: another createMember: makes another one.
CreateMember(o) ==
  /\ hash = 0
  /\ \A p \in Jobs : kind[p] # "create"
  /\ Start(o, "create", "asking", <<>>)

ProvisionDevice(o) == Start(o, "provision", "asking", <<>>)

\* Mutant: all the keys are generated before the recovery is authorized.
RecoverWithAllKeys(o) == Start(o, "recover", "generating", LevelOrder)

\* completeRecoveryWithDefaultRule: generates the Privileged key to be authorized;
\* for completeRecovery: the application does, and has its agents authorize it.
CompleteRecovery(o) == Start(o, "recover", "generating", <<Signing>>)

\* The application generates a key through its TKCrypto.
GenerateKey(l, expires, reached) ==
  /\ Idle
  /\ own < MaxOwn
  /\ own' = own + 1
  /\ Generate(l, expires, reached)
  /\ UNCHANGED <<server, job, wire, crashes>>
-----------------------------------------------------------------------------
(* The jobs *)

\* The job goes on, with these levels to generate keys of.
GoOn(o, place, levels) ==
  /\ pc' = [pc EXCEPT ![o] = place]
  /\ left' = [left EXCEPT ![o] = levels]
  /\ UNCHANGED <<engineVars, server, kind, got, authorized, told, lost, bounds>>

\* The job is over.
Tell(o, what) ==
  /\ pc' = [pc EXCEPT ![o] = "done"]
  /\ told' = [told EXCEPT ![o] = what]
  /\ UNCHANGED <<engineVars, server, kind, left, got, authorized, lost, wire, bounds>>

\* The recovery agent's id and a member id have been obtained; or the alias has
\* been resolved, to no member if there is none.
Asked(o) ==
  /\ pc[o] = "asking"
  /\ IF kind[o] = "provision" /\ hash = 0
       THEN Tell(o, "error")
       ELSE GoOn(o, "generating", LevelOrder) /\ UNCHANGED wire

\* The next key; a level whose key could not be generated is passed over for now.
GenerateNext(o, reached) ==
  /\ pc[o] = "generating"
  /\ left[o] # <<>>
  /\ Generate(Head(left[o]), Never, reached)
  /\ got' = [got EXCEPT ![o] = [@ EXCEPT ![Head(left[o])] = Given(reached)]]
  /\ left' = [left EXCEPT ![o] = Tail(@)]
  /\ UNCHANGED <<server, kind, pc, authorized, told, lost, wire, bounds>>

Generated(o) == pc[o] = "generating" /\ left[o] = <<>>
Complete(o) == \A l \in Levels : got[o][l] # NoKey

\* provisionDevice: hands its keys to the application, for another device to approve.
Provisioned(o) ==
  /\ Generated(o)
  /\ kind[o] = "provision"
  /\ Complete(o)
  /\ Tell(o, "success")

\* The Privileged key alone is sent to be authorized.
AskAuthorization(o) ==
  /\ Generated(o)
  /\ kind[o] = "recover"
  /\ ~authorized[o]
  /\ got[o][Signing] # NoKey
  /\ GoOn(o, "authorizing", <<>>)
  /\ UNCHANGED wire

\* The server, or the member's agents, authorize the recovery.
Authorized(o) ==
  /\ pc[o] = "authorizing"
  /\ hash > 0
  /\ authorized' = [authorized EXCEPT ![o] = TRUE]
  /\ pc' = [pc EXCEPT ![o] = "generating"]
  /\ left' = [left EXCEPT ![o] = Tail(LevelOrder)]
  /\ UNCHANGED <<engineVars, server, kind, got, told, lost, wire, bounds>>

AskMember(o) ==
  /\ Generated(o)
  /\ authorized[o]
  /\ Complete(o)
  /\ GoOn(o, "reading", <<>>)
  /\ UNCHANGED wire

\* Signs the update of all the keys with any Privileged key the engine finds, and
\* sends it.
Send(o) ==
  /\ \E k \in Lookup(Signing) :
       sent' = [sent EXCEPT ![o] = [prev |-> hash, signer |-> k]]
  /\ GoOn(o, "updating", <<>>)
  /\ UNCHANGED taken

\* The first update of a new member names no previous hash.
SendCreation(o) ==
  /\ Generated(o)
  /\ kind[o] = "create"
  /\ Complete(o)
  /\ Send(o)

\* The server's answer to getMember: is part of the step that uses it: what happens
\* in between may as well happen while the update is on its way.
MemberRead(o) ==
  /\ pc[o] = "reading"
  /\ Send(o)

\* Mutant: any answer is taken for a success.
UpdatedAnyhow(o) == pc[o] = "updating" /\ Tell(o, "success")

Updated(o) ==
  /\ pc[o] = "updating"
  /\ taken[o]
  /\ Tell(o, "success")

\* Mutant: there is no return after the error.
GenerationFailsGoesOn(o) ==
  /\ Generated(o)
  /\ kind[o] = "recover"
  /\ got[o][Signing] = NoKey
  /\ pc' = [pc EXCEPT ![o] = "authorizing"]
  /\ told' = [told EXCEPT ![o] = "error"]
  /\ UNCHANGED <<engineVars, server, kind, left, got, authorized, lost, wire, bounds>>

\* completeRecovery: checks its keys.
GenerationFails(o) ==
  /\ Generated(o)
  /\ kind[o] = "recover"
  /\ IF authorized[o] THEN ~Complete(o) ELSE got[o][Signing] = NoKey
  /\ Tell(o, "error")

\* Mutant: the error is reported and the answer awaited all the same.
FailWaits(o) ==
  /\ pc[o] \in {"asking", "authorizing", "reading", "updating"}
  /\ told' = [told EXCEPT ![o] = "error"]
  /\ UNCHANGED <<engineVars, server, kind, pc, left, got, authorized, lost, wire, bounds>>

\* A call fails or is timed out, an alias cannot be resolved, a recovery is refused,
\* the owner refuses the signature, or the server rejects the update.
Fail(o) ==
  /\ pc[o] \in {"asking", "authorizing", "reading", "updating"}
  /\ Tell(o, "error")
-----------------------------------------------------------------------------
(* The end of the process *)

\* Another one may be started at once.
ProcessEnds ==
  /\ Forget
  /\ pc' = [o \in Jobs |-> IF pc[o] \in Busy THEN "dead" ELSE pc[o]]
  /\ lost' = [o \in Jobs |-> lost[o] \/ kind[o] # "none"]
  /\ UNCHANGED <<server, kind, left, got, authorized, told, wire, own>>

\* generateKeys puts nil into an array: the exception ends the process.
GenerationRaises(o) ==
  /\ Generated(o)
  /\ kind[o] # "recover"
  /\ ~Complete(o)
  /\ ProcessEnds
  /\ UNCHANGED crashes

Killed ==
  /\ crashes < MaxCrashes
  /\ crashes' = crashes + 1
  /\ ProcessEnds

TimePasses == Tick /\ UNCHANGED <<server, job, wire, bounds>>
-----------------------------------------------------------------------------
(* The server *)

OnItsWay(o) == sent[o].signer # NoKey
KeysOf(o) == {got[o][l] : l \in Levels}

\* The update is the next one, and signed by a key of the member: a new member's
\* by one it brings with it, a recovered one's by the key that was authorized.
Acceptable(o) ==
  /\ sent[o].prev = hash
  /\ sent[o].signer \in
       IF kind[o] = "create" THEN KeysOf(o) ELSE registered \cup {got[o][Signing]}

\* A recovery may or may not take the member's earlier keys away.
ServeUpdate(o) ==
  /\ OnItsWay(o)
  /\ sent' = [sent EXCEPT ![o] = NoUpdate]
  /\ IF Acceptable(o)
       THEN /\ hash' = hash + 1
            /\ registered' \in {KeysOf(o), registered \cup KeysOf(o)}
            /\ taken' = [taken EXCEPT ![o] = TRUE]
       ELSE UNCHANGED <<hash, registered, taken>>
  /\ UNCHANGED <<engineVars, others, job, bounds>>

\* Another device approves the keys of a provisioned one.
ApproveKeys(o) ==
  /\ others
  /\ kind[o] = "provision" /\ told[o] = "success"
  /\ ~(KeysOf(o) \subseteq registered)
  /\ hash' = hash + 1
  /\ registered' = registered \cup KeysOf(o)
  /\ UNCHANGED <<engineVars, others, job, wire, bounds>>
-----------------------------------------------------------------------------

Next ==
  \/ \E o \in Jobs :
       \/ CreateMember(o)
       \/ ProvisionDevice(o)
       \/ CompleteRecovery(o)
       \/ Asked(o)
       \/ \E reached \in Progress : GenerateNext(o, reached)
       \/ Provisioned(o)
       \/ AskAuthorization(o)
       \/ Authorized(o)
       \/ AskMember(o)
       \/ SendCreation(o)
       \/ MemberRead(o)
       \/ Updated(o)
       \/ GenerationFails(o)
       \/ GenerationRaises(o)
       \/ Fail(o)
       \/ ServeUpdate(o)
       \/ ApproveKeys(o)
  \/ \E l \in Levels, expires \in 0 .. Never, reached \in Progress :
       GenerateKey(l, expires, reached)
  \/ Killed
  \/ TimePasses

Spec == Init /\ [][Next]_vars

\* What the SDK does with a job once it has begun: its calls are answered, by the
\* server or by their timeouts (RpcCall shows that), and its code runs on.
Proceed(o) ==
  \/ Asked(o)
  \/ \E reached \in Progress : GenerateNext(o, reached)
  \/ Provisioned(o)
  \/ AskAuthorization(o)
  \/ Authorized(o)
  \/ AskMember(o)
  \/ SendCreation(o)
  \/ MemberRead(o)
  \/ Updated(o)
  \/ GenerationFails(o)
  \/ GenerationRaises(o)
  \/ Fail(o)

FairSpec == Spec /\ \A o \in Jobs : WF_vars(Proceed(o))
-----------------------------------------------------------------------------
(* Properties *)

\* A key that the engine can still use: it is in memory, or in the keychain.
InSession(o) == engine = "enclave" \/ ~lost[o]

\* A device that was told of a success has what it was told of: until it generates
\* other keys, a signature of each level is made with the key that the job gave the
\* member - with the in-memory store, which keeps earlier ones, may be - however
\* many jobs failed or were killed half-way before, and whatever update of theirs
\* the server comes to see afterwards.  A provisioned key is so once approved.
UsableAfterSuccess ==
  \A o \in Jobs : told[o] = "success" =>
    /\ (kind[o] # "provision" /\ Newest(got[o][Signing])) => KeysOf(o) \subseteq registered
    /\ InSession(o) =>
         \A l \in Levels : Newest(got[o][l]) =>
           /\ got[o][l] \in Lookup(l)
           /\ engine = "enclave" => Lookup(l) = {got[o][l]}

\* TKCryptoEngine.h: "If the key with the specified level already exists, it is
\* replaced."  The secure enclave never signs with a key that was replaced, not
\* even when the replacement failed half-way.
Replaced == engine = "enclave" => \A k \in stored : Newest(k)

\* TKCryptoEngine.h: the old key "could be used for signature verification later".
\* A key that a job gave out verifies on the device it was generated on, after
\* others replaced it and after restarts, if the engine is the secure enclave's.
VerifiesLater ==
  \A o \in Jobs : InSession(o) => KeysOf(o) \ {NoKey} \subseteq verifiable

\* The device can act as the member at this level.
CanAct(l) == Lookup(l) \cap registered # {}

\* The steps of a recovery before it is authorized cost a device that could act at
\* some level nothing but its Privileged key, and that only with the secure enclave.
RefusalSpares ==
  [][\A o \in Jobs, l \in Levels :
       kind[o] = "recover" /\ ~authorized[o] /\ pc[o] = "generating" /\ pairs' # pairs =>
         (CanAct(l) /\ ~CanAct(l)' => engine = "enclave" /\ l = Signing)]_vars

\* Each job is answered once, or its process ends: CallbackOnce, for any one of them.
StatusOf(o) ==
  IF kind[o] = "none" THEN "idle"
  ELSE IF told[o] = "nothing" THEN "pending" ELSE told[o]

status == [o \in {Watched} |-> StatusOf(o)]
alive == ~lost[Watched]

Promise == INSTANCE CallbackOnce WITH Ops <- {Watched}

KeepsPromise == Promise!FairSpec
-----------------------------------------------------------------------------
(* The inductive invariant *)

\* A job that has not begun has left no trace; jobs begin in order, one by one.
Begun ==
  \A o \in Jobs :
    /\ kind[o] = "none" <=> pc[o] = "idle"
    /\ kind[o] = "none" => ~OnItsWay(o) /\ ~taken[o] /\ ~lost[o] /\ told[o] = "nothing"
    /\ kind[o] = "none" => \A l \in Levels : got[o][l] = NoKey
    /\ \A p \in Jobs : p < o /\ kind[o] # "none" =>
         pc[p] \in {"done", "dead"}

\* A job that was answered is over, and one whose process ended too.
Over ==
  \A o \in Jobs :
    /\ pc[o] = "done" <=> told[o] # "nothing"
    /\ pc[o] = "dead" => lost[o]
    /\ pc[o] \in Busy => ~lost[o]

\* What a job has done by the time it gets to a point.
Path ==
  \A o \in Jobs :
    /\ pc[o] \in {"asking"} => kind[o] # "recover"
    /\ pc[o] \in {"authorizing", "reading"} => kind[o] = "recover"
    /\ pc[o] = "reading" => Complete(o)
    /\ authorized[o] => kind[o] = "recover"
    /\ kind[o] = "recover" /\ ~authorized[o] /\ pc[o] = "generating" =>
         left[o] \in {<<Signing>>, <<>>}
    /\ pc[o] = "updating" => kind[o] # "provision"
    /\ OnItsWay(o) \/ taken[o] \/ pc[o] = "updating" =>
         Complete(o) /\ pc[o] \in {"updating", "done", "dead"}
    /\ told[o] = "success" => Complete(o) /\ (kind[o] = "provision" \/ taken[o])

\* The keys of a job are where the engine keeps them; those of a later one are newer.
KeysKept ==
  \A o \in Jobs, l \in Levels, k \in 1 .. Len(pairs) : got[o][l] = k =>
    /\ pairs[k].level = l
    /\ pairs[k].expires = Never
    /\ InSession(o) => k \in verifiable
    /\ InSession(o) /\ (engine = "token" \/ Newest(k)) => k \in stored

LaterIsNewer ==
  \A o, p \in Jobs, l, m \in Levels :
    o < p /\ got[p][m] # NoKey => got[o][l] < got[p][m]

\* The update of a job that a later one has overtaken will not be accepted.
OvertakenIsStale ==
  \A o \in Jobs : OnItsWay(o) =>
    /\ sent[o].prev <= hash
    /\ \A p \in Jobs : o < p /\ taken[p] => sent[o].prev < hash

\* The member has the keys of the latest recovery or creation it took.
TakenIsRegistered ==
  \A o \in Jobs : taken[o] /\ Newest(got[o][Signing]) => KeysOf(o) \subseteq registered

Inductive ==
  /\ TypeOK
  /\ Begun
  /\ Over
  /\ Path
  /\ Replaced
  /\ KeysKept
  /\ LaterIsNewer
  /\ OvertakenIsStale
  /\ TakenIsRegistered
=============================================================================
