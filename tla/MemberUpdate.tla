---------------------------- MODULE MemberUpdate ----------------------------
(***************************************************************************)
(* The keys and aliases of one member, changed from several devices.  A     *)
(* device's TKMember asks TKClient updateMember: for a change, which reads   *)
(* the member for its lastHash, signs with a Privileged key and sends the   *)
(* update; the server takes it only if that hash is still the member's.     *)
(* A device keeps its private keys in a key store and caches the member and *)
(* its aliases.  A request whose caller was told of a timeout may still     *)
(* reach the server.                                                        *)
(***************************************************************************)
EXTENDS Naturals, Sequences

CONSTANTS
  Devices,
  Keys,        \* key pairs, generated without an expiration
  Levels,      \* key levels
  Signing,     \* the level that signs updates: Privileged
  LevelOf,     \* the level of each key
  FirstKeys,   \* the keys each device generated when the story begins,
  Approved,    \* those of them the server knows
  Spellings,   \* aliases, type and value, as applications spell them
  Normal,      \* the value that TKUtil normalizeAlias: makes of each
  Realms,      \* the realms an alias can name, and
  NoRealm,     \* none
  Partner,     \* the realm of the member's partner, if it is affiliated
  KeyChoices,  \* bound: the sets of keys an application asks to change,
  AliasChoices, \* and of aliases
  MaxOps,      \* bound: operations the applications start
  Serial,      \* whether each application awaits an answer before it goes on
  Nothing

KeysOf(level, set) == {k \in set : LevelOf[k] = level}

Aliases == [value : Spellings, realm : Realms]

ASSUME MemberUpdateAssumption ==
  /\ Signing \in Levels
  /\ LevelOf \in [Keys -> Levels]
  /\ FirstKeys \in [Devices -> SUBSET Keys]
  /\ \A d \in Devices, l \in Levels : KeysOf(l, FirstKeys[d]) # {}
  /\ Approved \subseteq UNION {FirstKeys[d] : d \in Devices}
  /\ Normal \in [Spellings -> Spellings]
  /\ \A v \in Spellings : Normal[Normal[v]] = Normal[v]
  /\ {NoRealm, Partner} \subseteq Realms
  /\ KeyChoices \subseteq SUBSET Keys
  /\ AliasChoices \subseteq SUBSET Aliases
  /\ MaxOps \in Nat
  /\ Serial \in BOOLEAN

Ops == 1 .. MaxOps

Normalized(a) == [a EXCEPT !.value = Normal[@]]

\* hashAlias: leaves out the realm.
Hash == [a \in Aliases |-> Normal[a.value]]
HashesOf(names) == {Hash[a] : a \in names}

\* An affiliated member's aliases are of its partner's realm: those that name no
\* realm are given it, those that name another are refused.
InRealm(a) == IF Partner = NoRealm THEN a ELSE [a EXCEPT !.realm = Partner]
Foreign ==
  {a \in Aliases : Partner # NoRealm /\ a.realm \notin {NoRealm, Partner}}

VARIABLES
  hash,       \* the member's lastHash, as the number of updates before it
  registered, \* the member's keys
  owned,      \* the member's aliases, normalized
  applied,    \* the operations whose update the server took, in order
  store,      \* the key store of each device
  signer,     \* the key lookupKeyByLevel: finds
  member,     \* each device's TKMember: the member it holds,
  aliases,    \* and its aliases
  job,        \* what each operation was asked to do
  unstored,   \* the keys that removeNonStoredKeys: is to remove, once it knows
  pc,         \* where it is
  sent,       \* its update, from when it is sent until the server handles it
  reply,      \* the response on its way to it
  told        \* what its application was told

server == <<hash, registered, owned, applied>>
keyStore == <<store, signer>>
caches == <<member, aliases>>
vars == <<server, keyStore, caches, job, unstored, pc, sent, reply, told>>

Snapshots == [hash : Nat, keys : SUBSET Keys, aliases : SUBSET Aliases]

Kinds == {"approveKeys", "removeKeys", "removeNonStoredKeys", "addAliases",
          "removeAliases", "getKeys", "getAliases"}
Jobs == [device : Devices, kind : Kinds, keys : SUBSET Keys,
         aliases : SUBSET Aliases]
Updates == [prev : Nat, key : Keys]

ASSUME NothingAssumption ==
  Nothing \notin Jobs /\ Nothing \notin Snapshots /\ Nothing \notin Updates

TypeOK ==
  /\ hash \in Nat
  /\ registered \subseteq Keys
  /\ owned \subseteq Aliases
  /\ applied \in Seq(Ops)
  /\ store \in [Devices -> SUBSET Keys]
  /\ signer \in [Devices -> [Levels -> Keys]]
  /\ member \in [Devices -> Snapshots]
  /\ aliases \in [Devices -> SUBSET Aliases]
  /\ job \in [Ops -> Jobs \cup {Nothing}]
  /\ unstored \in [Ops -> SUBSET Keys]
  /\ pc \in [Ops -> {"idle", "listing", "fetching", "reading", "updating", "done"}]
  /\ sent \in [Ops -> Updates \cup {Nothing}]
  /\ reply \in [Ops -> Snapshots \cup {Nothing}]
  /\ told \in [Ops -> {"nothing", "success", "error"}]

\* A key of each level that a lookup may find: the first of the dictionary's
\* order, which any insertion may change.
Lookups(keys) == {f \in [Levels -> keys] : \A l \in Levels : LevelOf[f[l]] = l}

Snapshot == [hash |-> hash, keys |-> registered, aliases |-> owned]

Init ==
  /\ hash = 0
  /\ registered = Approved
  /\ owned = {}
  /\ applied = <<>>
  /\ store = FirstKeys
  /\ signer \in [Devices -> UNION {Lookups(FirstKeys[d]) : d \in Devices}]
  /\ \A d \in Devices : signer[d] \in Lookups(FirstKeys[d])
  /\ member = [d \in Devices |-> Snapshot]
  /\ aliases = [d \in Devices |-> {}]
  /\ job = [o \in Ops |-> Nothing]
  /\ unstored = [o \in Ops |-> {}]
  /\ pc = [o \in Ops |-> "idle"]
  /\ sent = [o \in Ops |-> Nothing]
  /\ reply = [o \in Ops |-> Nothing]
  /\ told = [o \in Ops |-> "nothing"]
-----------------------------------------------------------------------------
(* Invocations *)

Idle(d) ==
  \A o \in Ops : job[o] # Nothing /\ job[o].device = d => told[o] # "nothing"

\* A key pair of the member is generated and stored.
GenerateKey(d, k) ==
  /\ Serial => Idle(d)
  /\ \A e \in Devices : k \notin store[e]
  /\ store' = [store EXCEPT ![d] = @ \cup {k}]
  /\ \E f \in Lookups(store[d] \cup {k}) : signer' = [signer EXCEPT ![d] = f]
  /\ UNCHANGED <<server, caches, job, unstored, pc, sent, reply, told>>

Start(o, d, kind, keys, names, place) ==
  /\ pc[o] = "idle"
  /\ \A p \in Ops : p < o => pc[p] # "idle"
  /\ Serial => Idle(d)
  /\ job' = [job EXCEPT ![o] = [device |-> d, kind |-> kind, keys |-> keys,
                                aliases |-> names]]
  /\ pc' = [pc EXCEPT ![o] = place]
  /\ UNCHANGED <<server, keyStore, caches, unstored, sent, reply>>

\* The keys may have come from another device.
ApproveKeys(o, d, keys) ==
  /\ keys # {}
  /\ keys \subseteq UNION {store[e] : e \in Devices}
  /\ Start(o, d, "approveKeys", keys, {}, "reading")
  /\ UNCHANGED told

RemoveKeys(o, d, keys) ==
  /\ keys # {}
  /\ Start(o, d, "removeKeys", keys, {}, "reading")
  /\ UNCHANGED told

\* getKeyInfos: one key of each level.
StoredKeys(d) == {signer[d][l] : l \in Levels}

\* "keys" are the stored keys, which are to stay.
RemoveNonStoredKeys(o, d) ==
  /\ Start(o, d, "removeNonStoredKeys", StoredKeys(d), {}, "listing")
  /\ UNCHANGED told

\* Mutant: the error is reported and the aliases are added all the same.
AddAliasesAnyway(o, d, names) ==
  /\ names # {}
  /\ Start(o, d, "addAliases", {}, names, "reading")
  /\ told' = IF names \cap Foreign = {} THEN told
             ELSE [told EXCEPT ![o] = "error"]

\* An alias of a foreign realm is refused before anything is sent; the others are
\* sent, and cached later, with the realm that is written into them.
AddAliases(o, d, names) ==
  /\ names # {}
  /\ IF names \cap Foreign = {}
       THEN /\ Start(o, d, "addAliases", {}, {InRealm(a) : a \in names}, "reading")
            /\ UNCHANGED told
       ELSE /\ Start(o, d, "addAliases", {}, names, "done")
            /\ told' = [told EXCEPT ![o] = "error"]

\* The aliases to remove are taken as they are given.
RemoveAliases(o, d, names) ==
  /\ names # {}
  /\ Start(o, d, "removeAliases", {}, names, "reading")
  /\ UNCHANGED told

GetKeys(o, d) == Start(o, d, "getKeys", {}, {}, "fetching") /\ UNCHANGED told

GetAliases(o, d) == Start(o, d, "getAliases", {}, {}, "fetching") /\ UNCHANGED told
-----------------------------------------------------------------------------
(* The server *)

ServeRead(o) ==
  /\ pc[o] \in {"listing", "fetching", "reading"}
  /\ reply[o] = Nothing
  /\ reply' = [reply EXCEPT ![o] = Snapshot]
  /\ UNCHANGED <<server, keyStore, caches, job, unstored, pc, sent, told>>

\* The update's operations: keys to add or remove, aliases to add as their
\* metadata has them, or to remove by their hash.
KeysAfter(o) ==
  IF job[o].kind = "approveKeys" THEN registered \cup job[o].keys
  ELSE IF job[o].kind = "removeKeys" THEN registered \ job[o].keys
  ELSE IF job[o].kind = "removeNonStoredKeys" THEN registered \ unstored[o]
  ELSE registered

NormalAliases(o) == {Normalized(a) : a \in job[o].aliases}
AliasesAfter(o) ==
  IF job[o].kind = "addAliases" THEN owned \cup NormalAliases(o)
  ELSE IF job[o].kind = "removeAliases"
         THEN {a \in owned : Hash[a] \notin HashesOf(job[o].aliases)}
  ELSE owned

\* The update follows the member's last one and a key of the member signed it.
Acceptable(o) == sent[o].prev = hash /\ sent[o].key \in registered

\* The caller may have been told of a timeout already; one whose update is
\* rejected fails.
ServeUpdate(o) ==
  /\ sent[o] # Nothing
  /\ sent' = [sent EXCEPT ![o] = Nothing]
  /\ IF Acceptable(o)
       THEN /\ hash' = hash + 1
            /\ registered' = KeysAfter(o)
            /\ owned' = AliasesAfter(o)
            /\ applied' = Append(applied, o)
       ELSE UNCHANGED server
  /\ reply' = IF pc[o] = "updating" /\ Acceptable(o)
                THEN [reply EXCEPT ![o] = Snapshot']
                ELSE reply
  /\ UNCHANGED <<keyStore, caches, job, unstored, pc, told>>
-----------------------------------------------------------------------------
(* Completion handlers *)

HasReply(o, place) == pc[o] = place /\ reply[o] # Nothing

Succeed(o) ==
  /\ pc' = [pc EXCEPT ![o] = "done"]
  /\ told' = [told EXCEPT ![o] = "success"]

\* getKeys: and getAliases:
Fetched(o) ==
  /\ HasReply(o, "fetching")
  /\ LET d == job[o].device
     IN  IF job[o].kind = "getKeys"
           THEN /\ member' = [member EXCEPT ![d] = reply[o]]
                /\ UNCHANGED aliases
           ELSE /\ aliases' = [aliases EXCEPT ![d] = reply[o].aliases]
                /\ UNCHANGED member
  /\ Succeed(o)
  /\ reply' = [reply EXCEPT ![o] = Nothing]
  /\ UNCHANGED <<server, keyStore, job, unstored, sent>>

\* Mutant: the stored keys are not taken off.
ToRemoveAll(o) == reply[o].keys

\* The member's keys that were not stored when removeNonStoredKeys was called.
ToRemove(o) == reply[o].keys \ job[o].keys

Listed(o) ==
  /\ HasReply(o, "listing")
  /\ reply' = [reply EXCEPT ![o] = Nothing]
  /\ IF ToRemove(o) = {}
       THEN Succeed(o) /\ UNCHANGED unstored
       ELSE /\ pc' = [pc EXCEPT ![o] = "reading"]
            /\ unstored' = [unstored EXCEPT ![o] = ToRemove(o)]
            /\ UNCHANGED told
  /\ UNCHANGED <<server, keyStore, caches, job, sent>>

\* Mutant: prevHash is left out.
UpdateWithoutHash(o) == [prev |-> Nothing, key |-> signer[job[o].device][Signing]]

\* updateMember: signs the update on top of the hash just read, and sends it.
Update(o) == [prev |-> reply[o].hash, key |-> signer[job[o].device][Signing]]

ReadDone(o) ==
  /\ HasReply(o, "reading")
  /\ sent' = [sent EXCEPT ![o] = Update(o)]
  /\ reply' = [reply EXCEPT ![o] = Nothing]
  /\ pc' = [pc EXCEPT ![o] = "updating"]
  /\ UNCHANGED <<server, keyStore, caches, job, unstored, told>>

\* Mutant: the aliases of a removal stay cached.
CachedAfterAddOnly(o) == aliases[job[o].device] \cup job[o].aliases

\* What the device keeps of the member's aliases: as the application wrote them,
\* realm included, and compared as they are.
CachedAfter(o) ==
  LET cached == aliases[job[o].device]
  IN  IF job[o].kind = "addAliases" THEN cached \cup job[o].aliases
      ELSE IF job[o].kind = "removeAliases" THEN cached \ job[o].aliases
      ELSE cached

Updated(o) ==
  /\ HasReply(o, "updating")
  /\ member' = [member EXCEPT ![job[o].device] = reply[o]]
  /\ aliases' = [aliases EXCEPT ![job[o].device] = CachedAfter(o)]
  /\ Succeed(o)
  /\ reply' = [reply EXCEPT ![o] = Nothing]
  /\ UNCHANGED <<server, keyStore, job, unstored, sent>>

\* Mutant: an error is reported and the update tried again.
FailRetries(o) ==
  /\ pc[o] \in {"listing", "fetching", "reading", "updating"}
  /\ pc' = [pc EXCEPT ![o] = IF @ = "updating" THEN "reading" ELSE "done"]
  /\ told' = [told EXCEPT ![o] = "error"]
  /\ reply' = [reply EXCEPT ![o] = Nothing]
  /\ UNCHANGED <<server, keyStore, caches, job, unstored, sent>>

\* A call fails or is timed out, the owner refuses the signature, or the server
\* rejects the update.
Fail(o) ==
  /\ pc[o] \in {"listing", "fetching", "reading", "updating"}
  /\ pc' = [pc EXCEPT ![o] = "done"]
  /\ told' = [told EXCEPT ![o] = "error"]
  /\ reply' = [reply EXCEPT ![o] = Nothing]
  /\ UNCHANGED <<server, keyStore, caches, job, unstored, sent>>
-----------------------------------------------------------------------------

Next ==
  \/ \E d \in Devices, k \in Keys : GenerateKey(d, k)
  \/ \E o \in Ops, d \in Devices :
       \/ \E keys \in KeyChoices : ApproveKeys(o, d, keys) \/ RemoveKeys(o, d, keys)
       \/ RemoveNonStoredKeys(o, d)
       \/ \E names \in AliasChoices :
            AddAliases(o, d, names) \/ RemoveAliases(o, d, names)
       \/ GetKeys(o, d)
       \/ GetAliases(o, d)
  \/ \E o \in Ops :
       \/ ServeRead(o)
       \/ ServeUpdate(o)
       \/ Fetched(o)
       \/ Listed(o)
       \/ ReadDone(o)
       \/ Updated(o)
       \/ Fail(o)

Spec == Init /\ [][Next]_vars
-----------------------------------------------------------------------------
(* Properties *)

\* The updates of one device reach the member in the order in which they were
\* asked for, each at most once: an update whose application was told of an
\* error, and which the server sees late, never takes effect after a later one
\* (updateMember:, "Update to the latest lastHash before update member").
AppliedInOrder ==
  \A i, j \in DOMAIN applied :
    i < j /\ job[applied[i]].device = job[applied[j]].device =>
      applied[i] < applied[j]

Changes == {"approveKeys", "removeKeys", "addAliases", "removeAliases"}
Applied(o) == \E i \in DOMAIN applied : applied[i] = o

\* An alias of a foreign realm was among those to add.
Refused(o) ==
  /\ job[o] # Nothing
  /\ job[o].kind = "addAliases"
  /\ job[o].aliases \cap Foreign # {}

\* A change is reported only after the server took it, and the server took none
\* that was refused before it was sent (addAliases: with a foreign realm).
ReportedIsApplied ==
  \A o \in Ops :
    /\ told[o] = "success" /\ job[o].kind \in Changes => Applied(o)
    /\ Refused(o) => ~Applied(o)

\* The keys with which a device can still sign an update the server takes.
CanSign(d) == KeysOf(Signing, store[d]) \cap registered

\* A device whose application awaits its answers does not lock itself out with
\* removeNonStoredKeys, however late the server handles it and whatever keys were
\* generated since: it keeps one that the member has.
NeverLocksItselfOut ==
  [][\A o \in Ops :
       ServeUpdate(o) /\ job[o].kind = "removeNonStoredKeys" =>
         LET d == job[o].device IN CanSign(d) # {} => CanSign(d)' # {}]_vars

\* What TKMember.h says of removeNonStoredKeys: it removes keys "that do not have
\* a corresponding private key stored on the current device".
RemovesOnlyNonStored ==
  [][\A o \in Ops :
       ServeUpdate(o) /\ job[o].kind = "removeNonStoredKeys" =>
         (registered \ registered') \cap store[job[o].device] = {}]_vars

ChangesAliases(o) ==
  job[o] # Nothing /\ job[o].kind \in {"addAliases", "removeAliases"}

\* Only this device was asked to change aliases, and none of these changes was told
\* of an error but those that were refused.
AloneChanges(d) ==
  \A o \in Ops : ChangesAliases(o) =>
    job[o].device = d /\ (told[o] # "error" \/ Refused(o))

\* All that the device alone was asked for was answered.
AllTold(d) ==
  AloneChanges(d) /\ \A o \in Ops : ChangesAliases(o) => told[o] # "nothing"

\* The alias was removed in another form: another spelling, or another realm.
RemovedInAnotherForm(a) ==
  \E o \in Ops :
    /\ Applied(o)
    /\ job[o].kind = "removeAliases"
    /\ a \notin job[o].aliases
    /\ Hash[a] \in HashesOf(job[o].aliases)

Agrees(cached) ==
  /\ HashesOf(owned) \subseteq HashesOf(cached)
  /\ \A a \in cached : Hash[a] \in HashesOf(owned) \/ RemovedInAnotherForm(a)

\* Once every alias change that its device alone was asked for has succeeded or was
\* refused, TKMember's aliases have all the member's, and of those the member does not
\* have at most those that were removed in a form they are not cached in, whatever
\* else this or the other devices do (addAliases:, removeAliases:, getAliases:).
AliasesKnown == \A d \in Devices : AllTold(d) => Agrees(aliases[d])
-----------------------------------------------------------------------------
(* Refinement *)

\* Whatever is lost or late on the way: the member changes as the
\* applications asked, each change in one step, once, in order, and is reported if it
\* took effect (approveKeys:, removeKeys:, removeNonStoredKeys:, addAliases:,
\* removeAliases:).
Took == {applied[i] : i \in DOMAIN applied}
Promise ==
  INSTANCE MemberChanges WITH
    keys <- registered, names <- HashesOf(owned), asked <- job, took <- Took

TakesEffectOnce == Promise!Spec
-----------------------------------------------------------------------------
(* The inductive invariant *)

SameDevice(o, p) ==
  job[o] # Nothing /\ job[p] # Nothing /\ job[o].device = job[p].device

\* An operation that has not been asked for has left no trace.
Started ==
  \A o \in Ops :
    /\ pc[o] = "idle" <=> job[o] = Nothing
    /\ pc[o] = "idle" => sent[o] = Nothing /\ reply[o] = Nothing /\ unstored[o] = {}
    /\ pc[o] = "idle" => \A p \in Ops : o < p => pc[p] = "idle"
    /\ pc[o] = "done" <=> told[o] # "nothing"

\* What an operation waits for is what its kind asks for.
KindsMatch ==
  \A o \in Ops :
    /\ pc[o] = "listing" => job[o].kind = "removeNonStoredKeys"
    /\ pc[o] = "fetching" => job[o].kind \in {"getKeys", "getAliases"}
    /\ pc[o] # "idle" /\ job[o].kind \in {"getKeys", "getAliases"} =>
         pc[o] \in {"fetching", "done"} /\ sent[o] = Nothing
    /\ Refused(o) => pc[o] = "done" /\ sent[o] = Nothing /\ ~Applied(o)

\* An application that awaits its answers has one operation under way.
OneByOne ==
  Serial => \A o, p \in Ops : o < p /\ SameDevice(o, p) => pc[o] = "done"

\* Only operations that were sent are applied, once; what is on its way follows
\* a hash that the member had.
SentOnce ==
  \A o \in Ops :
    /\ sent[o] # Nothing => pc[o] \in {"updating", "done"}
                              /\ sent[o].prev <= hash /\ ~Applied(o)
    /\ Applied(o) => pc[o] \in {"updating", "done"}
    /\ reply[o] # Nothing => reply[o].hash <= hash
    /\ pc[o] = "updating" /\ reply[o] # Nothing => Applied(o)
    /\ told[o] = "success" => sent[o] = Nothing

\* An update that a later one of its device has overtaken follows a hash that is
\* no longer the member's: the server will not take it.
OvertakenIsStale ==
  Serial =>
    \A o, p \in Ops :
      o < p /\ SameDevice(o, p) /\ sent[o] # Nothing /\ Applied(p) =>
        sent[o].prev < hash

\* What removeNonStoredKeys is to remove are not the keys that were stored, one of
\* which it is signed with, and which stay in the store of its device.
SparesSigner ==
  /\ \A d \in Devices : signer[d] \in Lookups(store[d])
  /\ \A o \in Ops : job[o] # Nothing => unstored[o] \cap job[o].keys = {}
  /\ Serial =>
       \A o \in Ops : job[o] # Nothing /\ job[o].kind = "removeNonStoredKeys" =>
         LET d == job[o].device
         IN  /\ pc[o] \in {"listing", "reading"} => signer[d][Signing] \in job[o].keys
             /\ sent[o] # Nothing => sent[o].key \in job[o].keys \cap KeysOf(Signing, store[d])

Consistent ==
  /\ TypeOK
  /\ Started
  /\ KindsMatch
  /\ OneByOne
  /\ SentOnce
  /\ OvertakenIsStale
  /\ SparesSigner
  /\ Serial => AppliedInOrder
  /\ ReportedIsApplied

\* The aliases a device has cached, or is about to, are those of the member.
Caching(o) == ChangesAliases(o) /\ pc[o] = "updating" /\ Applied(o)

Follows(d) ==
  /\ \A o \in Ops : Caching(o) => Agrees(CachedAfter(o))
  /\ \A o \in Ops :
       HasReply(o, "fetching") /\ job[o].device = d => reply[o].aliases = owned
  /\ (\A o \in Ops : ~Caching(o)) => Agrees(aliases[d])

CachesFollow == Serial => \A d \in Devices : AloneChanges(d) => Follows(d)

Inductive == Consistent /\ CachesFollow
=============================================================================
