-------------------------- MODULE MemberUpdateProofs --------------------------
(* Proofs about MemberUpdate, for any devices, keys, aliases and number of      *)
(* operations.                                                                  *)
EXTENDS MemberUpdate, TLAPS

\* What a lookup finds is a key of the store.
LEMMA LookupsType ==
  ASSUME NEW keys \in SUBSET Keys
  PROVE  Lookups(keys) \subseteq [Levels -> Keys]
  BY DEF Lookups

\* Aliases that were given their realm are aliases, and not of a foreign one.
LEMMA InRealmType ==
  ASSUME NEW names \in SUBSET Aliases
  PROVE  LET given == {InRealm(a) : a \in names}
         IN  given \in SUBSET Aliases /\ given \cap Foreign = {}
<1>1. ASSUME NEW a \in Aliases PROVE InRealm(a) \in Aliases /\ InRealm(a) \notin Foreign
  <2>1. a \in [value : Spellings, realm : Realms] /\ Partner \in Realms
    BY MemberUpdateAssumption DEF Aliases
  <2>2. [a EXCEPT !.realm = Partner] \in [value : Spellings, realm : Realms]
        /\ [a EXCEPT !.realm = Partner].realm = Partner
    BY <2>1
  <2>3. QED
    BY <2>1, <2>2 DEF InRealm, Foreign, Aliases
<1>2. QED
  BY <1>1

\* Normalized aliases are aliases, and have the hashes they had.
LEMMA NormalType ==
  ASSUME NEW o \in Ops, job[o] \in Jobs
  PROVE  NormalAliases(o) \in SUBSET Aliases /\ HashesOf(NormalAliases(o)) = HashesOf(job[o].aliases)
<1>1. ASSUME NEW a \in Aliases
      PROVE  Normalized(a) \in Aliases /\ Hash[Normalized(a)] = Hash[a]
  <2>1. a.value \in Spellings /\ Normal[a.value] \in Spellings
        /\ Normal[Normal[a.value]] = Normal[a.value]
    BY MemberUpdateAssumption DEF Aliases
  <2>2. Normalized(a) \in Aliases /\ Normalized(a).value = Normal[a.value]
    BY <2>1 DEF Aliases, Normalized
  <2>3. QED
    BY <2>1, <2>2 DEF Hash
<1>2. job[o].aliases \subseteq Aliases
  BY DEF Jobs
<1>3. NormalAliases(o) \subseteq Aliases
  BY <1>1, <1>2 DEF NormalAliases
<1>4. ASSUME NEW h PROVE h \in HashesOf(NormalAliases(o)) <=> h \in HashesOf(job[o].aliases)
  BY <1>1, <1>2 DEF NormalAliases, HashesOf
<1>5. HashesOf(NormalAliases(o)) = HashesOf(job[o].aliases)
  <2> DEFINE hashes == HashesOf(NormalAliases(o))
             others == HashesOf(job[o].aliases)
  <2>1. \A h : h \in hashes <=> h \in others
    BY <1>4
  <2> HIDE DEF hashes, others
  <2>2. hashes = others
    BY <2>1
  <2>3. QED
    BY <2>2 DEF hashes, others
<1>6. QED
  BY <1>3, <1>5

\* The hashes that the member's aliases have after an update.
LEMMA HashesAfter ==
  ASSUME NEW o \in Ops, job[o] \in Jobs
  PROVE  HashesOf(AliasesAfter(o)) =
           IF job[o].kind = "addAliases" THEN HashesOf(owned) \cup HashesOf(job[o].aliases)
           ELSE IF job[o].kind = "removeAliases"
                  THEN HashesOf(owned) \ HashesOf(job[o].aliases)
           ELSE HashesOf(owned)
<1>1. CASE job[o].kind = "addAliases"
  <2>1. HashesOf(owned \cup NormalAliases(o)) = HashesOf(owned) \cup HashesOf(NormalAliases(o))
    BY DEF HashesOf
  <2>2. QED
    BY <1>1, <2>1, NormalType DEF AliasesAfter
<1>2. CASE job[o].kind = "removeAliases"
  <2>1. AliasesAfter(o) = {a \in owned : Hash[a] \notin HashesOf(job[o].aliases)}
    BY <1>2 DEF AliasesAfter
  <2>2. \A gone : HashesOf({a \in owned : Hash[a] \notin gone}) = HashesOf(owned) \ gone
    BY DEF HashesOf
  <2>3. QED
    BY <1>2, <2>1, <2>2
<1>3. CASE job[o].kind \notin {"addAliases", "removeAliases"}
  BY <1>3 DEF AliasesAfter
<1>4. QED
  BY <1>1, <1>2, <1>3

\* The story begins with the types of the state.
LEMMA InitType == Init => TypeOK
<1> SUFFICES ASSUME Init PROVE TypeOK
  OBVIOUS
<1>1. \A d \in Devices : FirstKeys[d] \in SUBSET Keys
  BY MemberUpdateAssumption
<1>2. \A d \in Devices : signer[d] \in [Levels -> Keys]
  BY <1>1, LookupsType DEF Init
<1>3. signer \in [Devices -> [Levels -> Keys]]
  BY <1>2 DEF Init
<1>4. Snapshot \in Snapshots
  BY <1>1, MemberUpdateAssumption DEF Init, Snapshot, Snapshots
<1>5. QED
  BY <1>1, <1>3, <1>4, MemberUpdateAssumption DEF Init, TypeOK

LEMMA InitConsistent == Init => Consistent
<1> SUFFICES ASSUME Init PROVE Consistent
  OBVIOUS
<1>1. TypeOK
  BY InitType
<1>2. Started /\ KindsMatch /\ OneByOne /\ SentOnce
  BY DEF Init, Started, KindsMatch, OneByOne, SentOnce, SameDevice, Applied,
         Refused
<1>3. OvertakenIsStale /\ AppliedInOrder /\ ReportedIsApplied
  BY DEF Init, OvertakenIsStale, AppliedInOrder, ReportedIsApplied, SameDevice,
         Applied, Refused
<1>4. SparesSigner
  BY DEF Init, SparesSigner
<1>5. QED
  BY <1>1, <1>2, <1>3, <1>4 DEF Consistent

-----------------------------------------------------------------------------
(* Invocations *)

\* An invocation starts one operation of a device that has none under way.
LEMMA StartConsistent ==
  ASSUME Consistent, NEW o \in Ops, NEW d \in Devices, NEW kind \in Kinds,
         NEW keys \in SUBSET Keys, NEW names \in SUBSET Aliases,
         NEW place \in {"listing", "fetching", "reading", "done"},
         Start(o, d, kind, keys, names, place),
         told' = IF place = "done" THEN [told EXCEPT ![o] = "error"] ELSE told,
         place = "listing" => kind = "removeNonStoredKeys",
         place = "fetching" <=> kind \in {"getKeys", "getAliases"},
         kind = "addAliases" /\ names \cap Foreign # {} => place = "done",
         kind = "removeNonStoredKeys" =>
           place = "listing" /\ signer[d][Signing] \in keys
  PROVE  Consistent'
<1> DEFINE new == [device |-> d, kind |-> kind, keys |-> keys, aliases |-> names]
<1>1. new \in Jobs /\ new # Nothing
  BY NothingAssumption DEF Jobs
<1>2. /\ pc[o] = "idle" /\ job[o] = Nothing /\ sent[o] = Nothing
      /\ reply[o] = Nothing /\ ~Applied(o) /\ told[o] = "nothing"
  BY DEF Start, Consistent, Started, SentOnce, TypeOK
<1>3. /\ pc' = [pc EXCEPT ![o] = place]
      /\ job' = [job EXCEPT ![o] = new]
      /\ UNCHANGED <<server, keyStore, caches, unstored, sent, reply>>
      /\ \A p \in Ops : p < o => pc[p] # "idle"
      /\ Serial => Idle(d)
  BY DEF Start
<1> USE <1>1, <1>2, <1>3 DEF server, keyStore, caches
<1>4. TypeOK'
  BY DEF Consistent, TypeOK
<1>5. \A p \in Ops : Applied(p)' <=> Applied(p)
  BY DEF Applied
<1>6. \A p \in Ops : p # o =>
        job'[p] = job[p] /\ pc'[p] = pc[p] /\ told'[p] = told[p]
  BY DEF Consistent, TypeOK
<1>7. job'[o] = new /\ pc'[o] = place
      /\ told'[o] = IF place = "done" THEN "error" ELSE "nothing"
  BY DEF Consistent, TypeOK
<1>8. Started'
  BY <1>6, <1>7 DEF Consistent, Started
<1>9. KindsMatch'
  <2>1. \A p \in Ops : p # o => (Refused(p)' <=> Refused(p))
    BY <1>6 DEF Refused
  <2>2. Refused(o)' => kind = "addAliases" /\ names \cap Foreign # {}
    BY <1>7 DEF Refused
  <2>3. QED
    BY <1>5, <1>6, <1>7, <2>1, <2>2 DEF Consistent, KindsMatch
<1>10. \A p \in Ops : job[p] # Nothing => p <= o
  BY DEF Consistent, Started, Ops
<1>11. ASSUME Serial, NEW p \in Ops, p < o, SameDevice(p, o)' PROVE pc'[p] = "done"
  BY <1>6, <1>7, <1>11 DEF SameDevice, Idle, Consistent, Started, Ops
<1>12. OneByOne'
  BY <1>6, <1>10, <1>11 DEF Consistent, OneByOne, SameDevice, Ops
<1>13. SentOnce'
  BY <1>5, <1>6, <1>7 DEF Consistent, SentOnce
<1>14. OvertakenIsStale'
  BY <1>5, <1>6, <1>7 DEF Consistent, OvertakenIsStale, SameDevice
<1>15. \A i \in DOMAIN applied : applied[i] \in Ops /\ applied[i] # o
  BY DEF Consistent, TypeOK, Applied
<1>16. (Serial => AppliedInOrder)'
  BY <1>6, <1>15 DEF Consistent, AppliedInOrder
<1>17. ReportedIsApplied'
  BY <1>5, <1>6, <1>7 DEF Consistent, ReportedIsApplied, Refused
<1>18. SparesSigner'
  <2>1. unstored[o] = {}
    BY DEF Consistent, Started
  <2>2. QED
    BY <1>6, <1>7, <2>1 DEF Consistent, SparesSigner
<1>19. QED
  BY <1>4, <1>8, <1>9, <1>12, <1>13, <1>14, <1>16, <1>17, <1>18 DEF Consistent

\* So does every operation the application can ask for.
LEMMA InvocationConsistent ==
  ASSUME Consistent, NEW o \in Ops, NEW d \in Devices,
         \/ \E keys \in KeyChoices : ApproveKeys(o, d, keys) \/ RemoveKeys(o, d, keys)
         \/ RemoveNonStoredKeys(o, d)
         \/ \E names \in AliasChoices :
              AddAliases(o, d, names) \/ RemoveAliases(o, d, names)
         \/ GetKeys(o, d)
         \/ GetAliases(o, d)
  PROVE  Consistent'
<1> USE DEF Kinds
<1>1. ASSUME NEW keys \in KeyChoices, ApproveKeys(o, d, keys) PROVE Consistent'
  BY <1>1, StartConsistent, MemberUpdateAssumption DEF ApproveKeys
<1>2. ASSUME NEW keys \in KeyChoices, RemoveKeys(o, d, keys) PROVE Consistent'
  BY <1>2, StartConsistent, MemberUpdateAssumption DEF RemoveKeys
<1>3. CASE RemoveNonStoredKeys(o, d)
  <2>1. StoredKeys(d) \in SUBSET Keys
    BY DEF StoredKeys, Consistent, TypeOK
  <2>2. signer[d][Signing] \in StoredKeys(d)
    BY MemberUpdateAssumption DEF StoredKeys
  <2>3. QED
    BY <1>3, <2>1, <2>2, StartConsistent DEF RemoveNonStoredKeys
<1>4. ASSUME NEW names \in AliasChoices, AddAliases(o, d, names) PROVE Consistent'
  <2> DEFINE given == {InRealm(a) : a \in names}
  <2>1. names \in SUBSET Aliases /\ given \in SUBSET Aliases /\ given \cap Foreign = {}
    BY InRealmType, MemberUpdateAssumption
  <2>2. CASE names \cap Foreign = {}
    <3>1. Start(o, d, "addAliases", {}, given, "reading") /\ UNCHANGED told
      BY <1>4, <2>2 DEF AddAliases
    <3> HIDE DEF given
    <3>2. QED
      BY <2>1, <3>1, StartConsistent
  <2>3. CASE names \cap Foreign # {}
    BY <1>4, <2>1, <2>3, StartConsistent DEF AddAliases
  <2>4. QED
    BY <2>2, <2>3
<1>5. ASSUME NEW names \in AliasChoices, RemoveAliases(o, d, names) PROVE Consistent'
  BY <1>5, StartConsistent, MemberUpdateAssumption DEF RemoveAliases
<1>6. CASE GetKeys(o, d)
  BY <1>6, StartConsistent DEF GetKeys
<1>7. CASE GetAliases(o, d)
  BY <1>7, StartConsistent DEF GetAliases
<1>8. QED
  BY <1>1, <1>2, <1>3, <1>4, <1>5, <1>6, <1>7

\* A new key disturbs nothing but the key store.
LEMMA GenerateKeyConsistent ==
  ASSUME Consistent, NEW d \in Devices, NEW k \in Keys, GenerateKey(d, k)
  PROVE  Consistent'
<1> USE DEF GenerateKey, server, keyStore, caches
<1>1. Lookups(store[d] \cup {k}) \subseteq [Levels -> Keys]
  BY LookupsType DEF Consistent, TypeOK
<1>2. TypeOK'
  BY <1>1 DEF Consistent, TypeOK
<1>3. Started' /\ KindsMatch' /\ OneByOne' /\ SentOnce'
  BY DEF Consistent, Started, KindsMatch, OneByOne, SentOnce, SameDevice, Applied,
         Refused
<1>4. OvertakenIsStale' /\ (Serial => AppliedInOrder)' /\ ReportedIsApplied'
  BY DEF Consistent, OvertakenIsStale, AppliedInOrder, ReportedIsApplied,
         SameDevice, Applied, Refused
<1>5. SparesSigner'
  <2>1. /\ \A e \in Devices : e # d => signer'[e] = signer[e] /\ store'[e] = store[e]
        /\ signer'[d] \in Lookups(store'[d]) /\ store[d] \subseteq store'[d]
    BY DEF Consistent, TypeOK
  <2>2. \A e \in Devices : KeysOf(Signing, store[e]) \subseteq KeysOf(Signing, store'[e])
    BY <2>1 DEF KeysOf
  <2>3. ASSUME Serial, NEW o \in Ops, job[o] # Nothing, job[o].device = d
        PROVE  pc[o] = "done"
    BY <2>3 DEF Idle, Consistent, Started
  <2>4. \A o \in Ops : job[o] # Nothing => job[o].device \in Devices
    BY DEF Consistent, TypeOK, Jobs
  <2>5. \A e \in Devices : signer'[e] \in Lookups(store'[e])
    BY <2>1 DEF Consistent, SparesSigner
  <2>6. ASSUME Serial, NEW o \in Ops, job[o] # Nothing,
               job[o].kind = "removeNonStoredKeys"
        PROVE  LET e == job[o].device
               IN  /\ pc[o] \in {"listing", "reading"} => signer'[e][Signing] \in job[o].keys
                   /\ sent[o] # Nothing =>
                        sent[o].key \in job[o].keys \cap KeysOf(Signing, store'[e])
    BY <2>1, <2>2, <2>3, <2>4, <2>6 DEF Consistent, SparesSigner
  <2>7. QED
    BY <2>5, <2>6 DEF Consistent, SparesSigner
<1>6. QED
  BY <1>2, <1>3, <1>4, <1>5 DEF Consistent

-----------------------------------------------------------------------------
(* The server and the completion handlers *)

\* A step of one operation that the server has no part in: it may be told, have
\* a reply, send its update and learn what keys it is to remove.
LEMMA OwnStepConsistent ==
  ASSUME Consistent, TypeOK', NEW o \in Ops,
         UNCHANGED <<server, keyStore, job>>,
         \A p \in Ops : p # o =>
           /\ unstored'[p] = unstored[p] /\ pc'[p] = pc[p] /\ sent'[p] = sent[p]
           /\ reply'[p] = reply[p] /\ told'[p] = told[p],
         pc[o] # "idle" /\ pc[o] # "done" /\ pc'[o] # "idle", job[o] # Nothing,
         unstored'[o] \cap job[o].keys = {},
         pc'[o] = "done" <=> told'[o] # "nothing",
         pc'[o] \in {"listing", "fetching"} => pc'[o] = pc[o],
         pc'[o] = "reading" => pc[o] \in {"listing", "reading"},
         pc'[o] = "updating" => pc[o] \in {"reading", "updating"},
         pc[o] = "updating" => pc'[o] \in {"updating", "done"},
         sent'[o] # Nothing =>
           \/ sent'[o] = sent[o]
           \/ /\ pc[o] = "reading"
              /\ sent'[o].prev <= hash
              /\ sent'[o].key = signer[job[o].device][Signing],
         sent'[o] # Nothing => pc'[o] \in {"updating", "done"},
         reply'[o] # Nothing => reply'[o].hash <= hash,
         pc'[o] = "updating" /\ reply'[o] # Nothing => Applied(o),
         told'[o] = "success" => sent'[o] = Nothing,
         told'[o] = "success" /\ job[o].kind \in Changes => Applied(o)
  PROVE  Consistent'
<1> USE DEF server, keyStore
<1>1. \A p \in Ops : Applied(p)' <=> Applied(p)
  BY DEF Applied
<1>2. \A p \in Ops : Refused(p)' <=> Refused(p)
  BY DEF Refused
<1>3. \A p, q \in Ops : SameDevice(p, q)' <=> SameDevice(p, q)
  BY DEF SameDevice
<1>4. ~Refused(o)
  BY DEF Consistent, KindsMatch
<1>5. Started'
  BY DEF Consistent, Started
<1>6. KindsMatch'
  <2>1. ASSUME job[o].kind \in {"getKeys", "getAliases"}
        PROVE  pc'[o] \in {"fetching", "done"} /\ sent'[o] = Nothing
    <3>1. pc[o] = "fetching" /\ sent[o] = Nothing
      BY <2>1 DEF Consistent, KindsMatch
    <3>2. pc'[o] \in {"idle", "listing", "fetching", "reading", "updating", "done"}
      BY DEF TypeOK
    <3>3. QED
      BY <3>1, <3>2
  <2>2. QED
    BY <1>1, <1>2, <1>4, <2>1 DEF Consistent, KindsMatch
<1>7. OneByOne'
  BY <1>3 DEF Consistent, OneByOne
<1>8. SentOnce'
  BY <1>1 DEF Consistent, SentOnce
<1>9. OvertakenIsStale'
  <2>1. ASSUME Serial, NEW p \in Ops, NEW q \in Ops, p < q, SameDevice(p, q),
               sent'[p] # Nothing, Applied(q)
        PROVE  sent'[p].prev < hash
    <3>1. pc[p] = "done"
      BY <2>1 DEF Consistent, OneByOne
    <3>2. sent'[p] = sent[p]
      BY <3>1
    <3>3. QED
      BY <2>1, <3>2 DEF Consistent, OvertakenIsStale
  <2>2. QED
    BY <1>1, <1>3, <2>1 DEF OvertakenIsStale
<1>10. (Serial => AppliedInOrder)'
  <2>1. \A i \in DOMAIN applied : applied[i] \in Ops
    BY DEF Consistent, TypeOK
  <2>2. \A p \in Ops : job'[p].device = job[p].device
    OBVIOUS
  <2>3. QED
    BY <2>1, <2>2 DEF Consistent, AppliedInOrder
<1>11. ReportedIsApplied'
  BY <1>1, <1>2, <1>4 DEF Consistent, ReportedIsApplied
<1>12. SparesSigner'
  <2>1. job[o].device \in Devices
    BY DEF Consistent, TypeOK, Jobs
  <2>2. signer[job[o].device][Signing] \in KeysOf(Signing, store[job[o].device])
    BY <2>1, MemberUpdateAssumption DEF Consistent, SparesSigner, Lookups, KeysOf
  <2>3. ASSUME Serial, job[o].kind = "removeNonStoredKeys"
        PROVE  LET key == signer[job[o].device][Signing]
               IN  /\ pc'[o] \in {"listing", "reading"} => key \in job[o].keys
                   /\ sent'[o] # Nothing =>
                        sent'[o].key \in job[o].keys \cap KeysOf(Signing, store[job[o].device])
    BY <2>2, <2>3 DEF Consistent, SparesSigner
  <2>4. QED
    BY <2>1, <2>3 DEF Consistent, SparesSigner
<1>13. QED
  BY <1>5, <1>6, <1>7, <1>8, <1>9, <1>10, <1>11, <1>12 DEF Consistent

\* An operation under way has been asked for; its members of the state have the
\* types of TypeOK.
LEMMA UnderWay ==
  ASSUME Consistent, NEW o \in Ops, pc[o] # "idle"
  PROVE  job[o] \in Jobs /\ job[o] # Nothing
  BY DEF Consistent, TypeOK, Started

\* A completion handler or an answer of the server to a read disturbs nothing.
LEMMA HandlerConsistent ==
  ASSUME Consistent, NEW o \in Ops,
         ServeRead(o) \/ Fetched(o) \/ Listed(o) \/ ReadDone(o) \/ Updated(o) \/ Fail(o)
  PROVE  Consistent'
<1> USE DEF server, keyStore, caches
<1>1. pc[o] # "idle" /\ pc[o] # "done"
  BY DEF ServeRead, Fetched, Listed, ReadDone, Updated, Fail, HasReply
<1>2. job[o] \in Jobs /\ job[o] # Nothing
  BY <1>1, UnderWay
<1> USE <1>1, <1>2
<1>3. reply[o] # Nothing => reply[o] \in Snapshots /\ reply[o].hash <= hash
  BY DEF Consistent, TypeOK, SentOnce
<1>4. told[o] = "nothing" /\ unstored[o] \cap job[o].keys = {}
  BY DEF Consistent, TypeOK, Started, SparesSigner
<1>5. CASE ServeRead(o)
  <2> USE <1>5 DEF ServeRead
  <2>1. Snapshot \in Snapshots /\ Snapshot.hash = hash
    BY DEF Consistent, TypeOK, Snapshot, Snapshots
  <2>2. TypeOK'
    BY <2>1 DEF Consistent, TypeOK
  <2>3. reply'[o] = Snapshot /\ \A p \in Ops : p # o => reply'[p] = reply[p]
    BY DEF Consistent, TypeOK
  <2>4. sent[o] = Nothing
    BY DEF Consistent, SentOnce
  <2>5. hash <= hash
    BY DEF Consistent, TypeOK
  <2>6. QED
    BY <1>4, <2>1, <2>2, <2>3, <2>4, <2>5, OwnStepConsistent
<1>6. CASE Fetched(o)
  <2> USE <1>6 DEF Fetched, HasReply, Succeed
  <2>1. TypeOK'
    BY <1>3 DEF Consistent, TypeOK, Snapshots, Jobs
  <2>2. pc'[o] = "done" /\ told'[o] = "success" /\ reply'[o] = Nothing
    BY DEF Consistent, TypeOK
  <2>3. sent[o] = Nothing
    BY DEF Consistent, SentOnce
  <2>4. job[o].kind \notin Changes
    BY DEF Consistent, KindsMatch, Changes
  <2>5. \A p \in Ops : p # o =>
          pc'[p] = pc[p] /\ told'[p] = told[p] /\ reply'[p] = reply[p]
    BY DEF Consistent, TypeOK
  <2>6. QED
    BY <1>4, <2>1, <2>2, <2>3, <2>4, <2>5, OwnStepConsistent
<1>7. CASE Listed(o)
  <2> USE <1>7 DEF Listed, HasReply, Succeed
  <2>1. sent[o] = Nothing
    BY DEF Consistent, SentOnce
  <2>2. reply'[o] = Nothing /\ \A p \in Ops : p # o => reply'[p] = reply[p]
    BY DEF Consistent, TypeOK
  <2>3. job[o].kind \notin Changes
    BY DEF Consistent, KindsMatch, Changes
  <2>4. CASE ToRemove(o) = {}
    <3>1. TypeOK'
      BY <2>4 DEF Consistent, TypeOK
    <3>2. pc'[o] = "done" /\ told'[o] = "success"
      BY <2>4 DEF Consistent, TypeOK
    <3>3. \A p \in Ops : p # o => pc'[p] = pc[p] /\ told'[p] = told[p]
      BY <2>4 DEF Consistent, TypeOK
    <3>4. UNCHANGED <<server, keyStore, job, unstored, sent>>
      BY <2>4
    <3> HIDE DEF Listed
    <3>5. QED
      BY <1>4, <2>1, <2>2, <2>3, <3>1, <3>2, <3>3, <3>4, OwnStepConsistent
  <2>5. CASE ToRemove(o) # {}
    <3>1. ToRemove(o) \in SUBSET Keys /\ ToRemove(o) \cap job[o].keys = {}
      BY <1>3 DEF ToRemove, Snapshots
    <3>2. TypeOK'
      BY <2>5, <3>1 DEF Consistent, TypeOK
    <3>3. /\ unstored'[o] = ToRemove(o) /\ pc'[o] = "reading"
          /\ \A p \in Ops : p # o => pc'[p] = pc[p] /\ unstored'[p] = unstored[p]
          /\ told' = told
      BY <2>5 DEF Consistent, TypeOK
    <3>4. QED
      BY <1>4, <2>1, <2>2, <2>3, <3>1, <3>2, <3>3, OwnStepConsistent
  <2>6. QED
    BY <2>4, <2>5
<1>8. CASE ReadDone(o)
  <2> USE <1>8 DEF ReadDone, HasReply
  <2>1. signer[job[o].device][Signing] \in Keys
    BY MemberUpdateAssumption DEF Consistent, TypeOK, Jobs
  <2>2. /\ Update(o) \in Updates /\ Update(o).prev <= hash
        /\ Update(o).key = signer[job[o].device][Signing]
    BY <1>3, <2>1 DEF Update, Updates, Snapshots
  <2>3. TypeOK'
    BY <2>2 DEF Consistent, TypeOK
  <2>4. sent'[o] = Update(o) /\ reply'[o] = Nothing /\ pc'[o] = "updating"
    BY DEF Consistent, TypeOK
  <2>5. \A p \in Ops : p # o =>
          sent'[p] = sent[p] /\ reply'[p] = reply[p] /\ pc'[p] = pc[p]
    BY DEF Consistent, TypeOK
  <2>6. QED
    BY <1>4, <2>2, <2>3, <2>4, <2>5, OwnStepConsistent
<1>9. CASE Updated(o)
  <2> USE <1>9 DEF Updated, HasReply, Succeed
  <2>1. CachedAfter(o) \in SUBSET Aliases
    BY DEF CachedAfter, Consistent, TypeOK, Jobs
  <2>2. TypeOK'
    BY <1>3, <2>1 DEF Consistent, TypeOK, Jobs
  <2>3. pc'[o] = "done" /\ told'[o] = "success" /\ reply'[o] = Nothing
    BY DEF Consistent, TypeOK
  <2>4. Applied(o)
    BY DEF Consistent, SentOnce
  <2>5. \A p \in Ops : p # o =>
          pc'[p] = pc[p] /\ told'[p] = told[p] /\ reply'[p] = reply[p]
    BY DEF Consistent, TypeOK
  <2>6. UNCHANGED <<server, keyStore, job, unstored, sent>>
    OBVIOUS
  <2>7. sent[o] = Nothing
    BY <2>4 DEF Consistent, SentOnce
  <2> HIDE DEF Updated, HasReply, Succeed
  <2>8. QED
    BY <1>4, <2>2, <2>3, <2>4, <2>5, <2>6, <2>7, OwnStepConsistent
<1>10. CASE Fail(o)
  <2> USE <1>10 DEF Fail
  <2>1. TypeOK'
    BY DEF Consistent, TypeOK
  <2>2. pc'[o] = "done" /\ told'[o] = "error" /\ reply'[o] = Nothing
    BY DEF Consistent, TypeOK
  <2>3. \A p \in Ops : p # o =>
          pc'[p] = pc[p] /\ told'[p] = told[p] /\ reply'[p] = reply[p]
    BY DEF Consistent, TypeOK
  <2>4. UNCHANGED <<server, keyStore, job, unstored, sent>>
    OBVIOUS
  <2> HIDE DEF Fail
  <2>5. QED
    BY <1>4, <2>1, <2>2, <2>3, <2>4, OwnStepConsistent
<1>11. QED
  BY <1>5, <1>6, <1>7, <1>8, <1>9, <1>10

\* What the server takes is applied from then on.
LEMMA TakingApplies ==
  ASSUME applied \in Seq(Ops), NEW o \in Ops, applied' = Append(applied, o)
  PROVE  \A p \in Ops : Applied(p)' <=> Applied(p) \/ p = o
<1>1. Len(applied) + 1 \in DOMAIN applied' /\ applied'[Len(applied) + 1] = o
  OBVIOUS
<1>2. \A i \in DOMAIN applied : i \in DOMAIN applied' /\ applied'[i] = applied[i]
  OBVIOUS
<1>3. \A i \in DOMAIN applied' : i \in DOMAIN applied \/ i = Len(applied) + 1
  OBVIOUS
<1>4. QED
  BY <1>1, <1>2, <1>3 DEF Applied

\* The server takes an update only on top of the hash it follows, so none that a
\* later one of its device has overtaken.
LEMMA ServeUpdateConsistent ==
  ASSUME Consistent, NEW o \in Ops, ServeUpdate(o)
  PROVE  Consistent'
<1> USE DEF ServeUpdate, server, keyStore, caches
<1>1. sent[o] # Nothing /\ ~Applied(o) /\ pc[o] \in {"updating", "done"}
  BY DEF Consistent, SentOnce
<1>2. job[o] \in Jobs /\ job[o] # Nothing
  BY <1>1, UnderWay
<1>3. ~Refused(o)
  BY <1>1 DEF Consistent, KindsMatch
<1>4. sent'[o] = Nothing /\ \A p \in Ops : p # o => sent'[p] = sent[p]
  BY DEF Consistent, TypeOK
<1>5. \A p \in Ops : Refused(p)' <=> Refused(p)
  BY DEF Refused
<1>6. \A p, q \in Ops : SameDevice(p, q)' <=> SameDevice(p, q)
  BY DEF SameDevice
<1>7. OneByOne'
  BY <1>6 DEF Consistent, OneByOne
<1>8. SparesSigner'
  BY <1>4 DEF Consistent, SparesSigner
<1>9. CASE ~Acceptable(o)
  <2> USE <1>9
  <2>1. UNCHANGED <<server, reply>>
    OBVIOUS
  <2>2. \A p \in Ops : Applied(p)' <=> Applied(p)
    BY <2>1 DEF Applied
  <2>3. TypeOK'
    BY <2>1 DEF Consistent, TypeOK
  <2>4. Started' /\ KindsMatch' /\ SentOnce'
    BY <1>1, <1>4, <1>5, <2>1, <2>2 DEF Consistent, Started, KindsMatch, SentOnce
  <2>5. OvertakenIsStale'
    BY <1>4, <1>6, <2>1, <2>2 DEF Consistent, OvertakenIsStale
  <2>6. (Serial => AppliedInOrder)' /\ ReportedIsApplied'
    BY <1>5, <2>1, <2>2 DEF Consistent, AppliedInOrder, ReportedIsApplied
  <2>7. QED
    BY <1>7, <1>8, <2>3, <2>4, <2>5, <2>6 DEF Consistent
<1>10. CASE Acceptable(o)
  <2>1. /\ hash' = hash + 1 /\ registered' = KeysAfter(o)
        /\ owned' = AliasesAfter(o) /\ applied' = Append(applied, o)
        /\ hash \in Nat /\ applied \in Seq(Ops)
    BY <1>10 DEF Consistent, TypeOK
  <2>2. KeysAfter(o) \in SUBSET Keys
    BY <1>2 DEF KeysAfter, Consistent, TypeOK, Jobs
  <2>3. AliasesAfter(o) \in SUBSET Aliases
    <3>1. NormalAliases(o) \in SUBSET Aliases
      BY <1>2, NormalType
    <3>2. QED
      BY <3>1 DEF AliasesAfter, Consistent, TypeOK
  <2>4. Snapshot' \in Snapshots /\ Snapshot'.hash = hash'
    BY <2>1, <2>2, <2>3 DEF Snapshot, Snapshots
  <2>5. applied' \in Seq(Ops)
    BY <2>1
  <2>6. reply' = IF pc[o] = "updating" THEN [reply EXCEPT ![o] = Snapshot'] ELSE reply
    BY <1>10
  <2>7. TypeOK'
    BY <2>1, <2>2, <2>3, <2>4, <2>5, <2>6 DEF Consistent, TypeOK
  <2>8. \A p \in Ops : Applied(p)' <=> Applied(p) \/ p = o
    BY <2>1, TakingApplies
  <2>9. \A p \in Ops : \/ reply'[p] = reply[p]
                       \/ p = o /\ pc[o] = "updating" /\ reply'[p].hash = hash'
    <3>1. DOMAIN reply = Ops
      BY DEF Consistent, TypeOK
    <3> HIDE DEF ServeUpdate
    <3>2. CASE pc[o] = "updating"
      <4>1. reply' = [reply EXCEPT ![o] = Snapshot']
        BY <2>6, <3>2
      <4>2. reply'[o] = Snapshot' /\ \A p \in Ops : p # o => reply'[p] = reply[p]
        BY <3>1, <4>1
      <4>3. QED
        BY <2>4, <3>2, <4>2
    <3>3. CASE pc[o] # "updating"
      BY <2>6, <3>3
    <3>4. QED
      BY <3>2, <3>3
  <2>10. Started' /\ KindsMatch'
    BY <1>1, <1>3, <1>4, <1>5, <2>8, <2>9 DEF Consistent, Started, KindsMatch
  <2>11. \A p \in Ops : sent[p] # Nothing => sent[p].prev \in Nat
    BY DEF Consistent, TypeOK, Updates
  <2>12. \A p \in Ops : reply[p] # Nothing => reply[p].hash \in Nat
    BY DEF Consistent, TypeOK, Snapshots
  <2>13. SentOnce'
    BY <1>1, <1>4, <2>1, <2>8, <2>9, <2>11, <2>12 DEF Consistent, SentOnce
  <2>14. OvertakenIsStale'
    BY <1>4, <1>6, <2>1, <2>11 DEF Consistent, SentOnce, OvertakenIsStale
  <2>15. ASSUME Serial, NEW p \in Ops, Applied(p), job[p].device = job[o].device
         PROVE  p < o
    <3>1. job[p] # Nothing
      BY <2>15 DEF Consistent, SentOnce, Started
    <3>2. sent[o].prev = hash
      BY <1>10 DEF Acceptable
    <3>3. ~(o < p)
      BY <1>1, <1>2, <2>1, <2>15, <3>1, <3>2 DEF Consistent, OvertakenIsStale, SameDevice
    <3>4. QED
      BY <1>1, <2>15, <3>3 DEF Ops
  <2>16. (Serial => AppliedInOrder)'
    <3> SUFFICES ASSUME Serial, NEW i \in DOMAIN applied', NEW j \in DOMAIN applied',
                        i < j, job[applied'[i]].device = job[applied'[j]].device
                 PROVE  applied'[i] < applied'[j]
      BY DEF AppliedInOrder
    <3>1. i \in DOMAIN applied /\ applied'[i] = applied[i]
      BY <2>1
    <3>2. applied[i] \in Ops /\ Applied(applied[i])
      BY <2>1, <3>1 DEF Applied
    <3>3. CASE j \in DOMAIN applied
      BY <2>1, <3>1, <3>3 DEF Consistent, AppliedInOrder
    <3>4. CASE j = Len(applied) + 1
      BY <2>1, <2>15, <3>1, <3>2, <3>4
    <3>5. QED
      BY <2>1, <3>3, <3>4
  <2>17. ReportedIsApplied'
    BY <1>3, <1>5, <2>8 DEF Consistent, ReportedIsApplied
  <2>18. QED
    BY <1>7, <1>8, <2>7, <2>10, <2>13, <2>14, <2>16, <2>17 DEF Consistent
<1>11. QED
  BY <1>9, <1>10

-----------------------------------------------------------------------------
(* The cached aliases *)

\* What was removed stays removed.
LEMMA RemovalsStay ==
  ASSUME \A o \in Ops : Applied(o) => Applied(o)' /\ job'[o] = job[o]
  PROVE  \A a : RemovedInAnotherForm(a) => RemovedInAnotherForm(a)'
  BY DEF RemovedInAnotherForm

\* The aliases that a device keeps when its update is answered agree with the
\* member's, if those it had agreed when the server took the update.
LEMMA CachedAfterAgrees ==
  ASSUME NEW o \in Ops, job[o] \in Jobs, ChangesAliases(o), Agrees(aliases[job[o].device]),
         job' = job, aliases' = aliases, owned' = AliasesAfter(o), Applied(o)',
         \A p \in Ops : Applied(p) => Applied(p)'
  PROVE  Agrees(CachedAfter(o))'
<1> DEFINE cached == aliases[job[o].device]
           names  == job[o].aliases
           after  == CachedAfter(o)
<1>1. \A a : RemovedInAnotherForm(a) => RemovedInAnotherForm(a)'
  BY RemovalsStay
<1>2. /\ HashesOf(owned) \subseteq HashesOf(cached)
      /\ \A a \in cached : Hash[a] \in HashesOf(owned) \/ RemovedInAnotherForm(a)
  BY DEF Agrees
<1>3. CachedAfter(o)' = after
  BY DEF CachedAfter
<1>4. CASE job[o].kind = "addAliases"
  <2>1. after = cached \cup names /\ HashesOf(owned') = HashesOf(owned) \cup HashesOf(names)
    BY <1>4, HashesAfter DEF CachedAfter
  <2> HIDE DEF after, cached, names
  <2>2. HashesOf(after) = HashesOf(cached) \cup HashesOf(names)
        /\ \A a \in names : Hash[a] \in HashesOf(names)
    BY <2>1 DEF HashesOf
  <2>3. QED
    BY <1>1, <1>2, <1>3, <2>1, <2>2 DEF Agrees
<1>5. CASE job[o].kind = "removeAliases"
  <2>1. after = cached \ names /\ HashesOf(owned') = HashesOf(owned) \ HashesOf(names)
    BY <1>5, HashesAfter DEF CachedAfter
  <2>2. \A a : a \notin names /\ Hash[a] \in HashesOf(names) => RemovedInAnotherForm(a)'
    BY <1>5 DEF RemovedInAnotherForm
  <2> HIDE DEF after, cached, names
  <2>3. HashesOf(cached) \ HashesOf(names) \subseteq HashesOf(after)
    BY <2>1 DEF HashesOf
  <2>4. HashesOf(owned') \subseteq HashesOf(after)
    BY <1>2, <2>1, <2>3
  <2>5. ASSUME NEW a \in after
        PROVE  Hash[a] \in HashesOf(owned') \/ RemovedInAnotherForm(a)'
    BY <1>1, <1>2, <2>1, <2>2
  <2>6. QED
    BY <1>3, <2>4, <2>5 DEF Agrees
<1>6. QED
  BY <1>4, <1>5 DEF ChangesAliases

\* A device's aliases follow the member's as long as neither changes, no update of
\* aliases is taken or answered, and what is fetched is what the member has.
LEMMA Undisturbed ==
  ASSUME NEW d \in Devices, AloneChanges(d), Follows(d),
         owned' = owned, aliases'[d] = aliases[d],
         \A o \in Ops : Caching(o)' <=> Caching(o),
         \A o \in Ops : Applied(o) => Applied(o)' /\ job'[o] = job[o],
         \A o \in Ops :
           HasReply(o, "fetching")' /\ job'[o].device = d => reply'[o].aliases = owned
  PROVE  Follows(d)'
<1>1. \A o \in Ops : Caching(o) => job[o].device = d /\ job'[o] = job[o]
  BY DEF AloneChanges, Caching
<1>2. \A o \in Ops : Caching(o) => CachedAfter(o)' = CachedAfter(o)
  BY <1>1 DEF CachedAfter
<1>3. \A a : RemovedInAnotherForm(a) => RemovedInAnotherForm(a)'
  BY RemovalsStay
<1>4. \A o \in Ops : Caching(o)' => Agrees(CachedAfter(o))'
  BY <1>2, <1>3 DEF Follows, Agrees
<1>5. (\A o \in Ops : ~Caching(o)') => Agrees(aliases[d])'
  BY <1>3 DEF Follows, Agrees
<1>6. QED
  BY <1>4, <1>5 DEF Follows

\* Nor is an alias disturbed by a step that has no part in any of it.
LEMMA UntouchedFollows ==
  ASSUME NEW d \in Devices, Follows(d) \/ ~AloneChanges(d), AloneChanges(d)',
         UNCHANGED <<server, caches, job, pc, reply, told>>
  PROVE  Follows(d)'
<1> USE DEF server, caches
<1>1. AloneChanges(d)
  BY DEF AloneChanges, ChangesAliases, Refused
<1>2. \A o \in Ops : (Applied(o)' <=> Applied(o)) /\ (Caching(o)' <=> Caching(o))
  BY DEF Caching, ChangesAliases, Applied
<1>3. \A o \in Ops :
        HasReply(o, "fetching")' /\ job'[o].device = d => reply'[o].aliases = owned
  BY <1>1 DEF Follows, HasReply
<1>4. QED
  BY <1>1, <1>2, <1>3, Undisturbed

\* An operation that is only asked for leaves the caches alone.
LEMMA StartFollows ==
  ASSUME Consistent, NEW d \in Devices, Follows(d) \/ ~AloneChanges(d), AloneChanges(d)',
         NEW o \in Ops, pc[o] = "idle",
         NEW new \in Jobs, job' = [job EXCEPT ![o] = new],
         NEW place \in {"listing", "fetching", "reading", "done"},
         pc' = [pc EXCEPT ![o] = place],
         told' = told \/ told' = [told EXCEPT ![o] = "error"],
         UNCHANGED <<server, caches, reply>>
  PROVE  Follows(d)'
<1> USE DEF server, caches
<1>1. job[o] = Nothing /\ reply[o] = Nothing /\ new # Nothing
  BY NothingAssumption DEF Consistent, Started
<1>2. /\ job'[o] = new /\ pc'[o] = place
      /\ \A p \in Ops : p # o =>
           job'[p] = job[p] /\ pc'[p] = pc[p] /\ told'[p] = told[p]
  BY DEF Consistent, TypeOK
<1>3. \A p \in Ops : p # o => (ChangesAliases(p)' <=> ChangesAliases(p))
  BY <1>2 DEF ChangesAliases
<1>4. ~ChangesAliases(o)
  BY <1>1 DEF ChangesAliases
<1>5. \A p \in Ops : p # o => (Refused(p)' <=> Refused(p))
  BY <1>2 DEF Refused
<1>6. AloneChanges(d)
  BY <1>2, <1>3, <1>4, <1>5 DEF AloneChanges
<1>7. \A p \in Ops : Applied(p)' <=> Applied(p)
  BY DEF Applied
<1>8. \A p \in Ops : Caching(p)' <=> Caching(p)
  BY <1>2, <1>3, <1>4, <1>7 DEF Caching
<1>9. \A p \in Ops : Applied(p) => Applied(p)' /\ job'[p] = job[p]
  <2>1. ~Applied(o)
    BY DEF Consistent, SentOnce
  <2>2. QED
    BY <1>2, <1>7, <2>1
<1>10. \A p \in Ops :
         HasReply(p, "fetching")' /\ job'[p].device = d => reply'[p].aliases = owned
  BY <1>1, <1>2, <1>6 DEF HasReply, Follows
<1>11. QED
  BY <1>6, <1>8, <1>9, <1>10, Undisturbed

\* Nor does any other operation an application can ask for.
LEMMA InvocationFollows ==
  ASSUME Consistent, NEW d \in Devices, Follows(d) \/ ~AloneChanges(d), AloneChanges(d)',
         NEW o \in Ops, NEW e \in Devices,
         \/ \E keys \in KeyChoices : ApproveKeys(o, e, keys) \/ RemoveKeys(o, e, keys)
         \/ RemoveNonStoredKeys(o, e)
         \/ \E names \in AliasChoices :
              AddAliases(o, e, names) \/ RemoveAliases(o, e, names)
         \/ GetKeys(o, e)
         \/ GetAliases(o, e)
  PROVE  Follows(d)'
<1>1. PICK kind \in Kinds, keys \in SUBSET Keys, names \in SUBSET Aliases,
           place \in {"listing", "fetching", "reading", "done"} :
        /\ Start(o, e, kind, keys, names, place)
        /\ told' = told \/ told' = [told EXCEPT ![o] = "error"]
  <2>1. StoredKeys(e) \in SUBSET Keys
    BY DEF StoredKeys, Consistent, TypeOK
  <2>2. KeyChoices \subseteq SUBSET Keys /\ AliasChoices \subseteq SUBSET Aliases
    BY MemberUpdateAssumption
  <2>3. \A given \in SUBSET Aliases : {InRealm(a) : a \in given} \in SUBSET Aliases
    BY InRealmType
  <2>4. CASE \E given \in AliasChoices : AddAliases(o, e, given)
    BY <2>2, <2>3, <2>4 DEF Kinds, AddAliases
  <2>5. QED
    BY <2>1, <2>2, <2>4 DEF Kinds, ApproveKeys, RemoveKeys, RemoveNonStoredKeys,
                            RemoveAliases, GetKeys, GetAliases
<1> DEFINE new == [device |-> e, kind |-> kind, keys |-> keys, aliases |-> names]
<1>2. new \in Jobs
  BY DEF Jobs
<1>3. /\ pc[o] = "idle" /\ job' = [job EXCEPT ![o] = new]
      /\ pc' = [pc EXCEPT ![o] = place]
      /\ UNCHANGED <<server, caches, reply>>
  BY <1>1 DEF Start
<1> HIDE DEF new
<1>4. QED
  BY <1>1, <1>2, <1>3, StartFollows

\* A device that awaits its answers has no two operations under way.
LEMMA OneUnderWay ==
  ASSUME Serial, Consistent, NEW o \in Ops, NEW p \in Ops,
         job[o] # Nothing, job[p] # Nothing, job[o].device = job[p].device,
         pc[o] # "done", pc[p] # "done"
  PROVE  o = p
  BY DEF Consistent, OneByOne, SameDevice, Ops

\* A change of aliases that no error was told of and that is still on its way is
\* under way.
LEMMA SentIsUnderWay ==
  ASSUME Consistent, NEW d \in Devices, AloneChanges(d), NEW o \in Ops,
         ChangesAliases(o), sent[o] # Nothing
  PROVE  pc[o] = "updating"
<1>1. pc[o] \in {"updating", "done"} /\ ~Applied(o) /\ ~Refused(o)
  BY DEF Consistent, SentOnce, KindsMatch
<1>2. told[o] # "error" /\ told[o] # "success"
  BY <1>1 DEF AloneChanges, Consistent, ReportedIsApplied, ChangesAliases, Changes
<1>3. pc[o] # "done"
  BY <1>2 DEF Consistent, Started, TypeOK
<1>4. QED
  BY <1>1, <1>3

\* An update of aliases that is taken leaves the member with what its device is
\* about to cache; any other leaves the member's aliases alone.
LEMMA ServeUpdateFollows ==
  ASSUME Serial, Consistent, Consistent', NEW d \in Devices, AloneChanges(d), Follows(d),
         NEW o \in Ops, ServeUpdate(o)
  PROVE  Follows(d)'
<1> USE DEF ServeUpdate, server, keyStore, caches
<1>1. sent[o] # Nothing /\ ~Applied(o) /\ pc[o] \in {"updating", "done"}
  BY DEF Consistent, SentOnce
<1>2. job[o] \in Jobs /\ job[o] # Nothing
  BY <1>1, UnderWay
<1>3. \A p \in Ops : HasReply(p, "fetching")' => HasReply(p, "fetching") /\ reply'[p] = reply[p]
  BY <1>1 DEF HasReply, Consistent, TypeOK
<1>4. CASE ~Acceptable(o)
  <2>1. UNCHANGED <<server, caches, job, pc>>
    BY <1>4
  <2>2. \A p \in Ops : (Applied(p)' <=> Applied(p)) /\ (Caching(p)' <=> Caching(p))
    BY <2>1 DEF Caching, ChangesAliases, Applied
  <2>3. \A p \in Ops :
          HasReply(p, "fetching")' /\ job'[p].device = d => reply'[p].aliases = owned
    BY <1>3, <2>1 DEF Follows
  <2>4. QED
    BY <2>1, <2>2, <2>3, Undisturbed
<1>5. CASE Acceptable(o) /\ ~ChangesAliases(o)
  <2>1. owned' = owned
    BY <1>2, <1>5 DEF AliasesAfter, ChangesAliases
  <2>2. \A p \in Ops : Applied(p)' <=> Applied(p) \/ p = o
    BY <1>5, TakingApplies DEF Consistent, TypeOK
  <2>3. \A p \in Ops : Caching(p)' <=> Caching(p)
    BY <1>5, <2>2 DEF Caching, ChangesAliases
  <2>4. \A p \in Ops :
          HasReply(p, "fetching")' /\ job'[p].device = d => reply'[p].aliases = owned
    BY <1>3 DEF Follows
  <2>5. QED
    BY <2>1, <2>2, <2>3, <2>4, Undisturbed
<1>6. CASE Acceptable(o) /\ ChangesAliases(o)
  <2>1. pc[o] = "updating" /\ job[o].device = d
    BY <1>1, <1>6, SentIsUnderWay DEF AloneChanges
  <2>2. ASSUME NEW p \in Ops, p # o, ChangesAliases(p) PROVE pc[p] # "updating"
    BY <1>2, <2>1, <2>2, OneUnderWay DEF AloneChanges, ChangesAliases
  <2>3. Agrees(aliases[d])
    BY <1>1, <2>2 DEF Follows, Caching
  <2>4. \A p \in Ops : Applied(p)' <=> Applied(p) \/ p = o
    BY <1>6, TakingApplies DEF Consistent, TypeOK
  <2>5. owned' = AliasesAfter(o) /\ job' = job /\ aliases' = aliases
    BY <1>6
  <2>6. Agrees(CachedAfter(o))'
    BY <1>2, <1>6, <2>1, <2>3, <2>4, <2>5, CachedAfterAgrees
  <2>7. Applied(o)'
    BY <2>4
  <2>8. Caching(o)'
    BY <1>6, <2>1, <2>7 DEF Caching, ChangesAliases
  <2>9. ASSUME NEW p \in Ops, Caching(p)' PROVE p = o
    BY <2>2, <2>9 DEF Caching, ChangesAliases
  <2>10. ASSUME NEW p \in Ops, HasReply(p, "fetching")' PROVE job[p].device # d
    <3>1. pc[p] = "fetching" /\ job[p] # Nothing
      BY <2>10, UnderWay DEF HasReply
    <3>2. QED
      BY <1>2, <2>1, <3>1, OneUnderWay
  <2>11. QED
    BY <2>6, <2>8, <2>9, <2>10 DEF Follows
<1>7. QED
  BY <1>4, <1>5, <1>6

\* A handler caches what was fetched, or what its update made of the aliases.
LEMMA HandlerFollows ==
  ASSUME Serial, Consistent, NEW d \in Devices, Follows(d) \/ ~AloneChanges(d),
         AloneChanges(d)', NEW o \in Ops,
         ServeRead(o) \/ Fetched(o) \/ Listed(o) \/ ReadDone(o) \/ Updated(o) \/ Fail(o)
  PROVE  Follows(d)'
<1> USE DEF server, keyStore, caches
<1>1. pc[o] # "idle" /\ pc[o] # "done" /\ ~Refused(o) /\ told[o] = "nothing"
  BY DEF ServeRead, Fetched, Listed, ReadDone, Updated, Fail, HasReply, Consistent,
         KindsMatch, Started, TypeOK
<1>2. job[o] \in Jobs /\ job[o] # Nothing
  BY <1>1, UnderWay
<1>3. job' = job /\ UNCHANGED server
  BY DEF ServeRead, Fetched, Listed, ReadDone, Updated, Fail
<1>4. \A p \in Ops : p # o => told'[p] = told[p] /\ pc'[p] = pc[p]
  BY DEF ServeRead, Fetched, Listed, ReadDone, Updated, Fail, Succeed, Consistent, TypeOK
<1>5. \A p \in Ops : (ChangesAliases(p)' <=> ChangesAliases(p)) /\ (Refused(p)' <=> Refused(p))
                     /\ (Applied(p)' <=> Applied(p))
  BY <1>3 DEF ChangesAliases, Refused, Applied
<1>6. AloneChanges(d) /\ Follows(d)
  BY <1>1, <1>3, <1>4, <1>5 DEF AloneChanges
<1>7. \A p \in Ops : Caching(p) => p = o \/ job[p].device # job[o].device
  BY <1>1, <1>2, OneUnderWay DEF Caching, ChangesAliases
<1>8. \A p \in Ops : p # o => (Caching(p)' <=> Caching(p))
  BY <1>4, <1>5 DEF Caching
<1>9. ASSUME aliases'[d] = aliases[d], ~ChangesAliases(o) \/ pc[o] = "reading" \/ UNCHANGED pc,
             HasReply(o, "fetching")' => Snapshot.aliases = reply'[o].aliases,
             \A p \in Ops : p # o => reply'[p] = reply[p]
      PROVE  Follows(d)'
  <2>1. pc[o] = "reading" => ~Applied(o)
    BY DEF Consistent, SentOnce
  <2>2. Caching(o)' <=> Caching(o)
    BY <1>3, <1>4, <1>5, <1>9, <2>1 DEF Caching, ChangesAliases
  <2>3. \A p \in Ops : Applied(p) => Applied(p)' /\ job'[p] = job[p]
    BY <1>3, <1>5
  <2>4. \A p \in Ops :
          HasReply(p, "fetching")' /\ job'[p].device = d => reply'[p].aliases = owned
    BY <1>3, <1>4, <1>6, <1>9 DEF HasReply, Follows, Snapshot
  <2>5. QED
    BY <1>3, <1>4, <1>6, <1>8, <1>9, <2>2, <2>3, <2>4, Undisturbed
<1>10. ASSUME Agrees(aliases'[d]), job[o].device = d, pc'[o] = "done",
              \A p \in Ops : p # o => reply'[p] = reply[p]
       PROVE  Follows(d)'
  <2>1. \A p \in Ops : ~Caching(p)'
    BY <1>3, <1>4, <1>5, <1>6, <1>7, <1>8, <1>10 DEF Caching, AloneChanges
  <2>2. \A p \in Ops :
          HasReply(p, "fetching")' /\ job'[p].device = d => reply'[p].aliases = owned
    BY <1>3, <1>4, <1>6, <1>10 DEF HasReply, Follows
  <2>3. \A a : RemovedInAnotherForm(a) => RemovedInAnotherForm(a)'
    BY <1>3, <1>5, RemovalsStay
  <2>4. Agrees(aliases[d])'
    BY <1>3, <1>10, <2>3 DEF Agrees
  <2>5. QED
    BY <1>3, <2>1, <2>2, <2>4 DEF Follows
<1>11. ASSUME ServeRead(o) \/ reply'[o] = Nothing
       PROVE  \A p \in Ops : p # o => reply'[p] = reply[p]
  BY DEF ServeRead, Fetched, Listed, ReadDone, Updated, Fail, Consistent, TypeOK
<1>12. CASE ServeRead(o)
  BY <1>9, <1>11, <1>12 DEF ServeRead, Consistent, TypeOK
<1>13. CASE Fetched(o)
  <2> USE <1>13 DEF Fetched, HasReply, Succeed
  <2>1. reply'[o] = Nothing /\ pc'[o] = "done" /\ ~ChangesAliases(o)
    BY DEF Consistent, TypeOK, KindsMatch, ChangesAliases
  <2>2. \/ aliases'[d] = aliases[d]
        \/ job[o].device = d /\ aliases'[d] = reply[o].aliases
    BY DEF Consistent, TypeOK
  <2>3. Agrees(owned)
    BY DEF Agrees, HashesOf
  <2>4. job[o].device = d => Agrees(reply[o].aliases)
    BY <1>6, <2>3 DEF Follows
  <2>5. QED
    BY <1>9, <1>10, <1>11, <2>1, <2>2, <2>4
<1>14. CASE Listed(o)
  BY <1>9, <1>11, <1>14 DEF Listed, HasReply, Consistent, TypeOK, KindsMatch, ChangesAliases
<1>15. CASE ReadDone(o)
  BY <1>9, <1>11, <1>15 DEF ReadDone, HasReply, Consistent, TypeOK
<1>16. CASE Updated(o)
  <2> USE <1>16 DEF Updated, HasReply, Succeed
  <2>1. reply'[o] = Nothing /\ pc'[o] = "done" /\ Applied(o)
    BY DEF Consistent, TypeOK, SentOnce
  <2>2. aliases'[d] = IF job[o].device = d THEN CachedAfter(o) ELSE aliases[d]
    BY DEF Consistent, TypeOK
  <2>3. CASE ChangesAliases(o)
    BY <1>6, <1>10, <1>11, <2>1, <2>2, <2>3 DEF Follows, Caching, AloneChanges
  <2>4. CASE ~ChangesAliases(o)
    BY <1>2, <1>9, <1>11, <2>1, <2>2, <2>4 DEF CachedAfter, ChangesAliases
  <2>5. QED
    BY <2>3, <2>4
<1>17. CASE Fail(o)
  <2>1. reply'[o] = Nothing /\ told'[o] = "error"
    BY <1>17 DEF Fail, Consistent, TypeOK
  <2>2. ~ChangesAliases(o)
    BY <1>1, <1>5, <2>1 DEF AloneChanges
  <2>3. QED
    BY <1>9, <1>11, <1>17, <2>1, <2>2 DEF Fail, HasReply
<1>18. QED
  BY <1>12, <1>13, <1>14, <1>15, <1>16, <1>17

-----------------------------------------------------------------------------
(* Refinement *)

\* Asking is asking.
LEMMA StartAsks ==
  ASSUME Consistent, NEW o \in Ops, NEW d \in Devices,
         NEW kind \in Kinds, NEW keys \in SUBSET Keys, NEW names \in SUBSET Aliases,
         NEW place, Start(o, d, kind, keys, names, place),
         told' = IF kind = "addAliases" /\ names \cap Foreign # {}
                   THEN [told EXCEPT ![o] = "error"] ELSE told
  PROVE  Promise!Ask(o)
<1> DEFINE new == [device |-> d, kind |-> kind, keys |-> keys, aliases |-> names]
<1>1. new \in Jobs /\ new # Nothing
  BY NothingAssumption DEF Jobs
<1>2. /\ pc[o] = "idle" /\ job[o] = Nothing /\ job' = [job EXCEPT ![o] = new]
      /\ job'[o] = new /\ \A p \in Ops : p # o => job'[p] = job[p]
  BY DEF Start, Consistent, Started, TypeOK
<1>3. UNCHANGED <<registered, owned, Took>>
  BY DEF Start, server, Took
<1>4. Promise!Refused(o)' <=> kind = "addAliases" /\ names \cap Foreign # {}
  BY <1>2 DEF Promise!Refused
<1>5. ASSUME NEW p \in Ops, Promise!SameDevice(o, p)', p # o
      PROVE  p < o /\ (Serial => told[p] # "nothing")
  <2>1. job[p] # Nothing /\ job[p].device = d
    BY <1>2, <1>5 DEF Promise!SameDevice
  <2>2. ~(o < p)
    BY <1>2, <2>1 DEF Consistent, Started
  <2>3. Serial => told[p] # "nothing"
    BY <2>1 DEF Start, Idle
  <2>4. QED
    BY <1>5, <2>2, <2>3 DEF Ops
<1> HIDE DEF new
<1>6. QED
  BY <1>1, <1>2, <1>3, <1>4, <1>5 DEF Promise!Ask

\* So does every operation an application can ask for.
LEMMA InvocationAsks ==
  ASSUME Consistent, NEW o \in Ops, NEW d \in Devices,
         \/ \E keys \in KeyChoices : ApproveKeys(o, d, keys) \/ RemoveKeys(o, d, keys)
         \/ RemoveNonStoredKeys(o, d)
         \/ \E names \in AliasChoices :
              AddAliases(o, d, names) \/ RemoveAliases(o, d, names)
         \/ GetKeys(o, d)
         \/ GetAliases(o, d)
  PROVE  Promise!Ask(o)
<1>1. PICK kind \in Kinds, keys \in SUBSET Keys, names \in SUBSET Aliases,
           place \in {"listing", "fetching", "reading", "done"} :
        /\ Start(o, d, kind, keys, names, place)
        /\ told' = IF kind = "addAliases" /\ names \cap Foreign # {}
                     THEN [told EXCEPT ![o] = "error"] ELSE told
  <2>1. StoredKeys(d) \in SUBSET Keys
    BY DEF StoredKeys, Consistent, TypeOK
  <2>2. KeyChoices \subseteq SUBSET Keys /\ AliasChoices \subseteq SUBSET Aliases
    BY MemberUpdateAssumption
  <2>3. \A given \in SUBSET Aliases :
          LET named == {InRealm(a) : a \in given}
          IN  named \in SUBSET Aliases /\ named \cap Foreign = {}
    BY InRealmType
  <2>4. CASE \E given \in AliasChoices : AddAliases(o, d, given)
    BY <2>2, <2>3, <2>4 DEF Kinds, AddAliases
  <2>5. QED
    BY <2>1, <2>2, <2>4 DEF Kinds, ApproveKeys, RemoveKeys, RemoveNonStoredKeys,
                            RemoveAliases, GetKeys, GetAliases
<1>2. QED
  BY <1>1, StartAsks

\* An update that the server takes is a change that takes effect.
LEMMA ServeUpdateTakesEffect ==
  ASSUME Consistent, Consistent', NEW o \in Ops, ServeUpdate(o)
  PROVE  Promise!TakeEffect(o) \/ UNCHANGED Promise!vars
<1> USE DEF ServeUpdate, server
<1>1. CASE ~Acceptable(o)
  BY <1>1 DEF Promise!vars, Took
<1>2. CASE Acceptable(o)
  <2>1. sent[o] # Nothing /\ ~Applied(o) /\ pc[o] \in {"updating", "done"}
    BY DEF Consistent, SentOnce
  <2>2. job[o] \in Jobs /\ job[o] # Nothing
    BY <2>1, UnderWay
  <2>3. ~Promise!Refused(o) /\ told[o] # "success"
    BY <2>1, <2>2 DEF Promise!Refused, Refused, Consistent, KindsMatch, SentOnce
  <2>4. /\ applied \in Seq(Ops) /\ applied' = Append(applied, o)
        /\ \A p \in Ops : Applied(p)' <=> Applied(p) \/ p = o
    BY <1>2, TakingApplies DEF Consistent, TypeOK
  <2>5. /\ Took \subseteq Ops /\ \A p \in Ops : p \in Took <=> Applied(p)
        /\ o \notin Took /\ Took' = Took \cup {o}
    <3>1. Took \subseteq Ops /\ \A p \in Ops : p \in Took <=> Applied(p)
      BY <2>4 DEF Took, Applied
    <3>2. applied' \in Seq(Ops)
      BY <2>4
    <3>3. Took' \subseteq Ops /\ \A p \in Ops : p \in Took' <=> Applied(p)'
      BY <3>2 DEF Took, Applied
    <3>4. QED
      BY <2>1, <2>4, <3>1, <3>3
  <2>6. ASSUME Serial, NEW p \in Took, Promise!SameDevice(o, p) PROVE p < o
    <3>1. p \in Ops /\ Applied(p) /\ SameDevice(o, p) /\ p # o
      BY <2>1, <2>5, <2>6 DEF Promise!SameDevice, SameDevice
    <3>2. sent[o].prev = hash /\ hash \in Nat
      BY <1>2 DEF Acceptable, Consistent, TypeOK
    <3>3. ~(o < p)
      BY <2>1, <2>6, <3>1, <3>2 DEF Consistent, OvertakenIsStale
    <3>4. QED
      BY <3>1, <3>3 DEF Ops
  <2>7. Promise!Changed(o)
    <3>1. registered' = KeysAfter(o) /\ owned' = AliasesAfter(o)
      BY <1>2
    <3>2. job[o].kind \in Kinds \ {"getKeys", "getAliases"}
      BY <2>1, <2>2 DEF Jobs, Consistent, KindsMatch
    <3>3. unstored[o] \in SUBSET Keys /\ unstored[o] \cap job[o].keys = {}
      BY <2>2 DEF Consistent, TypeOK, SparesSigner
    <3>4. HashesOf(owned') =
            IF job[o].kind = "addAliases" THEN HashesOf(owned) \cup HashesOf(job[o].aliases)
            ELSE IF job[o].kind = "removeAliases"
                   THEN HashesOf(owned) \ HashesOf(job[o].aliases)
            ELSE HashesOf(owned)
      BY <2>2, <3>1, HashesAfter
    <3>5. {Hash[a] : a \in job[o].aliases} = HashesOf(job[o].aliases)
      BY DEF HashesOf
    <3> HIDE DEF ServeUpdate
    <3>6. QED
      BY <3>1, <3>2, <3>3, <3>4, <3>5 DEF Promise!Changed, KeysAfter, Kinds
  <2>8. QED
    BY <1>2, <2>2, <2>3, <2>5, <2>6, <2>7 DEF Promise!TakeEffect
<1>3. QED
  BY <1>1, <1>2

\* A handler answers, if it does anything to be seen: success only for what took
\* effect, or had nothing to change.
LEMMA HandlerAnswers ==
  ASSUME Consistent, NEW o \in Ops,
         ServeRead(o) \/ Fetched(o) \/ Listed(o) \/ ReadDone(o) \/ Updated(o) \/ Fail(o)
  PROVE  Promise!Answer(o) \/ UNCHANGED Promise!vars
<1>1. pc[o] # "idle" /\ told[o] = "nothing"
  BY DEF ServeRead, Fetched, Listed, ReadDone, Updated, Fail, HasReply, Consistent,
         Started, TypeOK
<1>2. job[o] # Nothing
  BY <1>1, UnderWay
<1>3. UNCHANGED <<registered, owned, job, Took>>
  BY DEF ServeRead, Fetched, Listed, ReadDone, Updated, Fail, server, Took
<1>4. CASE told' = told
  BY <1>3, <1>4 DEF Promise!vars
<1>5. CASE told' = [told EXCEPT ![o] = "error"]
  BY <1>1, <1>2, <1>3, <1>5 DEF Promise!Answer
<1>6. CASE told' = [told EXCEPT ![o] = "success"]
           /\ (Fetched(o) \/ Listed(o) \/ Updated(o))
  <2>1. o \in Took \/ Promise!NothingToDo(o)
    BY <1>6 DEF Fetched, Listed, Updated, HasReply, Consistent, KindsMatch, SentOnce,
                Applied, Took, Promise!NothingToDo
  <2>2. QED
    BY <1>1, <1>2, <1>3, <1>6, <2>1 DEF Promise!Answer
<1>7. QED
  BY <1>4, <1>5, <1>6 DEF ServeRead, Fetched, Listed, ReadDone, Updated, Fail, Succeed

-----------------------------------------------------------------------------
(* Theorems *)

\* What is on its way, what the server took and what the applications were told.
LEMMA ConsistentInvariant == Spec => []Consistent
<1>1. Init => Consistent
  BY InitConsistent
<1>2. Consistent /\ [Next]_vars => Consistent'
  <2> SUFFICES ASSUME Consistent, [Next]_vars PROVE Consistent'
    OBVIOUS
  <2>1. CASE \E d \in Devices, k \in Keys : GenerateKey(d, k)
    BY <2>1, GenerateKeyConsistent
  <2>2. ASSUME NEW o \in Ops, NEW d \in Devices,
               \/ \E keys \in KeyChoices :
                    ApproveKeys(o, d, keys) \/ RemoveKeys(o, d, keys)
               \/ RemoveNonStoredKeys(o, d)
               \/ \E names \in AliasChoices :
                    AddAliases(o, d, names) \/ RemoveAliases(o, d, names)
               \/ GetKeys(o, d)
               \/ GetAliases(o, d)
        PROVE  Consistent'
    BY <2>2, InvocationConsistent
  <2>3. ASSUME NEW o \in Ops, ServeUpdate(o) PROVE Consistent'
    BY <2>3, ServeUpdateConsistent
  <2>4. ASSUME NEW o \in Ops,
               \/ ServeRead(o) \/ Fetched(o) \/ Listed(o)
               \/ ReadDone(o) \/ Updated(o) \/ Fail(o)
        PROVE  Consistent'
    BY <2>4, HandlerConsistent
  <2>5. CASE UNCHANGED vars
    <3> USE <2>5 DEF vars, server, keyStore, caches
    <3>1. TypeOK' /\ Started' /\ KindsMatch' /\ OneByOne' /\ SentOnce'
      BY DEF Consistent, TypeOK, Started, KindsMatch, OneByOne, SentOnce, SameDevice,
             Applied, Refused
    <3>2. OvertakenIsStale' /\ (Serial => AppliedInOrder)' /\ ReportedIsApplied'
      BY DEF Consistent, OvertakenIsStale, AppliedInOrder, ReportedIsApplied,
             SameDevice, Applied, Refused
    <3>3. SparesSigner'
      BY DEF Consistent, SparesSigner
    <3>4. QED
      BY <3>1, <3>2, <3>3 DEF Consistent
  <2>6. QED
    BY <2>1, <2>2, <2>3, <2>4, <2>5 DEF Next
<1>3. QED
  BY <1>1, <1>2, PTL DEF Spec

\* The inductive invariant of MemberUpdate: what is on its way, what the server
\* took, what the applications were told and what their devices cached, for any
\* number of devices, keys, aliases and operations, and updates that the server sees
\* as late as it likes.
THEOREM MemberInvariant == Spec => []Inductive
<1>1. Init => CachesFollow
  <2> SUFFICES ASSUME Init, NEW d \in Devices PROVE Follows(d)
    BY DEF CachesFollow
  <2>1. HashesOf(owned) = {} /\ aliases[d] = {}
    BY DEF Init, HashesOf
  <2>2. Agrees(aliases[d])
    BY <2>1 DEF Agrees
  <2>3. QED
    BY <2>2 DEF Init, Follows, Caching, ChangesAliases, HasReply
<1>2. Consistent /\ Consistent' /\ CachesFollow /\ [Next]_vars => CachesFollow'
  <2> SUFFICES ASSUME Consistent, Consistent', CachesFollow, [Next]_vars, Serial,
                      NEW d \in Devices, AloneChanges(d)'
               PROVE  Follows(d)'
    BY DEF CachesFollow
  <2>1. Follows(d) \/ ~AloneChanges(d)
    BY DEF CachesFollow
  <2>2. ASSUME NEW e \in Devices, NEW k \in Keys, GenerateKey(e, k)
        PROVE  Follows(d)'
    <3>1. UNCHANGED <<server, caches, job, pc, reply, told>>
      BY <2>2 DEF GenerateKey
    <3>2. QED
      BY <2>1, <3>1, UntouchedFollows
  <2>3. ASSUME NEW o \in Ops, NEW e \in Devices,
               \/ \E keys \in KeyChoices :
                    ApproveKeys(o, e, keys) \/ RemoveKeys(o, e, keys)
               \/ RemoveNonStoredKeys(o, e)
               \/ \E names \in AliasChoices :
                    AddAliases(o, e, names) \/ RemoveAliases(o, e, names)
               \/ GetKeys(o, e)
               \/ GetAliases(o, e)
        PROVE  Follows(d)'
    BY <2>1, <2>3, InvocationFollows
  <2>4. ASSUME NEW o \in Ops, ServeUpdate(o) PROVE Follows(d)'
    <3>1. AloneChanges(d)
      BY <2>4 DEF ServeUpdate, AloneChanges, ChangesAliases, Refused
    <3>2. QED
      BY <2>1, <2>4, <3>1, ServeUpdateFollows
  <2>5. ASSUME NEW o \in Ops,
               \/ ServeRead(o) \/ Fetched(o) \/ Listed(o)
               \/ ReadDone(o) \/ Updated(o) \/ Fail(o)
        PROVE  Follows(d)'
    BY <2>1, <2>5, HandlerFollows
  <2>6. CASE UNCHANGED vars
    <3>1. UNCHANGED <<server, caches, job, pc, reply, told>>
      BY <2>6 DEF vars
    <3>2. QED
      BY <2>1, <3>1, UntouchedFollows
  <2>7. QED
    BY <2>2, <2>3, <2>4, <2>5, <2>6 DEF Next
<1>3. QED
  BY <1>1, <1>2, ConsistentInvariant, PTL DEF Spec, Inductive

\* The updates of a device whose application awaits its answers take effect in
\* the order in which they were asked for, each at most once (updateMember:).
THEOREM UpdatesInOrder == ASSUME Serial PROVE Spec => []AppliedInOrder
<1>1. Inductive => AppliedInOrder
  BY DEF Inductive, Consistent
<1>2. QED
  BY <1>1, MemberInvariant, PTL

\* A change is reported only after the server took it, and none is taken that
\* was refused before it was sent.
THEOREM ReportsAreTrue == Spec => []ReportedIsApplied
<1>1. Inductive => ReportedIsApplied
  BY DEF Inductive, Consistent
<1>2. QED
  BY <1>1, MemberInvariant, PTL

\* A device whose application awaits its answers does not lock itself out with
\* removeNonStoredKeys, whatever keys it generates and however late the server is.
THEOREM NeverLockedOut == ASSUME Serial PROVE Spec => NeverLocksItselfOut
<1>1. Inductive /\ [Next]_vars =>
        [\A o \in Ops :
           ServeUpdate(o) /\ job[o].kind = "removeNonStoredKeys" =>
             LET d == job[o].device IN CanSign(d) # {} => CanSign(d)' # {}]_vars
  <2> SUFFICES ASSUME Consistent, NEW o \in Ops, ServeUpdate(o),
                      job[o].kind = "removeNonStoredKeys",
                      CanSign(job[o].device) # {}
               PROVE  (CanSign(job[o].device)' # {})
    BY DEF Inductive
  <2> USE DEF ServeUpdate, server, keyStore
  <2>1. job[o] # Nothing
    BY UnderWay DEF Consistent, SentOnce
  <2>2. CASE Acceptable(o)
    <3>1. sent[o].key \in KeysOf(Signing, store[job[o].device]) \ unstored[o]
      BY <2>1 DEF Consistent, SparesSigner
    <3>2. registered' = registered \ unstored[o] /\ sent[o].key \in registered
      BY <2>2 DEF Acceptable, KeysAfter
    <3>3. QED
      BY <3>1, <3>2 DEF CanSign
  <2>3. CASE ~Acceptable(o)
    BY <2>3 DEF CanSign
  <2>4. QED
    BY <2>2, <2>3
<1>2. QED
  BY <1>1, MemberInvariant, PTL DEF Spec, NeverLocksItselfOut

\* The aliases a device reports have all the member's, once everything its
\* application, alone in changing them, asked for was answered (addAliases:,
\* removeAliases:, getAliases:), whatever else it or the other devices do; what they
\* have beyond the member's was removed in a form in which it was not cached.
THEOREM MembersAliasesKnown == ASSUME Serial PROVE Spec => []AliasesKnown
<1>1. Inductive => AliasesKnown
  <2> SUFFICES ASSUME Inductive, NEW d \in Devices, AllTold(d) PROVE Agrees(aliases[d])
    BY DEF AliasesKnown
  <2>1. \A o \in Ops : ~Caching(o)
    BY DEF Caching, ChangesAliases, AllTold, Inductive, Consistent, Started
  <2>2. QED
    BY <2>1 DEF AllTold, Inductive, CachesFollow, Follows
<1>2. QED
  BY <1>1, MemberInvariant, PTL

\* The detailed life of the updates implements the promise: each change takes effect
\* in one step, at most once and in the order its device asked for, and is reported
\* only if it did (updateMember:).
THEOREM ChangesTakeEffectOnce == Spec => TakesEffectOnce
<1>1. Init => Promise!Init
  <2> SUFFICES ASSUME Init PROVE Promise!Init
    OBVIOUS
  <2>1. TypeOK
    BY InitType
  <2>2. HashesOf(owned) \in SUBSET {Hash[a] : a \in Aliases}
    BY DEF Init, HashesOf
  <2>3. {applied[i] : i \in DOMAIN applied} = {}
    BY DEF Init
  <2>4. QED
    BY <2>1, <2>2, <2>3 DEF Init, TypeOK, Promise!Init, Took
<1>2. Consistent /\ Consistent' /\ [Next]_vars => [Promise!Next]_(Promise!vars)
  <2> SUFFICES ASSUME Consistent, Consistent', [Next]_vars
               PROVE  (\E o \in Ops : Promise!Ask(o) \/ Promise!TakeEffect(o)
                                        \/ Promise!Answer(o))
                      \/ UNCHANGED Promise!vars
    BY DEF Promise!Next
  <2>1. CASE \E d \in Devices, k \in Keys : GenerateKey(d, k)
    BY <2>1 DEF GenerateKey, server, Promise!vars, Took
  <2>2. ASSUME NEW o \in Ops, NEW d \in Devices,
               \/ \E keys \in KeyChoices :
                    ApproveKeys(o, d, keys) \/ RemoveKeys(o, d, keys)
               \/ RemoveNonStoredKeys(o, d)
               \/ \E names \in AliasChoices :
                    AddAliases(o, d, names) \/ RemoveAliases(o, d, names)
               \/ GetKeys(o, d)
               \/ GetAliases(o, d)
        PROVE  Promise!Ask(o)
    BY <2>2, InvocationAsks
  <2>3. ASSUME NEW o \in Ops, ServeUpdate(o)
        PROVE  Promise!TakeEffect(o) \/ UNCHANGED Promise!vars
    BY <2>3, ServeUpdateTakesEffect
  <2>4. ASSUME NEW o \in Ops,
               \/ ServeRead(o) \/ Fetched(o) \/ Listed(o)
               \/ ReadDone(o) \/ Updated(o) \/ Fail(o)
        PROVE  Promise!Answer(o) \/ UNCHANGED Promise!vars
    BY <2>4, HandlerAnswers
  <2>5. CASE UNCHANGED vars
    BY <2>5 DEF vars, server, Promise!vars, Took
  <2>6. QED
    BY <2>1, <2>2, <2>3, <2>4, <2>5 DEF Next
<1>3. QED
  BY <1>1, <1>2, ConsistentInvariant, PTL DEF Spec, TakesEffectOnce, Promise!Spec
=============================================================================
