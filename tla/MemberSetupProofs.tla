------------------------- MODULE MemberSetupProofs -------------------------
(* Theorems about MemberSetup and the engines under it. *)
EXTENDS MemberSetup, TLAPS

-----------------------------------------------------------------------------
(* The engines *)

\* What a generation does, of whichever engine: the other levels keep what they had.
LEMMA GenerateFacts ==
  ASSUME EngineTypeOK, NEW l \in Levels, NEW expires \in 0 .. Never,
         NEW reached \in Progress, Generate(l, expires, reached)
  PROVE  /\ EngineTypeOK'
         /\ UNCHANGED <<engine, now>>
         /\ Len(pairs') = Len(pairs) + 1
         /\ \A k \in 1 .. Len(pairs) : pairs'[k] = pairs[k]
         /\ pairs'[New] = [level |-> l, expires |-> expires]
         /\ verifiable \subseteq verifiable'
         /\ reached = "saved" => New \in verifiable' /\ New \in stored'
         /\ \A k \in stored' :
              k = New \/ (k \in stored /\ (engine = "enclave" => pairs[k].level # l))
         /\ \A k \in stored :
              k \in stored' \/ (engine # "token" /\ pairs[k].level = l)
<1>1. /\ pairs' = Append(pairs, [level |-> l, expires |-> expires])
      /\ pairs \in Seq([level : Levels, expires : 0 .. Never])
      /\ [level |-> l, expires |-> expires] \in [level : Levels, expires : 0 .. Never]
  BY DEF Generate, EngineTypeOK
<1>2. /\ pairs' \in Seq([level : Levels, expires : 0 .. Never])
      /\ Len(pairs') = Len(pairs) + 1
      /\ Len(pairs) \in Nat
      /\ \A k \in 1 .. Len(pairs) : pairs'[k] = pairs[k]
      /\ pairs'[New] = [level |-> l, expires |-> expires]
  BY <1>1 DEF New
<1>3. /\ stored' \subseteq Kept(l) \cup {New} /\ Kept(l) \subseteq stored'
      /\ verifiable' \subseteq verifiable \cup {New} /\ verifiable \subseteq verifiable'
      /\ reached = "saved" => New \in verifiable' /\ New \in stored'
      /\ UNCHANGED <<engine, now>>
  BY DEF Generate, Progress
<1>4. /\ Kept(l) \subseteq stored
      /\ \A k \in Kept(l) : engine = "enclave" => pairs[k].level # l
      /\ \A k \in stored : k \in Kept(l) \/ (engine # "token" /\ pairs[k].level = l)
  BY DEF Kept, OfLevel
<1>5. EngineTypeOK'
  <2>1. stored' \subseteq 1 .. Len(pairs') /\ verifiable' \subseteq 1 .. Len(pairs')
    <3>1. 1 .. Len(pairs) \subseteq 1 .. Len(pairs') /\ New \in 1 .. Len(pairs')
      BY <1>2 DEF New
    <3>2. stored \subseteq 1 .. Len(pairs) /\ verifiable \subseteq 1 .. Len(pairs)
      BY DEF EngineTypeOK
    <3> QED
      BY <1>3, <1>4, <3>1, <3>2
  <2>2. engine' \in Engines /\ now' \in 0 .. MaxTime
    BY <1>3 DEF EngineTypeOK
  <2> QED
    BY <1>2, <2>1, <2>2 DEF EngineTypeOK
<1> QED
  BY <1>2, <1>3, <1>4, <1>5

\* A new key of a level is the newest one; an older key that still is one of another.
LEMMA NewestAfter ==
  ASSUME EngineTypeOK, NEW l \in Levels, NEW expires \in 0 .. Never,
         NEW reached \in Progress, Generate(l, expires, reached)
  PROVE  /\ \A k \in Nat : k = New => Newest(k)'
         /\ \A k \in 1 .. Len(pairs) : Newest(k)' => Newest(k) /\ pairs[k].level # l
<1>1. Len(pairs) \in Nat
  BY DEF EngineTypeOK
<1>2. /\ Len(pairs') = Len(pairs) + 1
      /\ \A k \in 1 .. Len(pairs) : pairs'[k] = pairs[k]
      /\ pairs'[New] = [level |-> l, expires |-> expires]
  BY GenerateFacts, Zenon
<1> QED
  BY <1>1, <1>2 DEF Newest, New
-----------------------------------------------------------------------------
(* The jobs *)

\* A device begins with no keys and no jobs.
LEMMA InitInductive == Init => Inductive
<1> SUFFICES ASSUME Init PROVE Inductive
  OBVIOUS
<1>1. TypeOK
  <2>1. <<>> \in Seq([level : Levels, expires : 0 .. Never]) /\ <<>> \in Seq(Levels)
    OBVIOUS
  <2>2. EngineTypeOK
    BY <2>1, KeyEngineAssumption DEF Init, EngineInit, EngineTypeOK
  <2>3. hash \in Nat /\ registered \subseteq 1 .. Len(pairs) /\ others \in BOOLEAN
    BY DEF Init
  <2> QED
    BY <2>1, <2>2, <2>3 DEF Init, EngineInit, TypeOK, NoUpdate, NoKey
<1>2. Begun /\ Over /\ Path
  BY DEF Init, Begun, Over, Path, OnItsWay, Complete, NoUpdate, NoKey, Busy
<1>3. Replaced /\ KeysKept /\ LaterIsNewer /\ OvertakenIsStale /\ TakenIsRegistered
  BY DEF Init, EngineInit, Replaced, KeysKept, LaterIsNewer, OvertakenIsStale,
         TakenIsRegistered, OnItsWay, NoUpdate, NoKey
<1> QED
  BY <1>1, <1>2, <1>3 DEF Inductive

\* Most steps leave alone what the conjuncts about keys and updates read.
LEMMA KeysUnchanged ==
  ASSUME Inductive, UNCHANGED <<engineVars, registered, hash, got, lost, taken, sent>>
  PROVE  /\ EngineTypeOK'
         /\ Replaced' /\ KeysKept' /\ LaterIsNewer'
         /\ OvertakenIsStale' /\ TakenIsRegistered'
<1>1. EngineTypeOK'
  BY DEF Inductive, TypeOK, EngineTypeOK, engineVars
<1>2. Replaced' /\ LaterIsNewer' /\ TakenIsRegistered'
  BY DEF Inductive, Replaced, LaterIsNewer, TakenIsRegistered, Newest, KeysOf,
         engineVars
<1>3. KeysKept'
  BY DEF Inductive, KeysKept, InSession, Newest, engineVars
<1>4. OvertakenIsStale'
  BY DEF Inductive, OvertakenIsStale, OnItsWay
<1> QED
  BY <1>1, <1>2, <1>3, <1>4

\* An application starts a job when the others are over.
LEMMA StartInductive ==
  ASSUME Inductive, NEW o \in Jobs, NEW k \in {"create", "provision", "recover"},
         NEW place \in {"asking", "generating"}, NEW levels \in Seq(Levels),
         place = "asking" => k # "recover",
         k = "recover" => levels = <<Signing>>,
         Start(o, k, place, levels)
  PROVE  Inductive'
<1>1. UNCHANGED <<engineVars, registered, hash, got, lost, taken, sent>>
  BY DEF Start, server, wire
<1>2. TypeOK'
  BY <1>1, KeysUnchanged DEF Inductive, TypeOK, Start, server, wire, bounds, engineVars,
     Busy
<1>3. Begun'
  BY DEF Inductive, TypeOK, Begun, Over, Start, Idle, Busy, OnItsWay, wire
<1>4. Over'
  BY DEF Inductive, TypeOK, Begun, Over, Start, Busy
<1>5. Path'
  BY DEF Inductive, TypeOK, Begun, Over, Path, Start, Busy, OnItsWay, Complete, wire
<1> QED
  BY <1>1, <1>2, <1>3, <1>4, <1>5, KeysUnchanged DEF Inductive

\* A job goes on to its next call or generation.
LEMMA GoOnInductive ==
  ASSUME Inductive, NEW o \in Jobs,
         NEW place \in {"generating", "authorizing", "reading"},
         NEW levels \in Seq(Levels),
         pc[o] \in {"asking", "generating"},
         place = "generating" => kind[o] # "recover",
         place = "authorizing" => kind[o] = "recover",
         place = "reading" => kind[o] = "recover" /\ Complete(o),
         GoOn(o, place, levels), UNCHANGED wire
  PROVE  Inductive'
<1>1. UNCHANGED <<engineVars, registered, hash, got, lost, taken, sent>>
  BY DEF GoOn, server, wire
<1>2. TypeOK'
  BY <1>1, KeysUnchanged DEF Inductive, TypeOK, GoOn, server, wire, bounds, engineVars,
     Busy
<1>3. Begun' /\ Over'
  BY DEF Inductive, TypeOK, Begun, Over, GoOn, Busy, OnItsWay, wire
<1>4. Path'
  BY DEF Inductive, TypeOK, Begun, Over, Path, GoOn, Busy, OnItsWay, Complete, wire
<1> QED
  BY <1>1, <1>2, <1>3, <1>4, KeysUnchanged DEF Inductive

\* A recovery is authorized and goes on to its other keys.
LEMMA AuthorizedInductive ==
  ASSUME Inductive, NEW o \in Jobs, Authorized(o)
  PROVE  Inductive'
<1>1. UNCHANGED <<engineVars, registered, hash, got, lost, taken, sent>>
  BY DEF Authorized, server, wire
<1>2. Tail(LevelOrder) \in Seq(Levels)
  BY MemberSetupAssumption
<1>3. TypeOK'
  BY <1>1, <1>2, KeysUnchanged DEF Inductive, TypeOK, Authorized, server, wire, bounds,
     engineVars, Busy
<1>4. Begun' /\ Over'
  BY DEF Inductive, TypeOK, Begun, Over, Authorized, Busy, OnItsWay, wire
<1>5. Path'
  BY DEF Inductive, TypeOK, Begun, Over, Path, Authorized, Busy, OnItsWay, Complete,
     wire
<1> QED
  BY <1>1, <1>3, <1>4, <1>5, KeysUnchanged DEF Inductive

\* A job is answered.
LEMMA TellInductive ==
  ASSUME Inductive, NEW o \in Jobs, NEW what \in {"success", "error"},
         pc[o] \in Busy,
         what = "success" => Complete(o) /\ (kind[o] = "provision" \/ taken[o]),
         Tell(o, what)
  PROVE  Inductive'
<1>1. UNCHANGED <<engineVars, registered, hash, got, lost, taken, sent>>
  BY DEF Tell, server, wire
<1>2. TypeOK'
  BY <1>1, KeysUnchanged DEF Inductive, TypeOK, Tell, server, wire, bounds, engineVars
<1>3. Begun' /\ Over'
  BY DEF Inductive, TypeOK, Begun, Over, Tell, Busy, OnItsWay, wire
<1>4. Path'
  BY DEF Inductive, TypeOK, Begun, Over, Path, Tell, Busy, OnItsWay, Complete, wire
<1> QED
  BY <1>1, <1>2, <1>3, <1>4, KeysUnchanged DEF Inductive

\* A job signs its update on top of the member's last one and sends it.
LEMMA SendInductive ==
  ASSUME Inductive, NEW o \in Jobs, pc[o] \in {"generating", "reading"},
         kind[o] # "provision", Complete(o), Send(o)
  PROVE  Inductive'
<1>1. PICK k \in Lookup(Signing) : sent' = [sent EXCEPT ![o] = [prev |-> hash, signer |-> k]]
  BY DEF Send
<1>2. /\ UNCHANGED <<engineVars, registered, others, hash, kind, got, authorized, told, lost,
                     taken, crashes, own>>
      /\ pc' = [pc EXCEPT ![o] = "updating"]
      /\ left' = [left EXCEPT ![o] = <<>>]
  BY DEF Send, GoOn, server, bounds
<1>3. k \in 1 .. Len(pairs) /\ Len(pairs) \in Nat
  BY <1>1 DEF Inductive, TypeOK, EngineTypeOK, Lookup, OfLevel
<1>4. TypeOK'
  <2>1. [prev |-> hash, signer |-> k] \in [prev : Nat, signer : 0 .. Len(pairs)]
    BY <1>3 DEF Inductive, TypeOK
  <2>2. sent' \in [Jobs -> [prev : Nat, signer : 0 .. Len(pairs)]]
    BY <1>1, <2>1 DEF Inductive, TypeOK
  <2>3. left' \in [Jobs -> Seq(Levels)] /\ pc' \in [Jobs -> Busy \cup {"idle", "done", "dead"}]
    BY <1>2 DEF Inductive, TypeOK, Busy
  <2> QED
    BY <1>2, <2>2, <2>3 DEF Inductive, TypeOK, EngineTypeOK, engineVars
<1>5. Begun' /\ Over'
  BY <1>1, <1>2 DEF Inductive, TypeOK, Begun, Over, Busy, OnItsWay
<1>6. Path'
  BY <1>1, <1>2 DEF Inductive, TypeOK, Begun, Over, Path, Busy, OnItsWay, Complete
<1>7. Replaced' /\ LaterIsNewer' /\ TakenIsRegistered'
  BY <1>2 DEF Inductive, Replaced, LaterIsNewer, TakenIsRegistered, Newest, KeysOf,
         engineVars
<1>8. KeysKept'
  BY <1>2 DEF Inductive, KeysKept, InSession, Newest, engineVars
<1>9. OvertakenIsStale'
  <2>1. \A p \in Jobs : o < p => ~taken[p]
    BY DEF Inductive, Begun, TypeOK
  <2>2. \A p \in Jobs : p # o => sent'[p] = sent[p]
    BY <1>1 DEF Inductive, TypeOK
  <2>3. sent'[o].prev = hash
    BY <1>1 DEF Inductive, TypeOK
  <2>4. ASSUME NEW p \in Jobs, OnItsWay(p)'
        PROVE  /\ sent'[p].prev <= hash'
               /\ \A q \in Jobs : p < q /\ taken'[q] => sent'[p].prev < hash'
    <3>1. hash' = hash /\ taken' = taken /\ hash \in Nat
      BY <1>2 DEF Inductive, TypeOK
    <3>2. CASE p = o
      BY <2>1, <2>3, <3>1, <3>2
    <3>3. CASE p # o
      <4>1. OnItsWay(p) /\ sent'[p] = sent[p]
        BY <2>2, <2>4, <3>3 DEF OnItsWay
      <4> QED
        BY <3>1, <4>1 DEF Inductive, OvertakenIsStale
    <3> QED
      BY <3>2, <3>3
  <2> QED
    BY <2>4 DEF OvertakenIsStale
<1> QED
  BY <1>4, <1>5, <1>6, <1>7, <1>8, <1>9 DEF Inductive

\* Whatever a generation does, the keys of jobs stay where they were, or have been
\* replaced by a newer one of their level.
LEMMA GenerateKeepsKeys ==
  ASSUME Inductive, NEW l \in Levels, NEW expires \in 0 .. Never,
         NEW reached \in Progress, Generate(l, expires, reached), lost' = lost
  PROVE  /\ Replaced'
         /\ \A o \in Jobs, m \in Levels, k \in 1 .. Len(pairs) : got[o][m] = k =>
              /\ pairs'[k].level = m
              /\ pairs'[k].expires = Never
              /\ InSession(o)' => k \in verifiable'
              /\ InSession(o)' /\ (engine' = "token" \/ Newest(k)') => k \in stored'
         /\ \A o \in Jobs, k \in 1 .. Len(pairs) :
              taken[o] /\ got[o][Signing] = k /\ Newest(k)' => KeysOf(o) \subseteq registered
<1>1. EngineTypeOK
  BY DEF Inductive, TypeOK
<1>2. /\ UNCHANGED <<engine, now>>
      /\ Len(pairs') = Len(pairs) + 1
      /\ \A k \in 1 .. Len(pairs) : pairs'[k] = pairs[k]
      /\ pairs'[New] = [level |-> l, expires |-> expires]
      /\ verifiable \subseteq verifiable'
      /\ \A k \in stored' :
           k = New \/ (k \in stored /\ (engine = "enclave" => pairs[k].level # l))
      /\ \A k \in stored :
           k \in stored' \/ (engine # "token" /\ pairs[k].level = l)
  BY <1>1, GenerateFacts, Zenon
<1>3. /\ \A k \in Nat : k = New => Newest(k)'
      /\ \A k \in 1 .. Len(pairs) : Newest(k)' => Newest(k) /\ pairs[k].level # l
  BY <1>1, NewestAfter, Zenon
<1>4. Len(pairs) \in Nat
  BY <1>1 DEF EngineTypeOK
<1>5. Replaced'
  <2>0. SUFFICES ASSUME engine = "enclave", NEW k \in stored', k # New
                 PROVE  Newest(k)'
    BY <1>2, <1>3, <1>4 DEF Replaced, New
  <2>1. SUFFICES ASSUME NEW j \in 1 .. Len(pairs'), pairs'[j].level = pairs'[k].level
                 PROVE  j <= k
    BY DEF Newest
  <2>2. k \in stored /\ pairs[k].level # l /\ Newest(k)
    BY <1>2, <2>0 DEF Inductive, Replaced
  <2>3. k \in 1 .. Len(pairs)
    BY <1>1, <2>2 DEF EngineTypeOK
  <2>4. j # New
    BY <1>2, <2>1, <2>2, <2>3
  <2>5. j \in 1 .. Len(pairs)
    BY <1>2, <1>4, <2>4 DEF New
  <2> QED
    BY <1>2, <2>1, <2>2, <2>3, <2>5 DEF Newest
<1>6. ASSUME NEW o \in Jobs, NEW m \in Levels, NEW k \in 1 .. Len(pairs), got[o][m] = k
      PROVE  /\ pairs'[k].level = m
             /\ pairs'[k].expires = Never
             /\ InSession(o)' => k \in verifiable'
             /\ InSession(o)' /\ (engine' = "token" \/ Newest(k)') => k \in stored'
  <2>1. InSession(o)' = InSession(o)
    BY <1>2 DEF InSession
  <2>2. /\ pairs[k].level = m
        /\ pairs[k].expires = Never
        /\ InSession(o) => k \in verifiable
        /\ InSession(o) /\ (engine = "token" \/ Newest(k)) => k \in stored
    BY <1>4, <1>6 DEF Inductive, KeysKept, NoKey
  <2> QED
    BY <1>2, <1>3, <2>1, <2>2
<1>7. ASSUME NEW o \in Jobs, NEW k \in 1 .. Len(pairs), taken[o], got[o][Signing] = k,
             Newest(k)'
      PROVE  KeysOf(o) \subseteq registered
  BY <1>3, <1>7 DEF Inductive, TakenIsRegistered
<1> QED
  BY <1>5, <1>6, <1>7

\* The next key of a job.
LEMMA GenerateNextInductive ==
  ASSUME Inductive, NEW o \in Jobs, NEW reached \in Progress, GenerateNext(o, reached)
  PROVE  Inductive'
<1> DEFINE l == Head(left[o])
           key == Given(reached)
<1> HIDE DEF l, key
<1>1. /\ pc[o] = "generating" /\ left[o] # <<>>
      /\ Generate(l, Never, reached)
      /\ got' = [got EXCEPT ![o] = [@ EXCEPT ![l] = key]]
      /\ left' = [left EXCEPT ![o] = Tail(@)]
      /\ UNCHANGED <<hash, registered, others, kind, pc, authorized, told, lost, sent,
                     taken, crashes, own>>
  BY DEF GenerateNext, server, wire, bounds, l, key
<1>2. l \in Levels /\ Tail(left[o]) \in Seq(Levels)
  BY <1>1 DEF Inductive, TypeOK, l
<1>3. EngineTypeOK /\ Never \in 0 .. Never
  BY KeyEngineAssumption DEF Inductive, TypeOK, Never
<1>4. /\ EngineTypeOK'
      /\ UNCHANGED <<engine, now>>
      /\ Len(pairs') = Len(pairs) + 1
      /\ pairs'[New] = [level |-> l, expires |-> Never]
      /\ reached = "saved" => New \in verifiable' /\ New \in stored'
  BY <1>1, <1>2, <1>3, GenerateFacts, Zenon
<1>5. /\ Replaced'
      /\ \A p \in Jobs, m \in Levels, k \in 1 .. Len(pairs) : got[p][m] = k =>
           /\ pairs'[k].level = m
           /\ pairs'[k].expires = Never
           /\ InSession(p)' => k \in verifiable'
           /\ InSession(p)' /\ (engine' = "token" \/ Newest(k)') => k \in stored'
      /\ \A p \in Jobs, k \in 1 .. Len(pairs) :
           taken[p] /\ got[p][Signing] = k /\ Newest(k)' => KeysOf(p) \subseteq registered
  BY <1>1, <1>2, <1>3, GenerateKeepsKeys, Zenon
<1>6. /\ Len(pairs) \in Nat /\ New = Len(pairs) + 1
      /\ key \in {NoKey, New} /\ NoKey = 0
      /\ key # NoKey => reached = "saved"
  BY <1>3 DEF EngineTypeOK, New, Given, NoKey, key
<1>7. /\ \A p \in Jobs, m \in Levels :
           got'[p][m] = IF p = o /\ m = l THEN key ELSE got[p][m]
      /\ \A p \in Jobs : p # o => got'[p] = got[p]
  BY <1>1, <1>2 DEF Inductive, TypeOK
<1>8. TypeOK'
  <2>1. got' \in [Jobs -> [Levels -> 0 .. Len(pairs')]]
    <3>1. [got[o] EXCEPT ![l] = key] \in [Levels -> 0 .. Len(pairs')]
      BY <1>2, <1>4, <1>6 DEF Inductive, TypeOK
    <3>2. \A p \in Jobs : got[p] \in [Levels -> 0 .. Len(pairs')]
      BY <1>4, <1>6 DEF Inductive, TypeOK
    <3> QED
      BY <1>1, <3>1, <3>2 DEF Inductive, TypeOK
  <2>2. registered' \subseteq 1 .. Len(pairs')
    BY <1>1, <1>4, <1>6 DEF Inductive, TypeOK
  <2>3. sent' \in [Jobs -> [prev : Nat, signer : 0 .. Len(pairs')]]
    <3>1. 0 .. Len(pairs) \subseteq 0 .. Len(pairs')
      BY <1>4, <1>6
    <3>2. [prev : Nat, signer : 0 .. Len(pairs)] \subseteq [prev : Nat, signer : 0 .. Len(pairs')]
      BY <3>1
    <3> QED
      BY <1>1, <3>2 DEF Inductive, TypeOK
  <2>4. left' \in [Jobs -> Seq(Levels)]
    BY <1>1, <1>2 DEF Inductive, TypeOK
  <2> QED
    BY <1>1, <1>4, <2>1, <2>2, <2>3, <2>4 DEF Inductive, TypeOK
<1>9. Begun' /\ Over'
  BY <1>1, <1>7 DEF Inductive, TypeOK, Begun, Over, Busy, OnItsWay
<1>10. Path'
  <2>1. ~OnItsWay(o) /\ ~taken[o] /\ told[o] = "nothing" /\ pc[o] \notin {"reading", "updating"}
    BY <1>1 DEF Inductive, Path, Over
  <2>2. \A p \in Jobs : p # o => Complete(p)' = Complete(p)
    BY <1>7 DEF Complete
  <2>3. \A p \in Jobs : OnItsWay(p)' = OnItsWay(p)
    BY <1>1 DEF OnItsWay
  <2> QED
    BY <1>1, <2>1, <2>2, <2>3 DEF Inductive, Path
<1>11. KeysKept'
  <2>1. SUFFICES ASSUME NEW p \in Jobs, NEW m \in Levels, NEW k \in 1 .. Len(pairs'),
                        got'[p][m] = k
                 PROVE  /\ pairs'[k].level = m
                        /\ pairs'[k].expires = Never
                        /\ InSession(p)' => k \in verifiable'
                        /\ InSession(p)' /\ (engine' = "token" \/ Newest(k)') => k \in stored'
    BY DEF KeysKept
  <2>2. CASE p = o /\ m = l
    BY <1>4, <1>6, <1>7, <2>1, <2>2
  <2>3. CASE ~(p = o /\ m = l)
    <3>1. got[p][m] = k
      BY <1>7, <2>1, <2>3
    <3>2. k \in 1 .. Len(pairs)
      BY <1>6, <2>1, <3>1 DEF Inductive, TypeOK
    <3> QED
      BY <1>5, <3>1, <3>2
  <2> QED
    BY <2>2, <2>3
<1>12. LaterIsNewer'
  <2>1. SUFFICES ASSUME NEW p \in Jobs, NEW q \in Jobs, NEW i \in Levels, NEW m \in Levels,
                        p < q, got'[q][m] # NoKey
                 PROVE  got'[p][i] < got'[q][m]
    BY DEF LaterIsNewer
  <2>2. got[p][i] \in 0 .. Len(pairs)
    BY DEF Inductive, TypeOK
  <2>3. p # o
    <3>1. SUFFICES ASSUME p = o PROVE FALSE
      OBVIOUS
    <3>2. kind[q] = "none"
      BY <1>1, <2>1, <3>1 DEF Inductive, Begun
    <3>3. q # o
      BY <2>1, <3>1, MemberSetupAssumption DEF Jobs
    <3> QED
      BY <1>7, <2>1, <3>2, <3>3 DEF Inductive, Begun
  <2>4. got'[p][i] = got[p][i]
    BY <1>7, <2>3
  <2>5. CASE q = o /\ m = l
    BY <1>6, <1>7, <2>1, <2>2, <2>4, <2>5
  <2>6. CASE ~(q = o /\ m = l)
    BY <1>7, <2>1, <2>4, <2>6 DEF Inductive, LaterIsNewer
  <2> QED
    BY <2>5, <2>6
<1>13. OvertakenIsStale'
  BY <1>1 DEF Inductive, OvertakenIsStale, OnItsWay
<1>14. TakenIsRegistered'
  <2>1. SUFFICES ASSUME NEW p \in Jobs, taken'[p], NEW k \in Nat, k = got'[p][Signing],
                        Newest(k)'
                 PROVE  KeysOf(p)' \subseteq registered'
    <3>1. Signing \in Levels
      BY MemberSetupAssumption DEF Signing
    <3> QED
      BY <1>8, <3>1 DEF TakenIsRegistered, TypeOK, EngineTypeOK
  <2>2. p # o /\ Complete(p)
    BY <1>1, <2>1 DEF Inductive, Path
  <2>3. got'[p] = got[p]
    BY <1>7, <2>2
  <2>4. k \in 1 .. Len(pairs)
    <3>1. Signing \in Levels
      BY MemberSetupAssumption DEF Signing
    <3> QED
      BY <1>6, <2>1, <2>2, <2>3, <3>1 DEF Inductive, TypeOK, Complete
  <2> QED
    BY <1>1, <1>5, <2>1, <2>3, <2>4 DEF KeysOf
<1> QED
  BY <1>5, <1>8, <1>9, <1>10, <1>11, <1>12, <1>13, <1>14 DEF Inductive

\* The application generates a key of its own.
LEMMA OwnKeyInductive ==
  ASSUME Inductive, NEW l \in Levels, NEW expires \in 0 .. Never,
         NEW reached \in Progress, GenerateKey(l, expires, reached)
  PROVE  Inductive'
<1>1. /\ Generate(l, expires, reached)
      /\ UNCHANGED <<hash, registered, others, kind, pc, left, got, authorized, told, lost,
                     sent, taken, crashes>>
      /\ own' = own + 1
  BY DEF GenerateKey, server, job, wire
<1>2. EngineTypeOK
  BY DEF Inductive, TypeOK
<1>3. EngineTypeOK' /\ Len(pairs') = Len(pairs) + 1
  BY <1>1, <1>2, GenerateFacts, Zenon
<1>4. /\ Replaced'
      /\ \A p \in Jobs, m \in Levels, k \in 1 .. Len(pairs) : got[p][m] = k =>
           /\ pairs'[k].level = m
           /\ pairs'[k].expires = Never
           /\ InSession(p)' => k \in verifiable'
           /\ InSession(p)' /\ (engine' = "token" \/ Newest(k)') => k \in stored'
      /\ \A p \in Jobs, k \in 1 .. Len(pairs) :
           taken[p] /\ got[p][Signing] = k /\ Newest(k)' => KeysOf(p) \subseteq registered
  BY <1>1, GenerateKeepsKeys, Zenon
<1>5. /\ Len(pairs) \in Nat
      /\ 0 .. Len(pairs) \subseteq 0 .. Len(pairs')
      /\ 1 .. Len(pairs) \subseteq 1 .. Len(pairs')
      /\ \A p \in Jobs, m \in Levels : got[p][m] \in 0 .. Len(pairs)
  BY <1>2, <1>3 DEF Inductive, TypeOK, EngineTypeOK
<1>6. TypeOK'
  <2>1. got' \in [Jobs -> [Levels -> 0 .. Len(pairs')]]
    BY <1>1, <1>5 DEF Inductive, TypeOK
  <2>2. [prev : Nat, signer : 0 .. Len(pairs)] \subseteq [prev : Nat, signer : 0 .. Len(pairs')]
    BY <1>5
  <2>3. sent' \in [Jobs -> [prev : Nat, signer : 0 .. Len(pairs')]]
    BY <1>1, <2>2 DEF Inductive, TypeOK
  <2>4. registered' \subseteq 1 .. Len(pairs') /\ own' \in Nat
    BY <1>1, <1>5 DEF Inductive, TypeOK
  <2> QED
    BY <1>1, <1>3, <2>1, <2>3, <2>4 DEF Inductive, TypeOK
<1>7. Begun' /\ Over' /\ Path' /\ LaterIsNewer' /\ OvertakenIsStale'
  BY <1>1 DEF Inductive, Begun, Over, Path, LaterIsNewer, OvertakenIsStale, OnItsWay,
         Complete
<1>8. KeysKept'
  <2>1. SUFFICES ASSUME NEW p \in Jobs, NEW m \in Levels, NEW k \in 1 .. Len(pairs'),
                        got'[p][m] = k
                 PROVE  /\ pairs'[k].level = m
                        /\ pairs'[k].expires = Never
                        /\ InSession(p)' => k \in verifiable'
                        /\ InSession(p)' /\ (engine' = "token" \/ Newest(k)') => k \in stored'
    BY DEF KeysKept
  <2>2. k \in 1 .. Len(pairs) /\ got[p][m] = k
    BY <1>1, <1>3, <1>5, <2>1
  <2> QED
    BY <1>4, <2>2
<1>9. TakenIsRegistered'
  <2>1. SUFFICES ASSUME NEW p \in Jobs, taken'[p], NEW k \in Nat, k = got'[p][Signing],
                        Newest(k)'
                 PROVE  KeysOf(p)' \subseteq registered'
    <3>1. Signing \in Levels
      BY MemberSetupAssumption DEF Signing
    <3> QED
      BY <1>6, <3>1 DEF TakenIsRegistered, TypeOK, EngineTypeOK
  <2>2. k \in 1 .. Len(pairs)
    <3>1. Signing \in Levels /\ Complete(p)
      BY <1>1, <2>1, MemberSetupAssumption DEF Inductive, Path, Signing
    <3> QED
      BY <1>1, <1>5, <2>1, <3>1 DEF Complete, NoKey
  <2> QED
    BY <1>1, <1>4, <2>1, <2>2 DEF KeysOf
<1> QED
  BY <1>4, <1>6, <1>7, <1>8, <1>9 DEF Inductive

\* The end of the process: the keys in memory are lost with the jobs that made them.
LEMMA ProcessEndsInductive ==
  ASSUME Inductive, ProcessEnds, crashes' \in Nat
  PROVE  Inductive'
<1>1. /\ UNCHANGED <<engine, pairs, now, hash, registered, others, kind, left, got,
                     authorized, told, sent, taken, own>>
      /\ stored' = (IF engine = "token" THEN {} ELSE stored)
      /\ verifiable' = (IF engine = "token" THEN {} ELSE verifiable)
      /\ pc' = [o \in Jobs |-> IF pc[o] \in Busy THEN "dead" ELSE pc[o]]
      /\ lost' = [o \in Jobs |-> lost[o] \/ kind[o] # "none"]
  BY DEF ProcessEnds, Forget, server, wire
<1>2. TypeOK'
  <2>1. EngineTypeOK'
    BY <1>1 DEF Inductive, TypeOK, EngineTypeOK
  <2>2. pc' \in [Jobs -> Busy \cup {"idle", "done", "dead"}] /\ lost' \in [Jobs -> BOOLEAN]
    BY <1>1 DEF Inductive, TypeOK
  <2> QED
    BY <1>1, <2>1, <2>2 DEF Inductive, TypeOK
<1>3. Begun'
  BY <1>1 DEF Inductive, TypeOK, Begun, Over, Busy, OnItsWay
<1>4. Over'
  BY <1>1 DEF Inductive, TypeOK, Begun, Over, Busy
<1>5. Path'
  BY <1>1 DEF Inductive, TypeOK, Begun, Over, Path, Busy, OnItsWay, Complete
<1>6. Replaced'
  BY <1>1 DEF Inductive, Replaced, Newest
<1>7. LaterIsNewer' /\ OvertakenIsStale' /\ TakenIsRegistered'
  BY <1>1 DEF Inductive, LaterIsNewer, OvertakenIsStale, TakenIsRegistered, Newest,
         KeysOf, OnItsWay
<1>8. KeysKept'
  <2>1. SUFFICES ASSUME NEW o \in Jobs, NEW l \in Levels, NEW k \in 1 .. Len(pairs),
                        got[o][l] = k, InSession(o)'
                 PROVE  /\ k \in verifiable'
                        /\ engine = "token" \/ Newest(k) => k \in stored'
    BY <1>1 DEF Inductive, KeysKept, Newest
  <2>2. engine = "enclave"
    <3>1. kind[o] # "none"
      BY <2>1 DEF Inductive, Begun, NoKey
    <3> QED
      BY <1>1, <2>1, <3>1 DEF InSession
  <2> QED
    BY <1>1, <2>1, <2>2 DEF Inductive, KeysKept, InSession
<1> QED
  BY <1>2, <1>3, <1>4, <1>5, <1>6, <1>7, <1>8 DEF Inductive
-----------------------------------------------------------------------------
(* The server and the clock *)

\* An update that is accepted makes every earlier one on its way stale.
LEMMA ServeUpdateInductive ==
  ASSUME Inductive, NEW o \in Jobs, ServeUpdate(o)
  PROVE  Inductive'
<1>1. /\ OnItsWay(o)
      /\ sent' = [sent EXCEPT ![o] = NoUpdate]
      /\ UNCHANGED <<engineVars, others, kind, pc, left, got, authorized, told, lost,
                     crashes, own>>
  BY DEF ServeUpdate, job, bounds
<1>2. EngineTypeOK' /\ Begun' /\ Over'
      /\ Replaced' /\ LaterIsNewer' /\ KeysKept'
  <2>1. EngineTypeOK'
    BY <1>1 DEF Inductive, TypeOK, EngineTypeOK, engineVars
  <2>2. Begun' /\ Over'
    <3>1. kind[o] # "none"
      BY <1>1 DEF Inductive, Begun
    <3>2. \A p \in Jobs : OnItsWay(p)' => OnItsWay(p)
      BY <1>1 DEF Inductive, TypeOK, OnItsWay, NoUpdate
    <3>3. \A p \in Jobs : p # o => taken'[p] = taken[p]
      BY DEF ServeUpdate, Inductive, TypeOK
    <3> QED
      BY <1>1, <3>1, <3>2, <3>3 DEF Inductive, Begun, Over
  <2>3. Replaced' /\ LaterIsNewer'
    BY <1>1 DEF Inductive, Replaced, LaterIsNewer, Newest, engineVars
  <2>4. KeysKept'
    BY <1>1 DEF Inductive, KeysKept, InSession, Newest, engineVars
  <2> QED
    BY <2>1, <2>2, <2>3, <2>4
<1>3. sent' \in [Jobs -> [prev : Nat, signer : 0 .. Len(pairs)]]
  BY <1>1 DEF Inductive, TypeOK, EngineTypeOK, NoUpdate, NoKey
<1>4. \A p \in Jobs : OnItsWay(p)' => p # o /\ OnItsWay(p) /\ sent'[p] = sent[p]
  BY <1>1 DEF Inductive, TypeOK, OnItsWay, NoUpdate
<1>5. \A p \in Jobs : Complete(p)' = Complete(p)
  BY <1>1 DEF Complete
<1>6. CASE Acceptable(o)
  <2>1. /\ hash' = hash + 1 /\ hash \in Nat
        /\ registered' \in {KeysOf(o), registered \cup KeysOf(o)}
        /\ taken' = [taken EXCEPT ![o] = TRUE]
        /\ sent[o].prev = hash
    BY <1>6 DEF ServeUpdate, Acceptable, Inductive, TypeOK
  <2>2. Complete(o) /\ pc[o] \in {"updating", "done", "dead"}
    BY <1>1 DEF Inductive, Path
  <2>3. TypeOK'
    <3>1. KeysOf(o) \subseteq 1 .. Len(pairs)
      BY <2>2 DEF Inductive, TypeOK, EngineTypeOK, KeysOf, Complete, NoKey
    <3>2. registered' \subseteq 1 .. Len(pairs')
      BY <1>1, <2>1, <3>1 DEF Inductive, TypeOK, engineVars
    <3>3. taken' \in [Jobs -> BOOLEAN] /\ hash' \in Nat
      BY <2>1 DEF Inductive, TypeOK
    <3> QED
      BY <1>1, <1>2, <1>3, <3>2, <3>3 DEF Inductive, TypeOK, engineVars
  <2>4. Path'
    BY <1>1, <1>4, <1>5, <2>1, <2>2 DEF Inductive, TypeOK, Path
  <2>5. \A p \in Jobs : o < p => ~taken[p]
    BY <1>1, <2>1 DEF Inductive, OvertakenIsStale, TypeOK
  <2>6. OvertakenIsStale'
    <3>1. SUFFICES ASSUME NEW p \in Jobs, OnItsWay(p)'
                   PROVE  sent'[p].prev < hash'
      BY <2>1, <1>3 DEF OvertakenIsStale
    <3>2. OnItsWay(p) /\ sent'[p] = sent[p] /\ sent[p].prev <= hash /\ sent[p].prev \in Nat
      BY <1>4, <3>1 DEF Inductive, OvertakenIsStale, TypeOK
    <3> QED
      BY <2>1, <3>2
  <2>7. TakenIsRegistered'
    <3>1. SUFFICES ASSUME NEW p \in Jobs, taken'[p], Newest(got[p][Signing])
                   PROVE  KeysOf(p) \subseteq registered'
      BY <1>1 DEF TakenIsRegistered, Newest, KeysOf, engineVars
    <3>2. CASE p = o
      BY <2>1, <3>2
    <3>3. CASE p # o
      <4>1. taken[p] /\ Complete(p)
        BY <2>1, <3>1, <3>3 DEF Inductive, TypeOK, Path
      <4>2. KeysOf(p) \subseteq registered
        BY <3>1, <4>1 DEF Inductive, TakenIsRegistered
      <4>3. p < o
        BY <2>5, <3>3, <4>1, MemberSetupAssumption DEF Jobs
      <4>4. Signing \in Levels
        BY MemberSetupAssumption DEF Signing
      <4>5. got[p][Signing] < got[o][Signing]
        BY <2>2, <4>3, <4>4 DEF Inductive, LaterIsNewer, Complete
      <4>6. /\ got[o][Signing] \in 1 .. Len(pairs) /\ got[p][Signing] \in 1 .. Len(pairs)
            /\ pairs[got[o][Signing]].level = pairs[got[p][Signing]].level
        <5>1. got[o][Signing] \in 1 .. Len(pairs) /\ got[p][Signing] \in 1 .. Len(pairs)
          BY <2>2, <4>1, <4>4 DEF Inductive, TypeOK, EngineTypeOK, Complete, NoKey
        <5> QED
          BY <4>4, <5>1 DEF Inductive, KeysKept
      <4>7. got[o][Signing] <= got[p][Signing]
        BY <3>1, <4>6 DEF Newest
      <4> QED
        BY <4>5, <4>6, <4>7
    <3> QED
      BY <3>2, <3>3
  <2> QED
    BY <1>2, <2>3, <2>4, <2>6, <2>7 DEF Inductive
<1>7. CASE ~Acceptable(o)
  <2>1. UNCHANGED <<hash, registered, taken>>
    BY <1>7 DEF ServeUpdate
  <2>2. TypeOK'
    BY <1>1, <1>2, <1>3, <2>1 DEF Inductive, TypeOK, engineVars
  <2>3. Path'
    BY <1>1, <1>4, <1>5, <2>1 DEF Inductive, Path
  <2>4. OvertakenIsStale' /\ TakenIsRegistered'
    BY <1>1, <1>4, <2>1 DEF Inductive, OvertakenIsStale, TakenIsRegistered, Newest,
       KeysOf, engineVars
  <2> QED
    BY <1>2, <2>2, <2>3, <2>4 DEF Inductive
<1> QED
  BY <1>6, <1>7

\* Another device adds keys to the member.
LEMMA ApproveInductive ==
  ASSUME Inductive, NEW o \in Jobs, ApproveKeys(o)
  PROVE  Inductive'
<1>1. /\ kind[o] = "provision" /\ told[o] = "success"
      /\ hash' = hash + 1
      /\ registered' = registered \cup KeysOf(o)
      /\ UNCHANGED <<engineVars, others, kind, pc, left, got, authorized, told, lost, sent,
                     taken, crashes, own>>
  BY DEF ApproveKeys, job, wire, bounds
<1>2. TypeOK'
  <2>1. EngineTypeOK'
    BY <1>1 DEF Inductive, TypeOK, EngineTypeOK, engineVars
  <2>2. KeysOf(o) \subseteq 1 .. Len(pairs)
    BY <1>1 DEF Inductive, TypeOK, EngineTypeOK, Path, KeysOf, Complete, NoKey
  <2>3. hash' \in Nat /\ pairs' = pairs
    BY <1>1 DEF Inductive, TypeOK, engineVars
  <2>4. registered' \subseteq 1 .. Len(pairs')
    BY <1>1, <2>2, <2>3 DEF Inductive, TypeOK
  <2> QED
    BY <1>1, <2>1, <2>3, <2>4 DEF Inductive, TypeOK, engineVars
<1>3. Begun' /\ Over' /\ Path' /\ LaterIsNewer'
  BY <1>1 DEF Inductive, Begun, Over, Path, LaterIsNewer, OnItsWay, Complete
<1>4. Replaced' /\ KeysKept' /\ TakenIsRegistered'
  <2>1. Replaced' /\ TakenIsRegistered'
    BY <1>1 DEF Inductive, Replaced, TakenIsRegistered, Newest, KeysOf, engineVars
  <2>2. KeysKept'
    BY <1>1 DEF Inductive, KeysKept, InSession, Newest, engineVars
  <2> QED
    BY <2>1, <2>2
<1>5. OvertakenIsStale'
  <2>1. \A p \in Jobs : sent[p].prev \in Nat
    BY DEF Inductive, TypeOK
  <2>2. hash \in Nat
    BY DEF Inductive, TypeOK
  <2> QED
    BY <1>1, <2>1, <2>2 DEF Inductive, OvertakenIsStale, OnItsWay
<1> QED
  BY <1>2, <1>3, <1>4, <1>5 DEF Inductive

LEMMA TickInductive ==
  ASSUME Inductive, TimePasses
  PROVE  Inductive'
<1>1. /\ now < MaxTime /\ now' = now + 1
      /\ UNCHANGED <<engine, pairs, stored, verifiable, hash, registered, others, kind, pc,
                     left, got, authorized, told, lost, sent, taken, crashes, own>>
  BY DEF TimePasses, Tick, server, job, wire, bounds
<1>2. EngineTypeOK'
  BY <1>1, KeyEngineAssumption DEF Inductive, TypeOK, EngineTypeOK
<1>3. TypeOK'
  BY <1>1, <1>2 DEF Inductive, TypeOK
<1>4. Begun' /\ Over' /\ Path' /\ LaterIsNewer' /\ OvertakenIsStale'
  BY <1>1 DEF Inductive, Begun, Over, Path, LaterIsNewer, OvertakenIsStale, OnItsWay,
     Complete
<1>5. Replaced' /\ KeysKept' /\ TakenIsRegistered'
  BY <1>1 DEF Inductive, Replaced, KeysKept, TakenIsRegistered, InSession, Newest, KeysOf
<1> QED
  BY <1>3, <1>4, <1>5 DEF Inductive
-----------------------------------------------------------------------------
(* Theorems *)

LEMMA NextInductive == Inductive /\ [Next]_vars => Inductive'
<1> SUFFICES ASSUME Inductive, [Next]_vars PROVE Inductive'
  OBVIOUS
<1>1. LevelOrder \in Seq(Levels) /\ <<>> \in Seq(Levels) /\ <<Signing>> \in Seq(Levels)
  BY MemberSetupAssumption DEF Signing
<1>2. ASSUME NEW o \in Jobs, CreateMember(o) \/ ProvisionDevice(o) \/ CompleteRecovery(o)
      PROVE  Inductive'
  BY <1>1, <1>2, StartInductive DEF CreateMember, ProvisionDevice, CompleteRecovery
<1>3. ASSUME NEW o \in Jobs, Asked(o) PROVE Inductive'
  <2>0. kind[o] # "recover"
    BY <1>3 DEF Asked, Inductive, Path
  <2>1. CASE kind[o] = "provision" /\ hash = 0
    BY <1>3, <2>1, TellInductive DEF Asked, Busy
  <2>2. CASE ~(kind[o] = "provision" /\ hash = 0)
    BY <1>1, <1>3, <2>0, <2>2, GoOnInductive DEF Asked
  <2> QED
    BY <2>1, <2>2
<1>4. ASSUME NEW o \in Jobs, NEW reached \in Progress, GenerateNext(o, reached)
      PROVE  Inductive'
  BY <1>4, GenerateNextInductive
<1>5. ASSUME NEW o \in Jobs, AskAuthorization(o) PROVE Inductive'
  BY <1>1, <1>5, GoOnInductive DEF AskAuthorization, Generated
<1>6. ASSUME NEW o \in Jobs, Authorized(o) PROVE Inductive'
  BY <1>6, AuthorizedInductive
<1>7. ASSUME NEW o \in Jobs, AskMember(o) PROVE Inductive'
  <2>1. kind[o] = "recover"
    BY <1>7 DEF AskMember, Inductive, Path
  <2> QED
    BY <1>1, <1>7, <2>1, GoOnInductive DEF AskMember, Generated
<1>8. ASSUME NEW o \in Jobs, SendCreation(o) \/ MemberRead(o) PROVE Inductive'
  BY <1>8, SendInductive DEF SendCreation, MemberRead, Generated, Inductive, Path
<1>9. ASSUME NEW o \in Jobs, Provisioned(o) \/ Updated(o) PROVE Inductive'
  BY <1>9, TellInductive DEF Provisioned, Updated, Generated, Busy, Inductive, Path
<1>10. ASSUME NEW o \in Jobs, GenerationFails(o) \/ Fail(o) PROVE Inductive'
  BY <1>10, TellInductive DEF GenerationFails, Fail, Generated, Busy
<1>11. ASSUME NEW o \in Jobs, GenerationRaises(o) PROVE Inductive'
  BY <1>11, ProcessEndsInductive DEF GenerationRaises, Inductive, TypeOK
<1>12. ASSUME NEW o \in Jobs, ServeUpdate(o) \/ ApproveKeys(o) PROVE Inductive'
  BY <1>12, ServeUpdateInductive, ApproveInductive
<1>13. ASSUME NEW l \in Levels, NEW expires \in 0 .. Never, NEW reached \in Progress,
              GenerateKey(l, expires, reached)
       PROVE  Inductive'
  BY <1>13, OwnKeyInductive
<1>14. CASE Killed
  BY <1>14, ProcessEndsInductive DEF Killed, Inductive, TypeOK
<1>15. CASE TimePasses
  BY <1>15, TickInductive
<1>16. CASE UNCHANGED vars
  <2>1. UNCHANGED <<engineVars, registered, hash, got, lost, taken, sent>>
    BY <1>16 DEF vars, server, job, wire
  <2>2. TypeOK'
    BY <1>16, <2>1, KeysUnchanged
       DEF Inductive, TypeOK, vars, server, job, wire, bounds, engineVars
  <2>3. Begun' /\ Over' /\ Path'
    BY <1>16 DEF Inductive, Begun, Over, Path, OnItsWay, Complete, vars, server, job, wire
  <2> QED
    BY <2>1, <2>2, <2>3, KeysUnchanged DEF Inductive
<1> QED
  BY <1>2, <1>3, <1>4, <1>5, <1>6, <1>7, <1>8, <1>9, <1>10, <1>11, <1>12, <1>13, <1>14,
     <1>15, <1>16 DEF Next

\* Every reachable state of creation, provisioning and recovery, over either engine,
\* satisfies the inductive invariant.
THEOREM SetupInvariant == Spec => []Inductive
<1>1. Init => Inductive
  BY InitInductive
<1>2. Inductive /\ [Next]_vars => Inductive'
  BY NextInductive
<1> QED
  BY <1>1, <1>2, PTL DEF Spec

LEMMA UsableFromInvariant == Inductive => UsableAfterSuccess
<1> SUFFICES ASSUME Inductive, NEW o \in Jobs, told[o] = "success"
             PROVE  /\ (kind[o] # "provision" /\ Newest(got[o][Signing])) =>
                         KeysOf(o) \subseteq registered
                    /\ InSession(o) =>
                         \A l \in Levels : Newest(got[o][l]) =>
                           /\ got[o][l] \in Lookup(l)
                           /\ engine = "enclave" => Lookup(l) = {got[o][l]}
  BY DEF UsableAfterSuccess
<1>1. Complete(o) /\ (kind[o] = "provision" \/ taken[o])
  BY DEF Inductive, Path
<1>2. ASSUME InSession(o), NEW l \in Levels, NEW k \in Nat, k = got[o][l], Newest(k)
      PROVE  k \in Lookup(l) /\ (engine = "enclave" => Lookup(l) = {k})
  <2>1. k \in 1 .. Len(pairs) /\ stored \subseteq 1 .. Len(pairs)
    BY <1>1, <1>2 DEF Inductive, TypeOK, EngineTypeOK, Complete, NoKey
  <2>2. pairs[k].level = l /\ pairs[k].expires = Never
    BY <1>2, <2>1 DEF Inductive, KeysKept
  <2>3. k \in OfLevel(l)
    BY <1>2, <2>1, <2>2 DEF Inductive, KeysKept, OfLevel
  <2>4. ~Expired(k)
    BY <2>2, KeyEngineAssumption DEF Expired, Never, Inductive, TypeOK, EngineTypeOK
  <2>5. ASSUME engine = "enclave", NEW j \in OfLevel(l) PROVE j = k
    <3>1. j \in 1 .. Len(pairs) /\ pairs[j].level = pairs[k].level /\ Newest(j)
      BY <2>1, <2>2, <2>5 DEF OfLevel, Inductive, Replaced
    <3> QED
      BY <1>2, <2>1, <3>1 DEF Newest
  <2> QED
    BY <2>3, <2>4, <2>5 DEF Lookup
<1>3. \A l \in Levels : got[o][l] \in Nat
  BY DEF Inductive, TypeOK, EngineTypeOK
<1> QED
  BY <1>1, <1>2, <1>3 DEF Inductive, TakenIsRegistered

\* A device that was told it was created, recovered or provisioned signs with the
\* keys of that job until it generates others, for any number of jobs, levels,
\* failures and restarts.
THEOREM SuccessIsUsable == Spec => []UsableAfterSuccess
<1>1. Inductive => UsableAfterSuccess
  BY UsableFromInvariant
<1> QED
  BY <1>1, SetupInvariant, PTL

\* The secure enclave never signs with a key that was replaced.
THEOREM OldKeysAreReplaced == Spec => []Replaced
<1>1. Inductive => Replaced
  BY DEF Inductive
<1> QED
  BY <1>1, SetupInvariant, PTL

\* Keys given out verify later.
THEOREM OldKeysVerify == Spec => []VerifiesLater
<1>1. Inductive => VerifiesLater
  <2> SUFFICES ASSUME Inductive, NEW o \in Jobs, InSession(o), NEW l \in Levels,
                      got[o][l] # NoKey
               PROVE  got[o][l] \in verifiable
    BY DEF VerifiesLater, KeysOf
  <2>1. got[o][l] \in 1 .. Len(pairs)
    <3>1. got[o][l] \in 0 .. Len(pairs) /\ Len(pairs) \in Nat
      BY DEF Inductive, TypeOK, EngineTypeOK
    <3> QED
      BY <3>1 DEF NoKey
  <2> QED
    BY <2>1 DEF Inductive, KeysKept
<1> QED
  BY <1>1, SetupInvariant, PTL

\* Nobody but a job that is generating generates.
LEMMA OneGenerates ==
  ASSUME Inductive, NEW o \in Jobs, pc[o] = "generating", [Next]_vars, pairs' # pairs
  PROVE  \E reached \in Progress : GenerateNext(o, reached)
<1>1. ASSUME NEW p \in Jobs, p # o PROVE pc[p] \notin Busy
  <2>1. kind[o] # "none" /\ p \in Nat /\ o \in Nat
    BY DEF Inductive, Begun, Jobs
  <2>2. CASE p < o
    BY <2>1, <2>2 DEF Inductive, Begun, Busy
  <2>3. CASE o < p
    <3>1. pc[p] = "idle" \/ pc[o] \in {"done", "dead"}
      BY <2>3 DEF Inductive, Begun
    <3> QED
      BY <3>1 DEF Busy
  <2> QED
    BY <1>1, <2>1, <2>2, <2>3
<1>2. ~Idle
  BY DEF Idle, Busy
<1>3. \/ \E p \in Jobs, reached \in Progress : GenerateNext(p, reached)
      \/ pairs' = pairs
  BY <1>2 DEF Next, vars, engineVars, CreateMember, ProvisionDevice, CompleteRecovery,
     Start, Asked, Tell, GoOn, Provisioned, AskAuthorization, Authorized, AskMember,
     SendCreation, MemberRead, Send, Updated, GenerationFails, GenerationRaises,
     ProcessEnds, Forget, Fail, ServeUpdate, ApproveKeys, GenerateKey, Killed, TimePasses,
     Tick
<1>4. PICK p \in Jobs, reached \in Progress : GenerateNext(p, reached)
  BY <1>3
<1>5. p = o
  BY <1>1, <1>4 DEF GenerateNext, Busy
<1> QED
  BY <1>4, <1>5

\* A recovery that has not been authorized yet costs a device at most its Privileged
\* key, and that only with the secure enclave.
THEOREM UnauthorizedRecoverySpares == Spec => RefusalSpares
<1>1. ASSUME Inductive, [Next]_vars, NEW o \in Jobs, NEW l \in Levels,
             kind[o] = "recover", ~authorized[o], pc[o] = "generating", pairs' # pairs,
             CanAct(l), ~CanAct(l)'
      PROVE  engine = "enclave" /\ l = Signing
  <2>1. PICK reached \in Progress : GenerateNext(o, reached)
    BY <1>1, OneGenerates
  <2>2. left[o] = <<Signing>>
    BY <1>1, <2>1 DEF GenerateNext, Inductive, Path
  <2>3. Head(left[o]) = Signing /\ Signing \in Levels
    BY <2>2, MemberSetupAssumption DEF Signing
  <2>4. Never \in 0 .. Never
    BY KeyEngineAssumption DEF Never
  <2>5. Generate(Signing, Never, reached) /\ registered' = registered
    BY <2>1, <2>3 DEF GenerateNext, server
  <2>6. EngineTypeOK
    BY <1>1 DEF Inductive, TypeOK
  <2>7. /\ UNCHANGED <<engine, now>>
        /\ \A k \in 1 .. Len(pairs) : pairs'[k] = pairs[k]
        /\ \A k \in stored : k \in stored' \/ (engine # "token" /\ pairs[k].level = Signing)
    BY <2>3, <2>4, <2>5, <2>6, GenerateFacts
  <2>8. PICK k \in Lookup(l) : k \in registered
    BY <1>1 DEF CanAct
  <2>9. /\ k \in stored /\ k \in 1 .. Len(pairs) /\ pairs[k].level = l
        /\ engine = "token" => ~(pairs[k].expires < now)
    BY <2>6, <2>8 DEF Lookup, OfLevel, Expired, EngineTypeOK
  <2>10. k \notin stored'
    <3> SUFFICES ASSUME k \in stored' PROVE FALSE
      OBVIOUS
    <3>1. k \in OfLevel(l)'
      BY <2>7, <2>9 DEF OfLevel
    <3>2. engine' = "token" => ~(pairs'[k].expires < now')
      BY <2>7, <2>9
    <3>3. k \in Lookup(l)'
      BY <3>1, <3>2 DEF Lookup, Expired
    <3> QED
      BY <1>1, <2>5, <2>8, <3>3 DEF CanAct
  <2> QED
    BY <2>6, <2>7, <2>9, <2>10, KeyEngineAssumption DEF EngineTypeOK
<1>2. Inductive /\ [Next]_vars =>
        [\A o \in Jobs, l \in Levels :
           kind[o] = "recover" /\ ~authorized[o] /\ pc[o] = "generating" /\ pairs' # pairs =>
             (CanAct(l) /\ ~CanAct(l)' => engine = "enclave" /\ l = Signing)]_vars
  BY <1>1
<1> QED
  BY <1>2, SetupInvariant, PTL DEF Spec, RefusalSpares

\* What a step does to a job's answer and to its process, for CallbackOnce.
LEMMA AnswersPromise ==
  ASSUME Inductive, NEW o \in Jobs, NEW what \in {"success", "error"}, Tell(o, what),
         pc[o] \in Busy
  PROVE  [Promise!Next]_<<status, alive>>
<1>1. kind[o] # "none" /\ told[o] = "nothing" /\ ~lost[o]
  BY DEF Inductive, Begun, Over, Busy
<1>2. /\ told' = [told EXCEPT ![o] = what]
      /\ kind' = kind /\ lost' = lost
      /\ told \in [Jobs -> {"nothing", "success", "error"}]
  BY DEF Tell, Inductive, TypeOK
<1>3. CASE o = Watched
  <2>1. StatusOf(Watched) = "pending" /\ StatusOf(Watched)' = what
    BY <1>1, <1>2, <1>3 DEF StatusOf, status, alive
  <2>2. Promise!Finish(Watched)
    BY <1>1, <1>2, <1>3, <2>1 DEF Promise!Finish, Promise!Answers, status, alive
  <2> QED
    BY <2>2 DEF Promise!Next
<1>4. CASE o # Watched
  <2>1. told'[Watched] = told[Watched]
    BY <1>2, <1>4
  <2> QED
    BY <1>2, <2>1 DEF StatusOf, status, alive
<1> QED
  BY <1>3, <1>4

\* The safety half of KeepsPromise: a job is answered at most once, and only after
\* it began and before its process ended.
THEOREM SetupKeepsPromise == Spec => Promise!Spec
<1>0. Watched \in Jobs
  BY MemberSetupAssumption DEF Jobs
<1>1. Init => Promise!Init
  BY <1>0 DEF Init, Promise!Init, StatusOf, status, alive
<1>2. Inductive /\ [Next]_vars => [Promise!Next]_<<status, alive>>
  <2> SUFFICES ASSUME Inductive, [Next]_vars
               PROVE  [Promise!Next]_<<status, alive>>
    OBVIOUS
  <2>1. ASSUME NEW o \in Jobs,
               NEW k \in {"create", "provision", "recover"}, NEW place \in Busy,
               NEW levels, Start(o, k, place, levels)
        PROVE  [Promise!Next]_<<status, alive>>
    <3>1. /\ kind[o] = "none" /\ told[o] = "nothing" /\ ~lost[o]
          /\ kind' = [kind EXCEPT ![o] = k] /\ told' = told /\ lost' = lost
          /\ kind \in [Jobs -> {"none", "create", "provision", "recover"}]
      BY <2>1 DEF Start, job, Inductive, Begun, TypeOK
    <3>2. CASE o = Watched
      <4>1. StatusOf(Watched) = "idle" /\ StatusOf(Watched)' = "pending"
        BY <3>1, <3>2 DEF StatusOf, status, alive
      <4>2. Promise!Start(Watched)
        BY <3>1, <3>2, <4>1 DEF Promise!Start, status, alive
      <4> QED
        BY <4>2 DEF Promise!Next
    <3>3. CASE o # Watched
      <4>1. kind'[Watched] = kind[Watched]
        BY <3>1, <3>3
      <4> QED
        BY <3>1, <4>1 DEF StatusOf, status, alive
    <3> QED
      BY <3>2, <3>3
  <2>2. ASSUME kind' = kind, told' = told, lost' = lost
        PROVE  [Promise!Next]_<<status, alive>>
    BY <2>2 DEF StatusOf, status, alive
  <2>3. ASSUME ProcessEnds PROVE [Promise!Next]_<<status, alive>>
    <3>1. /\ kind' = kind /\ told' = told
          /\ lost'[Watched] = (lost[Watched] \/ kind[Watched] # "none")
      BY <1>0, <2>3 DEF ProcessEnds
    <3>2. status' = status
      BY <3>1 DEF StatusOf, status, alive
    <3>3. CASE lost[Watched] \/ kind[Watched] = "none"
      <4>1. lost'[Watched] <=> lost[Watched]
        BY <3>1, <3>3
      <4> QED
        BY <3>2, <4>1 DEF alive
    <3>4. CASE ~(lost[Watched] \/ kind[Watched] = "none")
      <4>1. Promise!Crash
        BY <3>1, <3>2, <3>4 DEF Promise!Crash, alive
      <4> QED
        BY <4>1 DEF Promise!Next
    <3> QED
      BY <3>3, <3>4
  <2>4. ASSUME NEW o \in Jobs, CreateMember(o) \/ ProvisionDevice(o) \/ CompleteRecovery(o)
        PROVE  [Promise!Next]_<<status, alive>>
    BY <2>1, <2>4 DEF CreateMember, ProvisionDevice, CompleteRecovery, Busy
  <2>5. ASSUME NEW o \in Jobs, Asked(o) PROVE [Promise!Next]_<<status, alive>>
    <3>1. CASE kind[o] = "provision" /\ hash = 0
      BY <2>5, <3>1, AnswersPromise DEF Asked, Busy
    <3>2. CASE ~(kind[o] = "provision" /\ hash = 0)
      BY <2>2, <2>5, <3>2 DEF Asked, GoOn
    <3> QED
      BY <3>1, <3>2
  <2>6. ASSUME NEW o \in Jobs,
               Provisioned(o) \/ Updated(o) \/ GenerationFails(o) \/ Fail(o)
        PROVE  [Promise!Next]_<<status, alive>>
    BY <2>6, AnswersPromise DEF Provisioned, Updated, GenerationFails, Fail, Generated, Busy
  <2>7. ASSUME NEW o \in Jobs,
               \/ \E reached \in Progress : GenerateNext(o, reached)
               \/ AskAuthorization(o) \/ Authorized(o) \/ AskMember(o)
               \/ SendCreation(o) \/ MemberRead(o) \/ ServeUpdate(o) \/ ApproveKeys(o)
        PROVE  kind' = kind /\ told' = told /\ lost' = lost
    BY <2>7 DEF GenerateNext, AskAuthorization, Authorized, AskMember, SendCreation,
       MemberRead, Send, GoOn, ServeUpdate, ApproveKeys, job
  <2>8. ASSUME \/ \E l \in Levels, expires \in 0 .. Never, reached \in Progress :
                    GenerateKey(l, expires, reached)
               \/ TimePasses \/ UNCHANGED vars
        PROVE  kind' = kind /\ told' = told /\ lost' = lost
    BY <2>8 DEF GenerateKey, TimePasses, job, vars
  <2>9. ASSUME Killed \/ \E o \in Jobs : GenerationRaises(o)
        PROVE  ProcessEnds
    BY <2>9 DEF Killed, GenerationRaises
  <2> QED
    BY <2>2, <2>3, <2>4, <2>5, <2>6, <2>7, <2>8, <2>9 DEF Next
<1> QED
  BY <1>1, <1>2, SetupInvariant, PTL DEF Spec, Promise!Spec, Promise!vars
=============================================================================
