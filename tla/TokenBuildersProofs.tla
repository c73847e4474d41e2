------------------------ MODULE TokenBuildersProofs ------------------------
(* Theorems about TokenBuilders. *)
EXTENDS TokenBuilders, TLAPS

-----------------------------------------------------------------------------
(* Sequences that grow *)

\* What was there is still there.
Extends(t, s) == Len(s) <= Len(t) /\ \A i \in 1 .. Len(s) : t[i] = s[i]

LEMMA AppendFacts ==
  ASSUME NEW S, NEW s \in Seq(S), NEW e \in S
  PROVE  /\ Append(s, e) \in Seq(S)
         /\ Len(Append(s, e)) = Len(s) + 1
         /\ Append(s, e)[Len(s) + 1] = e
         /\ Extends(Append(s, e), s)
         /\ DOMAIN Append(s, e) = 1 .. Len(s) + 1
  BY DEF Extends

\* The domain of a sequence, and of one that extends it.
LEMMA ExtendsFacts ==
  ASSUME NEW S, NEW s \in Seq(S), NEW T, NEW t \in Seq(T), Extends(t, s)
  PROVE  /\ DOMAIN s = 1 .. Len(s) /\ Len(s) \in Nat
         /\ DOMAIN t = 1 .. Len(t) /\ Len(t) \in Nat
         /\ DOMAIN s \subseteq DOMAIN t
         /\ \A i \in DOMAIN s : t[i] = s[i]
  BY DEF Extends

LEMMA SelfExtends ==
  ASSUME NEW S, NEW s \in Seq(S)
  PROVE  Extends(s, s)
  BY DEF Extends

\* The types of the records.
LEMMA RecordTypes ==
  ASSUME TypeOK
  PROVE  /\ \A b \in DOMAIN builders : builders[b] \in Builder
         /\ \A p \in DOMAIN built : built[p] \in Payload /\ built[p].by \in DOMAIN builders
         /\ \A c \in DOMAIN sent : sent[c].payload \in DOMAIN built
         /\ \A t \in DOMAIN tokens : tokens[t] \in DOMAIN built
         /\ Len(issued) \in Nat /\ Len(builders) \in Nat /\ Len(built) \in Nat
         /\ Len(sent) \in Nat /\ Len(tokens) \in Nat
<1>1. builders \in Seq(Builder) /\ built \in Seq(Payload) /\ issued \in Seq(Purposes)
      /\ tokens \in Seq(DOMAIN built)
  BY DEF TypeOK
<1>2. \A p \in DOMAIN built : built[p].by \in DOMAIN builders
  BY DEF TypeOK
<1>3. PICK R : /\ sent \in Seq(R)
               /\ \A x \in R : x.payload \in DOMAIN built
  <2> DEFINE R == [payload : DOMAIN built,
                   answer : {"none", "token", "error", "authRequired"},
                   token : 0 .. Len(tokens), authorized : BOOLEAN]
  <2>1. sent \in Seq(R)
    BY DEF TypeOK
  <2>2. \A x \in R : x.payload \in DOMAIN built
    OBVIOUS
  <2> QED
    BY <2>1, <2>2
<1>4. \A b \in DOMAIN builders : builders[b] \in Builder
  BY <1>1
<1>5. \A p \in DOMAIN built : built[p] \in Payload
  BY <1>1
<1>6. \A c \in DOMAIN sent : sent[c].payload \in DOMAIN built
  <2>1. \A c \in DOMAIN sent : sent[c] \in R
    BY <1>3
  <2> QED
    BY <1>3, <2>1
<1>7. \A t \in DOMAIN tokens : tokens[t] \in DOMAIN built
  BY <1>1
<1>8. Len(issued) \in Nat /\ Len(builders) \in Nat /\ Len(built) \in Nat
      /\ Len(sent) \in Nat /\ Len(tokens) \in Nat
  BY <1>1, <1>3
<1> QED
  BY <1>2, <1>4, <1>5, <1>6, <1>7, <1>8

LEMMA BuilderTypes ==
  ASSUME NEW B \in Builder
  PROVE  /\ B.kind \in Kinds /\ B.ref \in Int /\ B.purpose \in Purposes
         /\ B.terms \in Terms /\ B.meant \in Terms
         /\ B.asked \in SUBSET Resources /\ B.listed \in [Resources -> Nat] /\ B.used \in Nat
  BY DEF Builder

LEMMA PayloadTypes ==
  ASSUME NEW P \in Payload
  PROVE  /\ P.by \in Nat /\ P.ref \in Int /\ P.purpose \in Purposes
         /\ P.terms \in Terms /\ P.meant \in Terms
         /\ P.asked \in SUBSET Resources /\ P.listed \in [Resources -> Nat] /\ P.used \in Nat
  BY DEF Payload

LEMMA PurposesTypes ==
  /\ ForRequest \in Purposes
  /\ \A n \in Nat : ForBuilder(n) \in Purposes /\ ForPayload(n) \in Purposes
  /\ NoTerms \in Terms
  /\ NoneListed \in [Resources -> Nat]
  BY DEF ForRequest, ForBuilder, ForPayload, Purposes, NoTerms, Terms, NoneListed, Unset
-----------------------------------------------------------------------------
(* The server's part of the invariant is left alone by everybody else. *)

LEMMA TokensKept ==
  ASSUME Inductive, Extends(built', built), tokens' = tokens, Extends(sent', sent),
         built' \in Seq(Payload), DOMAIN sent' = 1 .. Len(sent'), Len(sent') \in Nat,
         \A c \in DOMAIN sent' : c \in DOMAIN sent \/ sent'[c].answer = "none"
  PROVE  OneTokenPerReference'
<1>1. /\ \A t \in DOMAIN tokens : tokens[t] \in DOMAIN built
      /\ \A c \in DOMAIN sent : sent[c].payload \in DOMAIN built
  BY RecordTypes DEF Inductive
<1>2. \A p \in DOMAIN built : built'[p] = built[p]
  BY ExtendsFacts DEF Inductive, TypeOK
<1>3. \A c \in DOMAIN sent : sent'[c] = sent[c]
  <2>1. DOMAIN sent = 1 .. Len(sent)
    BY DEF Inductive, TypeOK
  <2> QED
    BY <2>1 DEF Extends
<1>4. \A t \in DOMAIN tokens : built'[tokens[t]].ref = built[tokens[t]].ref
  BY <1>1, <1>2
<1>5. \A t, u \in DOMAIN tokens :
        t # u /\ built[tokens[t]].ref # Empty => built[tokens[t]].ref # built[tokens[u]].ref
  BY DEF Inductive, OneTokenPerReference, RefOf
<1>6. \A c \in DOMAIN sent : sent[c].answer = "token" =>
        sent[c].token \in DOMAIN tokens
        /\ built[tokens[sent[c].token]].ref = built[sent[c].payload].ref
  BY DEF Inductive, OneTokenPerReference, RefOf
<1>7. ASSUME NEW c \in DOMAIN sent', sent'[c].answer = "token"
      PROVE  /\ sent'[c].token \in DOMAIN tokens
             /\ built'[tokens[sent'[c].token]].ref = built'[sent'[c].payload].ref
  <2>1. c \in DOMAIN sent /\ sent'[c] = sent[c]
    BY <1>3, <1>7
  <2>2. built'[sent[c].payload] = built[sent[c].payload]
    BY <1>1, <1>2, <2>1
  <2> QED
    BY <1>4, <1>6, <1>7, <2>1, <2>2
<1>8. \A t, u \in DOMAIN tokens' :
        t # u /\ built'[tokens'[t]].ref # Empty => built'[tokens'[t]].ref # built'[tokens'[u]].ref
  BY <1>4, <1>5
<1>9. \A c \in DOMAIN sent' : sent'[c].answer = "token" =>
        sent'[c].token \in DOMAIN tokens'
        /\ built'[tokens'[sent'[c].token]].ref = built'[sent'[c].payload].ref
  BY <1>7
<1> QED
  BY <1>8, <1>9 DEF OneTokenPerReference, RefOf, Empty
-----------------------------------------------------------------------------
(* Builders and payloads, one by one *)

\* What a builder B has to be, where the reference ids are given out as in given.
GoodBuilder(B, given) ==
  /\ B \in Builder
  /\ B.ref \in {Nil, Empty} \cup 1 .. Len(given)
  /\ B.ref \notin {Nil, Empty} => given[B.ref] = B.purpose
  /\ B.kind = "access" => B.ref > Empty
  /\ \A r \in Resources :
       B.listed[r] \in IF r \in B.asked THEN 0 .. B.used ELSE {0}

LEMMA BuildersAreGood ==
  ASSUME Inductive, NEW b \in DOMAIN builders
  PROVE  GoodBuilder(builders[b], issued)
  BY RecordTypes DEF Inductive, TypeOK, References, UsedAsIssued, OneReference,
     ListedAsAsked, GoodBuilder

\* It stays that when more are given out.
LEMMA StaysGood ==
  ASSUME NEW given \in Seq(Purposes), NEW more \in Seq(Purposes), Extends(more, given),
         NEW B, GoodBuilder(B, given)
  PROVE  GoodBuilder(B, more)
<1>1. Len(given) \in Nat /\ Len(more) \in Nat /\ Len(given) <= Len(more)
      /\ \A i \in 1 .. Len(given) : more[i] = given[i]
  BY DEF Extends
<1>2. B.ref \in {Nil, Empty} \cup 1 .. Len(given)
      /\ (B.ref \notin {Nil, Empty} => given[B.ref] = B.purpose)
  BY DEF GoodBuilder
<1>3. B.ref \in {Nil, Empty} \cup 1 .. Len(more)
      /\ (B.ref \notin {Nil, Empty} => more[B.ref] = B.purpose)
  BY <1>1, <1>2
<1> QED
  BY <1>3 DEF GoodBuilder

\* What a payload P has to be, beside the builders bs.
GoodPayload(P, bs, given) ==
  /\ P \in Payload
  /\ P.by \in DOMAIN bs
  /\ P.ref \in {Empty} \cup 1 .. Len(given)
  /\ P.ref # Empty => given[P.ref] = P.purpose
  /\ bs[P.by].used > 0
  /\ bs[P.by].kind \in {"bulk", "access"} \/ bs[P.by].ref \notin {Nil, Empty}
       => P.ref = bs[P.by].ref
  /\ bs[P.by].kind = "bulk" => bs[P.by].ref > Empty
  /\ \A r \in Resources :
       P.listed[r] \in IF bs[P.by].kind = "access" /\ r \in P.asked
                         THEN 1 .. P.used ELSE {0}

LEMMA PayloadsAreGood ==
  ASSUME Inductive, NEW p \in DOMAIN built
  PROVE  GoodPayload(built[p], builders, issued)
<1>1. built[p] \in Payload /\ built[p].by \in DOMAIN builders
  BY RecordTypes DEF Inductive
<1>2. built[p].ref \in {Empty} \cup 1 .. Len(issued)
  BY DEF Inductive, TypeOK, References
<1>3. built[p].ref # Empty => issued[built[p].ref] = built[p].purpose
  BY DEF Inductive, UsedAsIssued
<1>4. /\ builders[built[p].by].used > 0
      /\ builders[built[p].by].kind \in {"bulk", "access"}
           \/ builders[built[p].by].ref \notin {Nil, Empty}
           => built[p].ref = builders[built[p].by].ref
      /\ builders[built[p].by].kind = "bulk" => builders[built[p].by].ref > Empty
  BY DEF Inductive, OneReference, KeepsReference
<1>5. \A r \in Resources :
        built[p].listed[r] \in IF builders[built[p].by].kind = "access" /\ r \in built[p].asked
                                 THEN 1 .. built[p].used ELSE {0}
  BY DEF Inductive, ListedAsAsked
<1> QED
  BY <1>1, <1>2, <1>3, <1>4, <1>5 DEF GoodPayload

\* What a step does to builders and reference ids.
Grown ==
  /\ issued' \in Seq(Purposes) /\ Extends(issued', issued)
  /\ requested' = requested
  /\ builders' \in Seq(Builder)
  /\ \A b \in DOMAIN builders' : GoodBuilder(builders'[b], issued')
  /\ DOMAIN builders \subseteq DOMAIN builders'
  /\ \A b \in DOMAIN builders :
       /\ builders'[b].kind = builders[b].kind
       /\ builders'[b].used >= builders[b].used
       /\ builders'[b].ref = builders[b].ref \/ \A p \in DOMAIN built : built[p].by # b

LEMMA PayloadsStayGood ==
  ASSUME Inductive, Grown, NEW p \in DOMAIN built
  PROVE  GoodPayload(built[p], builders', issued')
<1> DEFINE P == built[p]
           b == P.by
<1>1. Len(issued) \in Nat /\ Len(issued') \in Nat /\ Len(issued) <= Len(issued')
      /\ \A i \in 1 .. Len(issued) : issued'[i] = issued[i]
  BY DEF Extends, Inductive, TypeOK, Grown
<1>2. GoodPayload(P, builders, issued)
  BY PayloadsAreGood
<1>3. b \in DOMAIN builders /\ builders[b].used \in Nat /\ builders'[b].used \in Nat
  <2>1. b \in DOMAIN builders /\ builders[b] \in Builder
    BY RecordTypes DEF Inductive
  <2>2. builders'[b] \in Builder
    BY <2>1 DEF Grown, GoodBuilder
  <2> QED
    BY <2>1, <2>2 DEF Builder
<1>4. builders'[b].ref = builders[b].ref /\ builders'[b].kind = builders[b].kind
      /\ builders'[b].used >= builders[b].used
  BY <1>3 DEF Grown
<1>5. P.ref \in {Empty} \cup 1 .. Len(issued') /\ (P.ref # Empty => issued'[P.ref] = P.purpose)
  BY <1>1, <1>2 DEF GoodPayload
<1>6. b \in DOMAIN builders'
  BY <1>3 DEF Grown
<1>7. builders'[b].used > 0
  BY <1>2, <1>3, <1>4 DEF GoodPayload
<1>8. /\ builders'[b].kind \in {"bulk", "access"} \/ builders'[b].ref \notin {Nil, Empty}
           => P.ref = builders'[b].ref
      /\ builders'[b].kind = "bulk" => builders'[b].ref > Empty
      /\ \A r \in Resources :
           P.listed[r] \in IF builders'[b].kind = "access" /\ r \in P.asked
                             THEN 1 .. P.used ELSE {0}
  BY <1>2, <1>4 DEF GoodPayload
<1>9. P \in Payload
  BY <1>2 DEF GoodPayload
<1> QED
  BY <1>5, <1>6, <1>7, <1>8, <1>9 DEF GoodPayload

\* The parts of the next state, put together.
LEMMA Assembled ==
  ASSUME Inductive, Grown,
         built' \in Seq(Payload),
         \A p \in DOMAIN built' : GoodPayload(built'[p], builders', issued'),
         sent' \in Seq([payload : DOMAIN built',
                        answer : {"none", "token", "error", "authRequired"},
                        token : 0 .. Len(tokens'), authorized : BOOLEAN]),
         tokens' \in Seq(DOMAIN built'),
         OneTokenPerReference'
  PROVE  Inductive'
<1>1. Len(issued) \in Nat /\ Len(issued') \in Nat /\ Len(issued) <= Len(issued')
      /\ \A i \in 1 .. Len(issued) : issued'[i] = issued[i]
  BY DEF Extends, Inductive, TypeOK, Grown
<1>2. TypeOK'
  <2>1. requested' \in References' \ {Nil}
    BY <1>1 DEF Inductive, TypeOK, References, Grown
  <2>2. \A b \in DOMAIN builders' : builders'[b].ref \in References'
    BY DEF GoodBuilder, References, Grown
  <2>3. \A p \in DOMAIN built' :
          built'[p].by \in DOMAIN builders' /\ built'[p].ref \in References' \ {Nil}
    BY <1>1 DEF GoodPayload, References, Nil, Empty
  <2>4. issued' \in Seq(Purposes) /\ builders' \in Seq(Builder)
    BY DEF Grown
  <2> QED
    BY <2>1, <2>2, <2>3, <2>4 DEF TypeOK
<1>3. UsedAsIssued'
  <2>1. requested' # Empty => issued'[requested'] = ForRequest
    BY <1>1 DEF Inductive, TypeOK, UsedAsIssued, References, Grown
  <2>2. \A b \in DOMAIN builders' :
          builders'[b].ref \notin {Nil, Empty} => issued'[builders'[b].ref] = builders'[b].purpose
    BY DEF GoodBuilder, Grown
  <2>3. \A p \in DOMAIN built' : built'[p].ref # Empty => issued'[built'[p].ref] = built'[p].purpose
    BY DEF GoodPayload
  <2> QED
    BY <2>1, <2>2, <2>3 DEF UsedAsIssued
<1>4. OneReference'
  <2>1. \A b \in DOMAIN builders' : builders'[b].kind = "access" => builders'[b].ref > Empty
    BY DEF GoodBuilder, Grown
  <2>2. \A p \in DOMAIN built' :
          /\ builders'[built'[p].by].used > 0
          /\ builders'[built'[p].by].kind \in {"bulk", "access"}
               \/ builders'[built'[p].by].ref \notin {Nil, Empty}
               => built'[p].ref = builders'[built'[p].by].ref
          /\ builders'[built'[p].by].kind = "bulk" => builders'[built'[p].by].ref > Empty
    BY DEF GoodPayload
  <2> QED
    BY <2>1, <2>2 DEF OneReference, KeepsReference
<1>5. ListedAsAsked'
  <2>1. \A b \in DOMAIN builders', r \in Resources :
          builders'[b].listed[r] \in IF r \in builders'[b].asked THEN 0 .. builders'[b].used ELSE {0}
    BY DEF GoodBuilder, Grown
  <2>2. \A p \in DOMAIN built', r \in Resources :
          built'[p].listed[r] \in
            IF builders'[built'[p].by].kind = "access" /\ r \in built'[p].asked
              THEN 1 .. built'[p].used ELSE {0}
    BY DEF GoodPayload
  <2> QED
    BY <2>1, <2>2 DEF ListedAsAsked
<1> QED
  BY <1>2, <1>3, <1>4, <1>5 DEF Inductive
-----------------------------------------------------------------------------
(* Steps of the builders *)

LEMMA BuildersGrow ==
  ASSUME Inductive, Grown, UNCHANGED <<built, sent, tokens>>
  PROVE  Inductive'
<1>1. \A p \in DOMAIN built' : GoodPayload(built'[p], builders', issued')
  BY PayloadsStayGood
<1>2. /\ built' \in Seq(Payload)
      /\ sent' \in Seq([payload : DOMAIN built',
                        answer : {"none", "token", "error", "authRequired"},
                        token : 0 .. Len(tokens'), authorized : BOOLEAN])
      /\ tokens' \in Seq(DOMAIN built')
  BY DEF Inductive, TypeOK
<1>3. OneTokenPerReference'
  BY DEF Inductive, OneTokenPerReference, RefOf
<1> QED
  BY <1>1, <1>2, <1>3, Assembled

\* A builder is made.
LEMMA OneMore ==
  ASSUME Inductive, issued' \in Seq(Purposes), Extends(issued', issued),
         requested' = requested,
         NEW B, GoodBuilder(B, issued'), builders' = Append(builders, B)
  PROVE  Grown
<1>1. builders \in Seq(Builder) /\ B \in Builder /\ issued \in Seq(Purposes)
  BY DEF Inductive, TypeOK, GoodBuilder
<1>2. /\ builders' \in Seq(Builder)
      /\ DOMAIN builders' = 1 .. Len(builders) + 1 /\ DOMAIN builders = 1 .. Len(builders)
      /\ Len(builders) \in Nat
      /\ builders'[Len(builders) + 1] = B
      /\ \A b \in 1 .. Len(builders) : builders'[b] = builders[b]
  BY <1>1, AppendFacts DEF Extends
<1>3. \A b \in DOMAIN builders : GoodBuilder(builders[b], issued')
  BY <1>1, BuildersAreGood, StaysGood
<1>4. \A b \in DOMAIN builders' : GoodBuilder(builders'[b], issued')
  BY <1>2, <1>3
<1>5. \A b \in DOMAIN builders : builders[b].used \in Nat
  BY RecordTypes, BuilderTypes DEF Inductive
<1>6. \A b \in DOMAIN builders :
        /\ builders'[b].kind = builders[b].kind
        /\ builders'[b].used >= builders[b].used
        /\ builders'[b].ref = builders[b].ref
  BY <1>2, <1>5
<1> QED
  BY <1>2, <1>4, <1>6 DEF Grown

\* One builder is used or changed.
LEMMA OneChanged ==
  ASSUME Inductive, issued' \in Seq(Purposes), Extends(issued', issued),
         requested' = requested,
         NEW b \in DOMAIN builders,
         NEW B, GoodBuilder(B, issued'), builders' = [builders EXCEPT ![b] = B],
         B.kind = builders[b].kind, B.used >= builders[b].used,
         B.ref = builders[b].ref \/ \A p \in DOMAIN built : built[p].by # b
  PROVE  Grown /\ DOMAIN builders' = DOMAIN builders /\ builders'[b] = B
<1>1. builders \in Seq(Builder) /\ B \in Builder /\ issued \in Seq(Purposes)
  BY DEF Inductive, TypeOK, GoodBuilder
<1>2. /\ builders' \in Seq(Builder)
      /\ DOMAIN builders' = DOMAIN builders
      /\ builders'[b] = B
      /\ \A a \in DOMAIN builders : a # b => builders'[a] = builders[a]
  BY <1>1
<1>3. \A a \in DOMAIN builders : GoodBuilder(builders[a], issued')
  BY <1>1, BuildersAreGood, StaysGood
<1>4. \A a \in DOMAIN builders' : GoodBuilder(builders'[a], issued')
  BY <1>2, <1>3
<1>5. \A a \in DOMAIN builders : builders[a].used \in Nat
  BY RecordTypes, BuilderTypes DEF Inductive
<1>6. \A a \in DOMAIN builders :
        /\ builders'[a].kind = builders[a].kind
        /\ builders'[a].used >= builders[a].used
        /\ builders'[a].ref = builders[a].ref \/ \A p \in DOMAIN built : built[p].by # a
  BY <1>2, <1>5
<1> QED
  BY <1>2, <1>4, <1>6 DEF Grown

\* A payload is built, and sent or not.
LEMMA OneBuilt ==
  ASSUME Inductive, Grown, NEW P, GoodPayload(P, builders', issued'),
         built' = Append(built, P), tokens' = tokens,
         sent' = sent \/ sent' = Append(sent, Request(NewPayload, FALSE))
  PROVE  Inductive'
<1>1. /\ built' \in Seq(Payload) /\ Extends(built', built)
      /\ DOMAIN built' = 1 .. Len(built) + 1
      /\ DOMAIN built = 1 .. Len(built) /\ Len(built) \in Nat
      /\ built'[Len(built) + 1] = P
      /\ \A p \in DOMAIN built : built'[p] = built[p]
  BY AppendFacts DEF Inductive, TypeOK, GoodPayload, Extends
<1>2. \A p \in DOMAIN built : GoodPayload(built[p], builders', issued')
  BY PayloadsStayGood
<1>3. \A p \in DOMAIN built' : GoodPayload(built'[p], builders', issued')
  BY <1>1, <1>2
<1> DEFINE Requests(n) == [payload : 1 .. n,
                           answer : {"none", "token", "error", "authRequired"},
                           token : 0 .. Len(tokens), authorized : BOOLEAN]
<1>4. sent \in Seq(Requests(Len(built))) /\ tokens \in Seq(DOMAIN built)
  BY <1>1 DEF Inductive, TypeOK
<1>5. Requests(Len(built)) \subseteq Requests(Len(built) + 1)
  BY <1>1
<1>6. Request(NewPayload, FALSE) \in Requests(Len(built) + 1)
  BY <1>1, RecordTypes DEF Request, NewPayload, Inductive
<1> HIDE DEF Requests
<1>7. sent \in Seq(Requests(Len(built) + 1))
  BY <1>4, <1>5
<1>8. /\ sent' \in Seq(Requests(Len(built) + 1)) /\ Extends(sent', sent)
      /\ DOMAIN sent' = 1 .. Len(sent') /\ Len(sent') \in Nat
      /\ \A c \in DOMAIN sent' : c \in DOMAIN sent \/ sent'[c].answer = "none"
  <2>1. CASE sent' = sent
    BY <1>7, <2>1, SelfExtends
  <2>2. CASE sent' = Append(sent, Request(NewPayload, FALSE))
    <3>1. Request(NewPayload, FALSE).answer = "none"
      BY DEF Request
    <3>2. /\ sent' \in Seq(Requests(Len(built) + 1)) /\ Extends(sent', sent)
          /\ DOMAIN sent' = 1 .. Len(sent) + 1 /\ Len(sent') = Len(sent) + 1
          /\ sent'[Len(sent) + 1] = Request(NewPayload, FALSE)
      BY <1>6, <1>7, <2>2, AppendFacts
    <3>3. DOMAIN sent = 1 .. Len(sent) /\ Len(sent) \in Nat
      BY <1>7
    <3>4. \A c \in DOMAIN sent' : c \in DOMAIN sent \/ sent'[c].answer = "none"
      <4>1. ASSUME NEW c \in DOMAIN sent', c \notin DOMAIN sent
            PROVE  c = Len(sent) + 1
        BY <3>2, <3>3, <4>1
      <4> QED
        BY <3>1, <3>2, <4>1
    <3>5. DOMAIN sent' = 1 .. Len(sent') /\ Len(sent') \in Nat
      BY <3>2, <3>3
    <3> QED
      BY <3>2, <3>4, <3>5
  <2> QED
    BY <2>1, <2>2
<1>9. tokens' \in Seq(DOMAIN built')
  <2>1. DOMAIN built \subseteq DOMAIN built'
    BY <1>1
  <2> QED
    BY <1>4, <2>1
<1>10. OneTokenPerReference'
  BY <1>1, <1>8, TokensKept
<1>11. sent' \in Seq([payload : DOMAIN built',
                      answer : {"none", "token", "error", "authRequired"},
                      token : 0 .. Len(tokens'), authorized : BOOLEAN])
  BY <1>1, <1>8 DEF Requests
<1> QED
  BY <1>1, <1>3, <1>9, <1>10, <1>11, Assembled
-----------------------------------------------------------------------------
(* Each operation *)

\* Reference ids that are given out.
LEMMA IssueFacts ==
  ASSUME Inductive, NEW purpose \in Purposes, issued' = Append(issued, purpose)
  PROVE  /\ issued' \in Seq(Purposes) /\ Extends(issued', issued)
         /\ NewReference \in 1 .. Len(issued') /\ issued'[NewReference] = purpose
         /\ NewReference > Empty
<1>1. issued \in Seq(Purposes) /\ Len(issued) \in Nat
  BY DEF Inductive, TypeOK
<1> QED
  BY <1>1, AppendFacts DEF NewReference, Empty

LEMMA NoneIssued ==
  ASSUME Inductive, UNCHANGED issued
  PROVE  issued' \in Seq(Purposes) /\ Extends(issued', issued)
  BY SelfExtends DEF Inductive, TypeOK

LEMMA MakeKeeps ==
  ASSUME Inductive, issued' \in Seq(Purposes), Extends(issued', issued),
         NEW kind \in Kinds, NEW ref \in {Nil, Empty} \cup 1 .. Len(issued'),
         NEW purpose \in Purposes, NEW terms \in Terms, NEW meant \in Terms,
         ref \notin {Nil, Empty} => issued'[ref] = purpose,
         kind = "access" => ref > Empty,
         Make(kind, ref, purpose, terms, meant, NoneListed)
  PROVE  Inductive'
<1> DEFINE B == [kind |-> kind, ref |-> ref, purpose |-> purpose, terms |-> terms,
                 meant |-> meant, asked |-> {}, listed |-> NoneListed, used |-> 0]
<1>1. Len(issued') \in Nat
  OBVIOUS
<1>2. B \in Builder
  BY <1>1, PurposesTypes DEF Builder, Nil, Empty
<1>3. \A r \in Resources : B.listed[r] \in IF r \in B.asked THEN 0 .. B.used ELSE {0}
  BY DEF NoneListed
<1>4. GoodBuilder(B, issued')
  BY <1>2, <1>3 DEF GoodBuilder
<1>5. builders' = Append(builders, B) /\ requested' = requested
      /\ UNCHANGED <<built, sent, tokens>>
  BY DEF Make
<1> HIDE DEF B
<1>6. Grown
  BY <1>4, <1>5, OneMore
<1> QED
  BY <1>5, <1>6, BuildersGrow

LEMMA CreateKeeps ==
  ASSUME Inductive, NEW kind \in Kinds, NEW terms \in Terms, Create(kind, terms)
  PROVE  Inductive'
<1>1. ForBuilder(NewBuilder) \in Purposes
  BY RecordTypes, PurposesTypes DEF Inductive, NewBuilder
<1>2. issued' \in Seq(Purposes) /\ Extends(issued', issued)
  BY NoneIssued DEF Create
<1>3. kind # "access" /\ Make(kind, Nil, ForBuilder(NewBuilder), terms, terms, NoneListed)
  BY DEF Create
<1> QED
  BY <1>1, <1>2, <1>3, MakeKeeps DEF Nil

\* An access token with a new reference id, from whatever it is made.
LEMMA AccessKeeps ==
  ASSUME Inductive, "access" \in Kinds, IssueForBuilder,
         Make("access", NewReference, ForBuilder(NewBuilder), NoTerms, NoTerms, NoneListed)
  PROVE  Inductive'
<1>1. ForBuilder(NewBuilder) \in Purposes /\ NoTerms \in Terms
  BY RecordTypes, PurposesTypes DEF Inductive, NewBuilder
<1>2. /\ issued' \in Seq(Purposes) /\ Extends(issued', issued)
      /\ NewReference \in 1 .. Len(issued') /\ issued'[NewReference] = ForBuilder(NewBuilder)
      /\ NewReference > Empty
  BY <1>1, IssueFacts DEF IssueForBuilder
<1> QED
  BY <1>1, <1>2, MakeKeeps

\* A builder with the reference id of the token request.
LEMMA RequestedKeeps ==
  ASSUME Inductive, UNCHANGED issued, NEW kind \in Kinds, kind # "access",
         NEW terms \in Terms, NEW meant \in Terms,
         Make(kind, requested, ForRequest, terms, meant, NoneListed)
  PROVE  Inductive'
<1>1. issued' \in Seq(Purposes) /\ Extends(issued', issued)
  BY NoneIssued
<1>2. /\ requested \in {Nil, Empty} \cup 1 .. Len(issued')
      /\ requested \notin {Nil, Empty} => issued'[requested] = ForRequest
  BY DEF Inductive, TypeOK, References, UsedAsIssued
<1> QED
  BY <1>1, <1>2, MakeKeeps, PurposesTypes

LEMMA TransferFromTokenRequestKeeps ==
  ASSUME Inductive, "transfer" \in Kinds, NEW terms \in Terms,
         TransferFromTokenRequest(terms)
  PROVE  Inductive'
<1>1. /\ UNCHANGED issued
      /\ Make("transfer", requested, ForRequest, TermsOfRequest(terms), terms, NoneListed)
  BY DEF TransferFromTokenRequest
<1>2. TermsOfRequest(terms) \in Terms
  BY DEF TermsOfRequest, Terms, Unset
<1> QED
  BY <1>1, <1>2, RequestedKeeps

LEMMA StandingFromTokenRequestKeeps ==
  ASSUME Inductive, "standing" \in Kinds, StandingFromTokenRequest
  PROVE  Inductive'
<1>1. UNCHANGED issued /\ NoTerms \in Terms
  BY PurposesTypes DEF StandingFromTokenRequest
<1>2. CASE requested = Empty
  <2>1. ForBuilder(NewBuilder) \in Purposes
    BY RecordTypes, PurposesTypes DEF Inductive, NewBuilder
  <2>2. Make("standing", Nil, ForBuilder(NewBuilder), NoTerms, NoTerms, NoneListed)
    BY <1>2 DEF StandingFromTokenRequest
  <2>3. issued' \in Seq(Purposes) /\ Extends(issued', issued)
    BY <1>1, NoneIssued
  <2> QED
    BY <1>1, <2>1, <2>2, <2>3, MakeKeeps DEF Nil
<1>3. CASE requested # Empty
  BY <1>1, <1>3, RequestedKeeps DEF StandingFromTokenRequest
<1> QED
  BY <1>2, <1>3

LEMMA BulkFromTokenRequestKeeps ==
  ASSUME Inductive, "bulk" \in Kinds, BulkFromTokenRequest
  PROVE  Inductive'
  BY PurposesTypes, RequestedKeeps DEF BulkFromTokenRequest

LEMMA FromTransferPayloadKeeps ==
  ASSUME Inductive, NEW p \in DOMAIN built, FromTransferPayload(p)
  PROVE  Inductive'
<1> DEFINE P == built[p]
<1>1. P \in Payload /\ GoodPayload(P, builders, issued) /\ builders[P.by] \in Builder
  BY RecordTypes, PayloadsAreGood DEF Inductive
<1>2. UNCHANGED issued /\ issued' \in Seq(Purposes) /\ Extends(issued', issued)
  BY NoneIssued DEF FromTransferPayload
<1>3. "transfer" \in Kinds
  BY <1>1, BuilderTypes DEF FromTransferPayload
<1>4. P.purpose \in Purposes /\ P.terms \in Terms /\ P.meant \in Terms
  BY <1>1, PayloadTypes
<1>5. TermsOfPayload(P.terms) \in Terms
  BY <1>4 DEF TermsOfPayload, AsRead, Terms
<1>6. Make("transfer", P.ref, P.purpose, TermsOfPayload(P.terms), P.terms, NoneListed)
  BY DEF FromTransferPayload
<1>7. P.ref \in {Nil, Empty} \cup 1 .. Len(issued')
      /\ (P.ref \notin {Nil, Empty} => issued'[P.ref] = P.purpose)
  BY <1>1, <1>2 DEF GoodPayload
<1> HIDE DEF P
<1> QED
  BY <1>2, <1>3, <1>4, <1>5, <1>6, <1>7, MakeKeeps

LEMMA SetRefIdKeeps ==
  ASSUME Inductive, NEW b \in DOMAIN builders, SetRefId(b)
  PROVE  Inductive'
<1> DEFINE B == [builders[b] EXCEPT !.ref = NewReference, !.purpose = ForBuilder(b)]
<1>1. builders[b] \in Builder /\ GoodBuilder(builders[b], issued) /\ b \in Nat
  BY RecordTypes, BuildersAreGood DEF Inductive, TypeOK
<1>2. ForBuilder(b) \in Purposes
  BY <1>1, PurposesTypes
<1>3. /\ issued' \in Seq(Purposes) /\ Extends(issued', issued)
      /\ NewReference \in 1 .. Len(issued') /\ issued'[NewReference] = ForBuilder(b)
      /\ NewReference > Empty
  BY <1>2, IssueFacts DEF SetRefId
<1>4. /\ B \in Builder /\ B.ref = NewReference /\ B.purpose = ForBuilder(b)
      /\ B.kind = builders[b].kind /\ B.used = builders[b].used
      /\ B.asked = builders[b].asked /\ B.listed = builders[b].listed
  <2>1. NewReference \in Int
    BY RecordTypes DEF Inductive, NewReference
  <2>2. [builders[b] EXCEPT !.ref = NewReference] \in Builder
    BY <1>1, <2>1 DEF Builder
  <2> QED
    BY <1>1, <1>2, <2>1, <2>2 DEF Builder
<1>5. builders' = [builders EXCEPT ![b] = B] /\ requested' = requested
      /\ UNCHANGED <<built, sent, tokens>>
  BY DEF SetRefId
<1> HIDE DEF B
<1>6. GoodBuilder(B, issued')
  BY <1>1, <1>3, <1>4 DEF GoodBuilder
<1>7. \A p \in DOMAIN built : built[p].by # b
  <2>1. builders[b].used = 0
    BY DEF SetRefId
  <2> QED
    BY <2>1 DEF Inductive, OneReference
<1>8. B.used >= builders[b].used
  BY <1>1, <1>4, BuilderTypes
<1>9. Grown
  BY <1>3, <1>4, <1>5, <1>6, <1>7, <1>8, OneChanged
<1> QED
  BY <1>5, <1>9, BuildersGrow

LEMMA ForKeeps ==
  ASSUME Inductive, NEW b \in DOMAIN builders, NEW r \in Resources, For(b, r)
  PROVE  Inductive'
<1> DEFINE B == [builders[b] EXCEPT !.asked = builders[b].asked \cup {r}]
<1>1. builders[b] \in Builder /\ GoodBuilder(builders[b], issued)
  BY RecordTypes, BuildersAreGood DEF Inductive
<1>2. issued' \in Seq(Purposes) /\ Extends(issued', issued) /\ UNCHANGED issued
  BY NoneIssued DEF For
<1>3. /\ B \in Builder /\ B.ref = builders[b].ref /\ B.purpose = builders[b].purpose
      /\ B.kind = builders[b].kind /\ B.used = builders[b].used
      /\ B.asked = builders[b].asked \cup {r} /\ B.listed = builders[b].listed
  BY <1>1 DEF Builder
<1>4. builders' = [builders EXCEPT ![b] = B] /\ requested' = requested
      /\ UNCHANGED <<built, sent, tokens>>
  BY DEF For
<1> HIDE DEF B
<1>5. builders[b].used \in Nat
  BY <1>1, BuilderTypes
<1>6. GoodBuilder(B, issued')
  BY <1>1, <1>2, <1>3, <1>5 DEF GoodBuilder
<1>7. B.used >= builders[b].used
  BY <1>3, <1>5
<1>8. Grown
  BY <1>2, <1>3, <1>4, <1>6, <1>7, OneChanged
<1> QED
  BY <1>4, <1>8, BuildersGrow

\* Building from b, which is B from then on: what its payload has in common with it.
LEMMA BuildKeeps ==
  ASSUME Inductive, NEW b \in DOMAIN builders,
         issued' \in Seq(Purposes), Extends(issued', issued), requested' = requested,
         NEW B, GoodBuilder(B, issued'), builders' = [builders EXCEPT ![b] = B],
         B.kind = builders[b].kind, B.used = builders[b].used + 1,
         B.asked = builders[b].asked,
         B.ref = builders[b].ref \/ \A p \in DOMAIN built : built[p].by # b,
         B.kind = "bulk" => B.ref > Empty,
         NEW ref \in {Empty} \cup 1 .. Len(issued'), NEW purpose \in Purposes,
         ref # Empty => issued'[ref] = purpose,
         B.kind \in {"bulk", "access"} \/ B.ref \notin {Nil, Empty} => ref = B.ref,
         NEW listed \in [Resources -> Nat],
         \A r \in Resources :
           listed[r] \in IF B.kind = "access" /\ r \in B.asked THEN 1 .. B.used ELSE {0},
         NEW prepared \in BOOLEAN,
         built' = Append(built, PayloadOf(b, ref, purpose, listed, prepared)),
         tokens' = tokens,
         sent' = sent \/ sent' = Append(sent, Request(NewPayload, FALSE))
  PROVE  Inductive'
<1> DEFINE P == PayloadOf(b, ref, purpose, listed, prepared)
<1>1. builders[b] \in Builder /\ b \in Nat /\ builders[b].used \in Nat
  BY RecordTypes, BuilderTypes DEF Inductive, TypeOK
<1>2. Grown /\ DOMAIN builders' = DOMAIN builders /\ builders'[b] = B
  <2>1. B.used >= builders[b].used
    BY <1>1
  <2> QED
    BY <2>1, OneChanged
<1>3. P \in Payload
  <2>1. /\ builders[b].terms \in Terms /\ builders[b].meant \in Terms
        /\ builders[b].asked \in SUBSET Resources /\ builders[b].used + 1 \in Nat
        /\ ref \in Int
    BY <1>1, BuilderTypes DEF Empty
  <2> QED
    BY <1>1, <2>1 DEF PayloadOf, Payload
<1>4. P.by = b /\ P.ref = ref /\ P.purpose = purpose /\ P.listed = listed
      /\ P.asked = B.asked /\ P.used = B.used
  BY DEF PayloadOf
<1>5. B.used > 0
  BY <1>1
<1> HIDE DEF P
<1>6. GoodPayload(P, builders', issued')
  BY <1>2, <1>3, <1>4, <1>5 DEF GoodPayload
<1>7. built' = Append(built, P)
  BY DEF P
<1> QED
  BY <1>2, <1>6, <1>7, OneBuilt

LEMMA UsedFacts ==
  ASSUME Inductive, NEW b \in DOMAIN builders
  PROVE  /\ Used(b) \in Builder
         /\ Used(b).ref = builders[b].ref /\ Used(b).purpose = builders[b].purpose
         /\ Used(b).kind = builders[b].kind /\ Used(b).used = builders[b].used + 1
         /\ Used(b).asked = builders[b].asked /\ Used(b).listed = builders[b].listed
<1>1. builders[b] \in Builder /\ builders[b].used + 1 \in Nat
  BY RecordTypes, BuilderTypes DEF Inductive
<1> QED
  BY <1>1 DEF Builder, Used

LEMMA BuildAfreshKeeps ==
  ASSUME Inductive, NEW b \in DOMAIN builders, NEW prepared \in BOOLEAN,
         BuildAfresh(b, prepared), requested' = requested, tokens' = tokens,
         sent' = sent \/ sent' = Append(sent, Request(NewPayload, FALSE))
  PROVE  Inductive'
<1> DEFINE B == Used(b)
<1>1. builders[b] \in Builder /\ builders[b].used \in Nat /\ GoodBuilder(builders[b], issued)
  BY RecordTypes, BuilderTypes, BuildersAreGood DEF Inductive
<1>2. ForPayload(NewPayload) \in Purposes
  BY RecordTypes, PurposesTypes DEF Inductive, NewPayload
<1>3. /\ issued' \in Seq(Purposes) /\ Extends(issued', issued)
      /\ NewReference \in 1 .. Len(issued') /\ issued'[NewReference] = ForPayload(NewPayload)
      /\ NewReference > Empty
  BY <1>2, IssueFacts DEF BuildAfresh
<1>4. /\ B \in Builder /\ B.ref = builders[b].ref /\ B.purpose = builders[b].purpose
      /\ B.kind = builders[b].kind /\ B.used = builders[b].used + 1
      /\ B.asked = builders[b].asked /\ B.listed = builders[b].listed
  BY UsedFacts
<1>5. /\ builders[b].kind \in {"transfer", "standing"} /\ builders[b].ref = Nil
      /\ builders' = [builders EXCEPT ![b] = B]
      /\ built' = Append(built, PayloadOf(b, NewReference, ForPayload(NewPayload),
                                          NoneListed, prepared))
  BY DEF BuildAfresh
<1> HIDE DEF B
<1>6. GoodBuilder(B, issued')
  <2>1. GoodBuilder(builders[b], issued')
    BY <1>1, <1>3, StaysGood DEF Inductive, TypeOK
  <2> QED
    BY <1>1, <1>4, <2>1 DEF GoodBuilder
<1>7. \A r \in Resources :
        NoneListed[r] \in IF B.kind = "access" /\ r \in B.asked THEN 1 .. B.used ELSE {0}
  BY <1>4, <1>5 DEF NoneListed
<1>8. ~(B.kind \in {"bulk", "access"} \/ B.ref \notin {Nil, Empty}) /\ B.kind # "bulk"
  BY <1>4, <1>5
<1> QED
  BY <1>2, <1>3, <1>4, <1>5, <1>6, <1>7, <1>8, PurposesTypes, BuildKeeps

LEMMA BuildWithItsReferenceKeeps ==
  ASSUME Inductive, NEW b \in DOMAIN builders, NEW prepared \in BOOLEAN,
         BuildWithItsReference(b, prepared), requested' = requested, tokens' = tokens,
         sent' = sent \/ sent' = Append(sent, Request(NewPayload, FALSE))
  PROVE  Inductive'
<1> DEFINE B == Used(b)
<1>1. builders[b] \in Builder /\ builders[b].used \in Nat /\ GoodBuilder(builders[b], issued)
  BY RecordTypes, BuilderTypes, BuildersAreGood DEF Inductive
<1>2. issued' \in Seq(Purposes) /\ Extends(issued', issued) /\ UNCHANGED issued
  BY NoneIssued DEF BuildWithItsReference
<1>3. /\ B \in Builder /\ B.ref = builders[b].ref /\ B.purpose = builders[b].purpose
      /\ B.kind = builders[b].kind /\ B.used = builders[b].used + 1
      /\ B.asked = builders[b].asked /\ B.listed = builders[b].listed
  BY UsedFacts
<1>4. /\ builders[b].kind \in {"transfer", "standing"} /\ builders[b].ref # Nil
      /\ builders' = [builders EXCEPT ![b] = B]
      /\ built' = Append(built, PayloadOf(b, B.ref, B.purpose, NoneListed, prepared))
  BY <1>3 DEF BuildWithItsReference
<1> HIDE DEF B
<1>5. GoodBuilder(B, issued')
  BY <1>1, <1>2, <1>3 DEF GoodBuilder
<1>6. \A r \in Resources :
        NoneListed[r] \in IF B.kind = "access" /\ r \in B.asked THEN 1 .. B.used ELSE {0}
  BY <1>3, <1>4 DEF NoneListed
<1>7. /\ B.ref \in {Empty} \cup 1 .. Len(issued') /\ B.purpose \in Purposes
      /\ B.ref # Empty => issued'[B.ref] = B.purpose
      /\ B.kind # "bulk"
  BY <1>3, <1>4, <1>5, BuilderTypes DEF GoodBuilder
<1> QED
  BY <1>2, <1>3, <1>4, <1>5, <1>6, <1>7, PurposesTypes, BuildKeeps

LEMMA BuildAccessKeeps ==
  ASSUME Inductive, NEW b \in DOMAIN builders,
         BuildAccess(b), requested' = requested, tokens' = tokens,
         sent' = sent \/ sent' = Append(sent, Request(NewPayload, FALSE))
  PROVE  Inductive'
<1> DEFINE B == [Used(b) EXCEPT !.listed = Listing(b)]
<1>1. builders[b] \in Builder /\ builders[b].used \in Nat /\ GoodBuilder(builders[b], issued)
      /\ builders[b].listed \in [Resources -> Nat]
  BY RecordTypes, BuilderTypes, BuildersAreGood DEF Inductive
<1>2. issued' \in Seq(Purposes) /\ Extends(issued', issued) /\ UNCHANGED issued
  BY NoneIssued DEF BuildAccess
<1>3. Listing(b) \in [Resources -> Nat]
  BY <1>1 DEF Listing
<1>4. /\ B \in Builder /\ B.ref = builders[b].ref /\ B.purpose = builders[b].purpose
      /\ B.kind = builders[b].kind /\ B.used = builders[b].used + 1
      /\ B.asked = builders[b].asked /\ B.listed = Listing(b)
  BY <1>3, UsedFacts DEF Builder
<1>5. /\ builders[b].kind = "access"
      /\ builders' = [builders EXCEPT ![b] = B]
      /\ built' = Append(built, PayloadOf(b, B.ref, B.purpose, Listing(b), FALSE))
  BY <1>4 DEF BuildAccess
<1> HIDE DEF B
<1>6. \A r \in Resources :
        Listing(b)[r] \in IF r \in B.asked THEN 1 .. B.used ELSE {0}
  <2> SUFFICES ASSUME NEW r \in Resources
               PROVE  Listing(b)[r] \in IF r \in B.asked THEN 1 .. B.used ELSE {0}
    OBVIOUS
  <2>1. builders[b].listed[r] \in
          IF r \in builders[b].asked THEN 0 .. builders[b].used ELSE {0}
    BY <1>1 DEF GoodBuilder
  <2>2. Listing(b)[r] = builders[b].listed[r] + IF r \in builders[b].asked THEN 1 ELSE 0
    BY DEF Listing
  <2> QED
    BY <1>1, <1>4, <2>1, <2>2
<1>7. GoodBuilder(B, issued')
  <2>1. \A r \in Resources : B.listed[r] \in IF r \in B.asked THEN 0 .. B.used ELSE {0}
    BY <1>4, <1>6, <1>1
  <2> QED
    BY <1>1, <1>2, <1>4, <2>1 DEF GoodBuilder
<1>8. /\ B.ref \in {Empty} \cup 1 .. Len(issued') /\ B.purpose \in Purposes
      /\ B.ref # Empty => issued'[B.ref] = B.purpose
      /\ B.kind # "bulk"
  BY <1>4, <1>5, <1>7, BuilderTypes DEF GoodBuilder, Nil, Empty
<1>9. \A r \in Resources :
        Listing(b)[r] \in IF B.kind = "access" /\ r \in B.asked THEN 1 .. B.used ELSE {0}
  BY <1>4, <1>5, <1>6
<1> QED
  BY <1>2, <1>3, <1>4, <1>5, <1>7, <1>8, <1>9, BuildKeeps

LEMMA BuildBulkKeeps ==
  ASSUME Inductive, NEW b \in DOMAIN builders,
         BuildBulk(b), requested' = requested, UNCHANGED <<sent, tokens>>
  PROVE  Inductive'
<1>1. builders[b] \in Builder /\ b \in Nat /\ builders[b].used \in Nat
      /\ GoodBuilder(builders[b], issued)
  BY RecordTypes, BuilderTypes, BuildersAreGood DEF Inductive, TypeOK
<1>2. builders[b].kind = "bulk"
  BY DEF BuildBulk
<1>3. CASE builders[b].ref \in {Nil, Empty}
  <2> DEFINE B == [Used(b) EXCEPT !.ref = NewReference, !.purpose = ForBuilder(b)]
  <2>1. ForBuilder(b) \in Purposes
    BY <1>1, PurposesTypes
  <2>2. /\ issued' \in Seq(Purposes) /\ Extends(issued', issued)
        /\ NewReference \in 1 .. Len(issued') /\ issued'[NewReference] = ForBuilder(b)
        /\ NewReference > Empty
    BY <1>3, <2>1, IssueFacts DEF BuildBulk
  <2>3. NewReference \in Int
    BY RecordTypes DEF Inductive, NewReference
  <2>4. /\ B \in Builder /\ B.ref = NewReference /\ B.purpose = ForBuilder(b)
        /\ B.kind = builders[b].kind /\ B.used = builders[b].used + 1
        /\ B.asked = builders[b].asked /\ B.listed = builders[b].listed
    <3>1. [Used(b) EXCEPT !.ref = NewReference] \in Builder
      BY <2>3, UsedFacts DEF Builder
    <3> QED
      BY <2>1, <2>3, <3>1, UsedFacts DEF Builder
  <2>5. /\ builders' = [builders EXCEPT ![b] = B]
        /\ built' = Append(built, PayloadOf(b, NewReference, ForBuilder(b), NoneListed, TRUE))
    BY <1>3 DEF BuildBulk
  <2> HIDE DEF B
  <2>6. GoodBuilder(B, issued')
    BY <1>1, <1>2, <2>2, <2>4 DEF GoodBuilder
  <2>7. \A p \in DOMAIN built : built[p].by # b
    BY <1>2, <1>3 DEF Inductive, OneReference, Nil, Empty
  <2>8. \A r \in Resources :
          NoneListed[r] \in IF B.kind = "access" /\ r \in B.asked THEN 1 .. B.used ELSE {0}
    BY <1>2, <2>4 DEF NoneListed
  <2> QED
    BY <2>1, <2>2, <2>4, <2>5, <2>6, <2>7, <2>8, PurposesTypes, BuildKeeps
<1>4. CASE builders[b].ref \notin {Nil, Empty}
  <2>1. UNCHANGED issued /\ issued' \in Seq(Purposes) /\ Extends(issued', issued)
    BY <1>4, NoneIssued DEF BuildBulk
  <2> DEFINE B == Used(b)
  <2>2. /\ B \in Builder /\ B.ref = builders[b].ref /\ B.purpose = builders[b].purpose
        /\ B.kind = builders[b].kind /\ B.used = builders[b].used + 1
        /\ B.asked = builders[b].asked /\ B.listed = builders[b].listed
    BY UsedFacts
  <2>3. /\ builders' = [builders EXCEPT ![b] = B]
        /\ built' = Append(built, PayloadOf(b, B.ref, B.purpose, NoneListed, TRUE))
    BY <1>4, <2>2 DEF BuildBulk
  <2> HIDE DEF B
  <2>4. GoodBuilder(B, issued')
    BY <1>1, <1>2, <2>1, <2>2 DEF GoodBuilder
  <2>5. /\ B.ref \in {Empty} \cup 1 .. Len(issued') /\ B.purpose \in Purposes
        /\ B.ref # Empty => issued'[B.ref] = B.purpose
        /\ B.ref > Empty
    BY <1>4, <2>2, <2>4, BuilderTypes DEF GoodBuilder, Nil, Empty
  <2>6. \A r \in Resources :
          NoneListed[r] \in IF B.kind = "access" /\ r \in B.asked THEN 1 .. B.used ELSE {0}
    BY <1>2, <2>2 DEF NoneListed
  <2> QED
    BY <2>1, <2>2, <2>3, <2>4, <2>5, <2>6, PurposesTypes, BuildKeeps
<1> QED
  BY <1>3, <1>4

LEMMA PrepareKeeps ==
  ASSUME Inductive, NEW b \in DOMAIN builders, Prepare(b)
  PROVE  Inductive'
  BY BuildAfreshKeeps, BuildWithItsReferenceKeeps, BuildBulkKeeps DEF Prepare

LEMMA ExecuteKeeps ==
  ASSUME Inductive, NEW b \in DOMAIN builders, Execute(b)
  PROVE  Inductive'
  BY BuildAfreshKeeps, BuildWithItsReferenceKeeps, BuildAccessKeeps DEF Execute
-----------------------------------------------------------------------------
(* Requests and answers *)

LEMMA NoneGrown ==
  ASSUME Inductive, UNCHANGED <<issued, requested, builders>>
  PROVE  Grown
<1>1. builders \in Seq(Builder) /\ issued \in Seq(Purposes)
  BY DEF Inductive, TypeOK
<1>2. \A b \in DOMAIN builders : builders[b].used \in Nat
  BY RecordTypes, BuilderTypes DEF Inductive
<1> QED
  BY <1>1, <1>2, SelfExtends, BuildersAreGood DEF Grown

\* The parts that a step leaves alone which only the server takes part in.
LEMMA NothingBuilt ==
  ASSUME Inductive, UNCHANGED <<issued, requested, builders, built>>,
         sent' \in Seq([payload : DOMAIN built,
                        answer : {"none", "token", "error", "authRequired"},
                        token : 0 .. Len(tokens'), authorized : BOOLEAN]),
         tokens' \in Seq(DOMAIN built),
         OneTokenPerReference'
  PROVE  Inductive'
<1>1. Grown
  BY NoneGrown
<1>2. built' \in Seq(Payload)
  BY DEF Inductive, TypeOK
<1>3. \A p \in DOMAIN built' : GoodPayload(built'[p], builders', issued')
  BY PayloadsAreGood
<1> QED
  BY <1>1, <1>2, <1>3, Assembled

LEMMA SendKeeps ==
  ASSUME Inductive, UNCHANGED <<issued, requested, builders, built, tokens>>,
         NEW p \in DOMAIN built, NEW authorized \in BOOLEAN,
         sent' = Append(sent, Request(p, authorized))
  PROVE  Inductive'
<1> DEFINE Requests == [payload : DOMAIN built,
                        answer : {"none", "token", "error", "authRequired"},
                        token : 0 .. Len(tokens), authorized : BOOLEAN]
<1>1. sent \in Seq(Requests) /\ tokens \in Seq(DOMAIN built) /\ built \in Seq(Payload)
  BY DEF Inductive, TypeOK
<1>2. Request(p, authorized) \in Requests /\ Request(p, authorized).answer = "none"
  BY <1>1 DEF Request
<1> HIDE DEF Requests
<1>3. /\ sent' \in Seq(Requests) /\ Extends(sent', sent)
      /\ DOMAIN sent' = 1 .. Len(sent) + 1 /\ Len(sent') = Len(sent) + 1
      /\ sent'[Len(sent) + 1] = Request(p, authorized)
  BY <1>1, <1>2, AppendFacts
<1>4. DOMAIN sent = 1 .. Len(sent) /\ Len(sent) \in Nat
  BY <1>1
<1>5. \A c \in DOMAIN sent' : c \in DOMAIN sent \/ sent'[c].answer = "none"
  <2>1. ASSUME NEW c \in DOMAIN sent', c \notin DOMAIN sent
        PROVE  c = Len(sent) + 1
    BY <1>3, <1>4, <2>1
  <2> QED
    BY <1>2, <1>3, <2>1
<1>6. OneTokenPerReference'
  BY <1>1, <1>3, <1>4, <1>5, SelfExtends, TokensKept
<1>7. tokens' \in Seq(DOMAIN built)
  BY <1>1
<1>8. sent' \in Seq([payload : DOMAIN built,
                     answer : {"none", "token", "error", "authRequired"},
                     token : 0 .. Len(tokens'), authorized : BOOLEAN])
  BY <1>3 DEF Requests
<1> QED
  BY <1>6, <1>7, <1>8, NothingBuilt

LEMMA CreateTokenKeeps ==
  ASSUME Inductive, NEW p \in DOMAIN built, CreateToken(p)
  PROVE  Inductive'
  BY SendKeeps DEF CreateToken

LEMMA ExecuteAuthorizedKeeps ==
  ASSUME Inductive, NEW c \in DOMAIN sent, ExecuteAuthorized(c)
  PROVE  Inductive'
<1>1. sent[c].payload \in DOMAIN built
  BY RecordTypes DEF Inductive
<1> QED
  BY <1>1, SendKeeps DEF ExecuteAuthorized

\* The server answers; it makes a token for that or not.
LEMMA AnswerKeeps ==
  ASSUME Inductive, UNCHANGED <<issued, requested, builders, built>>,
         NEW c \in DOMAIN sent, NEW answer \in {"token", "error", "authRequired"},
         tokens' \in Seq(DOMAIN built), Extends(tokens', tokens),
         \A t, u \in DOMAIN tokens' :
           t # u /\ built[tokens'[t]].ref # Empty
             => built[tokens'[t]].ref # built[tokens'[u]].ref,
         NEW t \in 0 .. Len(tokens'), Answer(c, answer, t),
         answer = "token" =>
           t \in DOMAIN tokens' /\ built[tokens'[t]].ref = built[sent[c].payload].ref
  PROVE  Inductive'
<1> DEFINE Requests(n) == [payload : DOMAIN built,
                           answer : {"none", "token", "error", "authRequired"},
                           token : 0 .. n, authorized : BOOLEAN]
           S == [sent[c] EXCEPT !.answer = answer, !.token = t]
<1>1. sent \in Seq(Requests(Len(tokens))) /\ tokens \in Seq(DOMAIN built)
  BY DEF Inductive, TypeOK
<1>2. /\ DOMAIN tokens \subseteq DOMAIN tokens' /\ \A u \in DOMAIN tokens : tokens'[u] = tokens[u]
      /\ Len(tokens) \in Nat /\ Len(tokens') \in Nat /\ Len(tokens) <= Len(tokens')
  BY <1>1, ExtendsFacts DEF Extends
<1>3. Requests(Len(tokens)) \subseteq Requests(Len(tokens'))
  BY <1>2
<1>4. sent[c] \in Requests(Len(tokens'))
  <2>1. sent[c] \in Requests(Len(tokens))
    <3> HIDE DEF Requests
    <3> QED
      BY <1>1
  <2> QED
    BY <1>3, <2>1
<1>5. S \in Requests(Len(tokens')) /\ S.answer = answer /\ S.token = t
      /\ S.payload = sent[c].payload
  <2>1. [sent[c] EXCEPT !.answer = answer] \in Requests(Len(tokens'))
    BY <1>4
  <2> QED
    BY <1>4, <2>1
<1>6. sent' = [sent EXCEPT ![c] = S]
  BY DEF Answer
<1> HIDE DEF Requests, S
<1>7. sent \in Seq(Requests(Len(tokens')))
  BY <1>1, <1>3
<1>8. /\ sent' \in Seq(Requests(Len(tokens'))) /\ DOMAIN sent' = DOMAIN sent
      /\ sent'[c] = S /\ \A d \in DOMAIN sent : d # c => sent'[d] = sent[d]
  BY <1>5, <1>6, <1>7
<1>9. \A d \in DOMAIN sent : sent[d].answer = "token" =>
        sent[d].token \in DOMAIN tokens
        /\ built[tokens[sent[d].token]].ref = built[sent[d].payload].ref
  BY DEF Inductive, OneTokenPerReference, RefOf
<1>10. ASSUME NEW d \in DOMAIN sent', sent'[d].answer = "token"
       PROVE  /\ sent'[d].token \in DOMAIN tokens'
              /\ built[tokens'[sent'[d].token]].ref = built[sent'[d].payload].ref
  <2>1. CASE d = c
    BY <1>5, <1>8, <1>10, <2>1
  <2>2. CASE d # c
    <3>1. d \in DOMAIN sent /\ sent'[d] = sent[d]
      BY <1>8, <2>2
    <3>2. sent[d].token \in DOMAIN tokens
          /\ built[tokens[sent[d].token]].ref = built[sent[d].payload].ref
      BY <1>9, <1>10, <3>1
    <3> QED
      BY <1>2, <3>1, <3>2
  <2> QED
    BY <2>1, <2>2
<1>11. OneTokenPerReference'
  BY <1>10 DEF OneTokenPerReference, RefOf, Empty
<1>12. sent' \in Seq([payload : DOMAIN built,
                      answer : {"none", "token", "error", "authRequired"},
                      token : 0 .. Len(tokens'), authorized : BOOLEAN])
  BY <1>8 DEF Requests
<1> QED
  BY <1>11, <1>12, NothingBuilt

\* The tokens there are do not share reference ids.
LEMMA TokensFacts ==
  ASSUME Inductive
  PROVE  /\ tokens \in Seq(DOMAIN built) /\ Extends(tokens, tokens)
         /\ \A t, u \in DOMAIN tokens :
              t # u /\ built[tokens[t]].ref # Empty
                => built[tokens[t]].ref # built[tokens[u]].ref
         /\ 0 \in 0 .. Len(tokens)
         /\ DOMAIN tokens = 1 .. Len(tokens) /\ Len(tokens) \in Nat
  BY SelfExtends DEF Inductive, TypeOK, OneTokenPerReference, RefOf

LEMMA HandleKeeps ==
  ASSUME Inductive, NEW c \in DOMAIN sent, Handle(c)
  PROVE  Inductive'
<1> DEFINE p == sent[c].payload
<1>1. p \in DOMAIN built /\ UNCHANGED <<issued, requested, builders, built>>
  BY RecordTypes DEF Inductive, Handle
<1>2. CASE \E t \in DOMAIN tokens :
             RefOf(t) = built[p].ref /\ Answer(c, "token", t) /\ UNCHANGED tokens
  <2>1. PICK t \in DOMAIN tokens :
          built[tokens[t]].ref = built[p].ref /\ Answer(c, "token", t) /\ UNCHANGED tokens
    BY <1>2 DEF RefOf
  <2>2. t \in 0 .. Len(tokens)
    BY TokensFacts
  <2>3. /\ tokens' \in Seq(DOMAIN built) /\ Extends(tokens', tokens)
        /\ \A v, u \in DOMAIN tokens' :
             v # u /\ built[tokens'[v]].ref # Empty
               => built[tokens'[v]].ref # built[tokens'[u]].ref
        /\ t \in 0 .. Len(tokens') /\ t \in DOMAIN tokens'
        /\ built[tokens'[t]].ref = built[p].ref
    BY <2>1, <2>2, TokensFacts
  <2> QED
    BY <1>1, <2>1, <2>3, AnswerKeeps
<1>3. CASE /\ built[p].ref = Empty \/ \A t \in DOMAIN tokens : RefOf(t) # built[p].ref
           /\ tokens' = Append(tokens, p)
           /\ Answer(c, "token", Len(tokens) + 1)
  <2>1. /\ tokens' \in Seq(DOMAIN built) /\ Extends(tokens', tokens)
        /\ DOMAIN tokens' = 1 .. Len(tokens) + 1 /\ Len(tokens') = Len(tokens) + 1
        /\ tokens'[Len(tokens) + 1] = p
        /\ \A t \in DOMAIN tokens : tokens'[t] = tokens[t]
        /\ DOMAIN tokens = 1 .. Len(tokens) /\ Len(tokens) \in Nat
    BY <1>1, <1>3, TokensFacts, AppendFacts DEF Extends
  <2>2. built[p].ref = Empty \/ \A t \in DOMAIN tokens : built[tokens[t]].ref # built[p].ref
    BY <1>3 DEF RefOf
  <2>3. ASSUME NEW t \in DOMAIN tokens', NEW u \in DOMAIN tokens', t # u,
               built[tokens'[t]].ref # Empty
        PROVE  built[tokens'[t]].ref # built[tokens'[u]].ref
    <3>1. \A v \in DOMAIN tokens' : v \in DOMAIN tokens \/ v = Len(tokens) + 1
      BY <2>1
    <3>2. CASE t \in DOMAIN tokens /\ u \in DOMAIN tokens
      BY <2>1, <2>3, <3>2, TokensFacts
    <3>3. CASE t = Len(tokens) + 1 /\ u \in DOMAIN tokens
      BY <2>1, <2>2, <2>3, <3>3
    <3>4. CASE t \in DOMAIN tokens /\ u = Len(tokens) + 1
      BY <2>1, <2>2, <2>3, <3>4
    <3> QED
      BY <2>3, <3>1, <3>2, <3>3, <3>4
  <2>4. Len(tokens) + 1 \in 0 .. Len(tokens') /\ Len(tokens) + 1 \in DOMAIN tokens'
        /\ built[tokens'[Len(tokens) + 1]].ref = built[p].ref
    BY <2>1
  <2> QED
    BY <1>1, <1>3, <2>1, <2>3, <2>4, AnswerKeeps
<1> QED
  BY <1>2, <1>3 DEF Handle

LEMMA RefuseKeeps ==
  ASSUME Inductive, NEW c \in DOMAIN sent, Refuse(c)
  PROVE  Inductive'
  BY TokensFacts, AnswerKeeps DEF Refuse

LEMMA AskForAuthorizationKeeps ==
  ASSUME Inductive, NEW c \in DOMAIN sent, AskForAuthorization(c)
  PROVE  Inductive'
  BY TokensFacts, AnswerKeeps DEF AskForAuthorization
-----------------------------------------------------------------------------
(* The theorems *)

LEMMA InitInductive == Init => Inductive
<1> SUFFICES ASSUME Init PROVE Inductive
  OBVIOUS
<1>1. ForRequest \in Purposes
  BY PurposesTypes
<1>2. (issued = <<ForRequest>> /\ requested = 1) \/ (issued = <<>> /\ requested = Empty)
  BY DEF Init
<1>3. issued \in Seq(Purposes) /\ requested \in References \ {Nil}
  <2>1. CASE issued = <<ForRequest>> /\ requested = 1
    <3>1. issued \in Seq(Purposes) /\ Len(issued) = 1
      BY <1>1, <2>1
    <3> QED
      BY <2>1, <3>1 DEF References, Nil
  <2>2. CASE issued = <<>> /\ requested = Empty
    BY <2>2 DEF References, Nil, Empty
  <2> QED
    BY <1>2, <2>1, <2>2
<1>4. builders = <<>> /\ built = <<>> /\ sent = <<>> /\ tokens = <<>>
  BY DEF Init
<1>5. TypeOK
  BY <1>3, <1>4 DEF TypeOK
<1>6. UsedAsIssued
  BY <1>2, <1>4 DEF UsedAsIssued, Empty
<1>7. OneReference /\ OneTokenPerReference /\ ListedAsAsked
  BY <1>4 DEF OneReference, OneTokenPerReference, ListedAsAsked
<1> QED
  BY <1>5, <1>6, <1>7 DEF Inductive

LEMMA StutterKeeps ==
  ASSUME Inductive, UNCHANGED vars
  PROVE  Inductive'
<1>1. sent' \in Seq([payload : DOMAIN built,
                     answer : {"none", "token", "error", "authRequired"},
                     token : 0 .. Len(tokens'), authorized : BOOLEAN])
  BY DEF Inductive, TypeOK, vars
<1>2. OneTokenPerReference'
  BY DEF Inductive, OneTokenPerReference, RefOf, vars
<1>3. tokens' \in Seq(DOMAIN built)
  BY DEF Inductive, TypeOK, vars
<1> QED
  BY <1>1, <1>2, <1>3, NothingBuilt DEF vars

LEMMA NextInductive ==
  ASSUME Inductive, [Next]_vars
  PROVE  Inductive'
<1>1. ASSUME NEW terms \in Offers \cup {NoTerms},
             \/ \E kind \in Kinds : Create(kind, terms)
             \/ "transfer" \in Kinds /\ TransferFromTokenRequest(terms)
      PROVE  Inductive'
  <2>1. terms \in Terms
    BY PurposesTypes, OffersAssumption
  <2> QED
    BY <1>1, <2>1, CreateKeeps, TransferFromTokenRequestKeeps
<1>2. ASSUME \/ "standing" \in Kinds /\ StandingFromTokenRequest
             \/ "bulk" \in Kinds /\ BulkFromTokenRequest
             \/ "access" \in Kinds /\ (CreateAccess \/ AccessFromTokenRequest)
      PROVE  Inductive'
  BY <1>2, StandingFromTokenRequestKeeps, BulkFromTokenRequestKeeps, AccessKeeps
  DEF CreateAccess, AccessFromTokenRequest
<1>3. ASSUME NEW p \in DOMAIN built, FromTransferPayload(p)
      PROVE  Inductive'
  BY <1>3, FromTransferPayloadKeeps
<1>4. ASSUME NEW p \in DOMAIN built, FromAccessPayload(p)
      PROVE  Inductive'
  <2>1. "access" \in Kinds
    <3>1. builders[built[p].by] \in Builder
      BY RecordTypes DEF Inductive
    <3> QED
      BY <1>4, <3>1, BuilderTypes DEF FromAccessPayload
  <2> QED
    BY <1>4, <2>1, AccessKeeps DEF FromAccessPayload
<1>5. ASSUME NEW b \in DOMAIN builders,
             SetRefId(b) \/ (\E r \in Resources : For(b, r)) \/ Prepare(b) \/ Execute(b)
      PROVE  Inductive'
  BY <1>5, SetRefIdKeeps, ForKeeps, PrepareKeeps, ExecuteKeeps
<1>6. ASSUME NEW p \in DOMAIN built, CreateToken(p)
      PROVE  Inductive'
  BY <1>6, CreateTokenKeeps
<1>7. ASSUME NEW c \in DOMAIN sent,
             ExecuteAuthorized(c) \/ Handle(c) \/ Refuse(c) \/ AskForAuthorization(c)
      PROVE  Inductive'
  BY <1>7, ExecuteAuthorizedKeeps, HandleKeeps, RefuseKeeps, AskForAuthorizationKeeps
<1>8. CASE Next
  BY <1>1, <1>2, <1>3, <1>4, <1>5, <1>6, <1>7, <1>8 DEF Next
<1>9. CASE UNCHANGED vars
  BY <1>9, StutterKeeps
<1> QED
  BY <1>8, <1>9

\* Whatever an application builds, sends and repeats, every reference id is used for
\* what it was given out for, one token at most has it, and each builder lists what was
\* asked of it.
THEOREM BuildersInvariant == Spec => []Inductive
<1>1. Inductive /\ [Next]_vars => Inductive'
  BY NextInductive
<1> QED
  BY <1>1, InitInductive, PTL DEF Spec

\* No payload makes two tokens, however often it is sent and whenever the server gets
\* to it, nor does a builder that keeps its reference id, however often it is used.
THEOREM RetriesAreSafe == Spec => []RetriesMakeOneToken
<1>1. Inductive => RetriesMakeOneToken
  <2> SUFFICES ASSUME Inductive, NEW t \in DOMAIN tokens, NEW u \in DOMAIN tokens,
                      t # u, RefOf(t) # Empty
               PROVE  /\ tokens[t] # tokens[u]
                      /\ built[tokens[t]].by = built[tokens[u]].by
                           => ~KeepsReference(built[tokens[t]].by)
    BY DEF RetriesMakeOneToken
  <2>1. /\ RefOf(t) # RefOf(u)
        /\ built[tokens[t]].ref # Empty
    BY DEF Inductive, OneTokenPerReference, RefOf
  <2>2. tokens[t] # tokens[u]
    BY <2>1 DEF RefOf
  <2>3. ASSUME built[tokens[t]].by = built[tokens[u]].by,
               KeepsReference(built[tokens[t]].by)
        PROVE  FALSE
    <3>1. tokens[t] \in DOMAIN built /\ tokens[u] \in DOMAIN built
      BY RecordTypes DEF Inductive
    <3> QED
      BY <2>1, <2>3, <3>1 DEF Inductive, OneReference, RefOf
  <2> QED
    BY <2>1, <2>2, <2>3
<1> QED
  BY <1>1, BuildersInvariant, PTL

\* A request is answered with the token that was made of the same thing: of the same
\* payload, of a payload of a builder that keeps its reference id, or of one whose
\* reference id was taken over with the rest of it.
THEOREM AnswersAreOwn == Spec => []AnswersAreItsOwn
<1>1. Inductive => AnswersAreItsOwn
  <2> SUFFICES ASSUME Inductive, NEW c \in DOMAIN sent, sent[c].answer = "token",
                      built[sent[c].payload].ref # Empty
               PROVE  built[tokens[sent[c].token]].purpose = built[sent[c].payload].purpose
    BY DEF AnswersAreItsOwn
  <2>1. sent[c].token \in DOMAIN tokens
        /\ built[tokens[sent[c].token]].ref = built[sent[c].payload].ref
    BY DEF Inductive, OneTokenPerReference, RefOf
  <2>2. sent[c].payload \in DOMAIN built /\ tokens[sent[c].token] \in DOMAIN built
    BY <2>1, RecordTypes DEF Inductive
  <2> QED
    BY <2>1, <2>2 DEF Inductive, UsedAsIssued
<1> QED
  BY <1>1, BuildersInvariant, PTL

\* The server is asked for the resources that the application named to the builder, and
\* for no other.
THEOREM ListsAreAsAsked == Spec => []ListsWhatWasAsked
<1>1. Inductive => ListsWhatWasAsked
  BY RecordTypes DEF Inductive, ListedAsAsked, ListsWhatWasAsked
<1> QED
  BY <1>1, BuildersInvariant, PTL
=============================================================================
