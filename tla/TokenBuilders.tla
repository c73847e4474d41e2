--------------------------- MODULE TokenBuilders ---------------------------
(***************************************************************************)
(* Tokens made with the four builders, and made again: an application that  *)
(* was told of an error or a timeout repeats what it did, with the builder, *)
(* with the payload it had prepared, or with a new builder, while what it   *)
(* sent before may still reach the server in any order, or never.  What     *)
(* keeps a token from being made twice, or one token from being taken for   *)
(* another, is the reference id that the builder puts into each payload.    *)
(***************************************************************************)
EXTENDS Integers, Sequences

CONSTANTS
  Kinds,        \* "transfer", "standing", "bulk", "access"
  Offers,       \* the terms of transfers to consider
  Resources,    \* what an access token may give access to
  MaxBuilders,  \* bounds: builders,
  MaxBuilt,     \* payloads built
  MaxCalls      \* and requests sent

ASSUME TokenBuildersAssumption ==
  /\ Kinds \subseteq {"transfer", "standing", "bulk", "access"}
  /\ MaxBuilders \in Nat /\ MaxBuilt \in Nat /\ MaxCalls \in Nat

VARIABLES
  issued,    \* what each reference id was given out for, in the order they were
  requested, \* the reference id in the token request that builders are made from
  builders, built, sent, \* in the order they were made
  tokens     \* the payload that each token of the server was made with

vars == <<issued, requested, builders, built, sent, tokens>>

\* Reference ids: nil, the empty string, or one that was given out.
Nil == -1
Empty == 0
References == {Nil, Empty} \cup 1 .. Len(issued)
NewReference == Len(issued) + 1

\* What a reference id is given out for: the token request, whatever comes of one
\* builder, or one payload alone.
Purposes == [for : {"request", "builder", "payload"}, number : Nat]
ForRequest == [for |-> "request", number |-> 0]
ForBuilder(b) == [for |-> "builder", number |-> b]
ForPayload(p) == [for |-> "payload", number |-> p]

\* Amounts and times.  A lifetime amount can be NSDecimalNumber's notANumber, which is
\* written as any other.
Unset == 0
NotANumber == -1
Terms == [lifetime : {NotANumber} \cup Nat, charge : Nat, expires : Nat, effective : Nat]
ASSUME OffersAssumption == Offers \subseteq Terms
NoTerms == [lifetime |-> Unset, charge |-> Unset, expires |-> Unset, effective |-> Unset]
NoneListed == [r \in Resources |-> 0]

\* A builder: its terms and those it was meant to have, the resources asked for, how
\* often its payload lists each of them, and how often it was used.
Builder == [kind : Kinds, ref : Int, purpose : Purposes, terms : Terms, meant : Terms,
            asked : SUBSET Resources, listed : [Resources -> Nat], used : Nat]

\* A payload: the builder's copy of all that, at the time.
Payload == [by : Nat, ref : Int, purpose : Purposes, terms : Terms, meant : Terms,
            asked : SUBSET Resources, listed : [Resources -> Nat], used : Nat,
            prepared : BOOLEAN]

TypeOK ==
  /\ issued \in Seq(Purposes)
  /\ requested \in References \ {Nil}
  /\ builders \in Seq(Builder)
  /\ \A b \in DOMAIN builders : builders[b].ref \in References
  /\ built \in Seq(Payload)
  /\ \A p \in DOMAIN built :
       built[p].by \in DOMAIN builders /\ built[p].ref \in References \ {Nil}
  /\ sent \in Seq([payload : DOMAIN built,
                   answer : {"none", "token", "error", "authRequired"},
                   token : 0 .. Len(tokens), authorized : BOOLEAN])
  /\ tokens \in Seq(DOMAIN built)

Init ==
  /\ \E given \in BOOLEAN :
       /\ issued = IF given THEN <<ForRequest>> ELSE <<>>
       /\ requested = IF given THEN 1 ELSE Empty
  /\ builders = <<>>
  /\ built = <<>>
  /\ sent = <<>>
  /\ tokens = <<>>
-----------------------------------------------------------------------------
(* Builders *)

NewBuilder == Len(builders) + 1

Make(kind, ref, purpose, terms, meant, listed) ==
  /\ Len(builders) < MaxBuilders
  /\ builders' = Append(builders,
       [kind |-> kind, ref |-> ref, purpose |-> purpose, terms |-> terms,
        meant |-> meant, asked |-> {}, listed |-> listed, used |-> 0])
  /\ UNCHANGED <<requested, built, sent, tokens>>

\* A new reference id, for the builder about to be made.
IssueForBuilder == issued' = Append(issued, ForBuilder(NewBuilder))

\* From the values of a transfer, a standing order or a bulk transfer.
Create(kind, terms) ==
  /\ kind # "access"
  /\ kind # "transfer" => terms = NoTerms
  /\ Make(kind, Nil, ForBuilder(NewBuilder), terms, terms, NoneListed)
  /\ UNCHANGED issued

\* The application sets refId, before it uses the builder.
SetRefId(b) ==
  /\ builders[b].kind # "access"
  /\ builders[b].used = 0
  /\ builders[b].ref = Nil
  /\ builders' = [builders EXCEPT ![b] = [@ EXCEPT !.ref = NewReference, !.purpose = ForBuilder(b)]]
  /\ issued' = Append(issued, ForBuilder(b))
  /\ UNCHANGED <<requested, built, sent, tokens>>

\* initWithToAlias:, initWithToId:.
CreateAccess ==
  /\ Make("access", NewReference, ForBuilder(NewBuilder), NoTerms, NoTerms, NoneListed)
  /\ IssueForBuilder

\* The amount of each charge is taken for the lifetime amount.
TermsOfRequest(terms) ==
  [terms EXCEPT !.lifetime = IF terms.charge # Unset THEN terms.charge ELSE @,
                !.charge = Unset]

\* A transfer from the token request, which says nothing of its times.
TransferFromTokenRequest(terms) ==
  /\ terms.expires = Unset /\ terms.effective = Unset
  /\ Make("transfer", requested, ForRequest, TermsOfRequest(terms), terms, NoneListed)
  /\ UNCHANGED issued

\* A standing order passes over an empty reference id,
StandingFromTokenRequest ==
  /\ IF requested = Empty
       THEN Make("standing", Nil, ForBuilder(NewBuilder), NoTerms, NoTerms, NoneListed)
       ELSE Make("standing", requested, ForRequest, NoTerms, NoTerms, NoneListed)
  /\ UNCHANGED issued

\* a bulk transfer takes what there is,
BulkFromTokenRequest ==
  /\ Make("bulk", requested, ForRequest, NoTerms, NoTerms, NoneListed)
  /\ UNCHANGED issued

\* and an access token passes over any.
AccessFromTokenRequest ==
  /\ Make("access", NewReference, ForBuilder(NewBuilder), NoTerms, NoTerms, NoneListed)
  /\ IssueForBuilder

\* What decimalNumberWithString: reads.
AsRead(amount) == IF amount = Unset THEN NotANumber ELSE amount

\* The terms of a builder made from a payload: a charge amount that is not a number is
\* left out, a lifetime amount is not.  The time the token expires is taken for the time
\* it becomes effective.
TermsOfPayload(terms) ==
  [terms EXCEPT !.lifetime = AsRead(@), !.effective = terms.expires]

\* A transfer with the values of a payload, its reference id among them.
FromTransferPayload(p) ==
  /\ builders[built[p].by].kind = "transfer"
  /\ Make("transfer", built[p].ref, built[p].purpose, TermsOfPayload(built[p].terms),
          built[p].terms, NoneListed)
  /\ UNCHANGED issued

\* Mutant: the reference id is copied with the rest.
FromAccessPayloadKeepingReference(p) ==
  /\ builders[built[p].by].kind = "access"
  /\ Make("access", built[p].ref, ForBuilder(NewBuilder), NoTerms, NoTerms, NoneListed)
  /\ UNCHANGED issued

\* Mutant: so are the resources.
FromAccessPayloadKeepingResources(p) ==
  /\ builders[built[p].by].kind = "access"
  /\ Make("access", NewReference, ForBuilder(NewBuilder), NoTerms, NoTerms, built[p].listed)
  /\ IssueForBuilder

\* An access token from the payload of an earlier one, which lost its resources and
\* its reference id: to replace that one, or beside it.
FromAccessPayload(p) ==
  /\ builders[built[p].by].kind = "access"
  /\ Make("access", NewReference, ForBuilder(NewBuilder), NoTerms, NoTerms, NoneListed)
  /\ IssueForBuilder

\* forAccount: and the like.
For(b, r) ==
  /\ builders[b].kind = "access"
  /\ r \notin builders[b].asked
  /\ builders' = [builders EXCEPT ![b].asked = @ \cup {r}]
  /\ UNCHANGED <<issued, requested, built, sent, tokens>>
-----------------------------------------------------------------------------
(* Payloads *)

NewPayload == Len(built) + 1

\* Builder b when it has been used once more.
Used(b) == [builders[b] EXCEPT !.used = @ + 1]

\* The payload that builder b builds when its reference id is ref.
PayloadOf(b, ref, purpose, listed, prepared) ==
  [by |-> b, ref |-> ref, purpose |-> purpose, terms |-> builders[b].terms,
   meant |-> builders[b].meant, asked |-> builders[b].asked, listed |-> listed,
   used |-> builders[b].used + 1, prepared |-> prepared]

\* Mutant: the nonce that was drawn last is used again.
BuildAfreshWithLast(b, prepared) ==
  /\ builders[b].kind \in {"transfer", "standing"}
  /\ builders[b].ref = Nil
  /\ issued # <<>>
  /\ built' = Append(built, PayloadOf(b, Len(issued), ForPayload(NewPayload),
                                      NoneListed, prepared))
  /\ builders' = [builders EXCEPT ![b] = Used(b)]
  /\ UNCHANGED issued

\* A transfer or a standing order without a reference id gets one for each payload.
BuildAfresh(b, prepared) ==
  /\ builders[b].kind \in {"transfer", "standing"}
  /\ builders[b].ref = Nil
  /\ issued' = Append(issued, ForPayload(NewPayload))
  /\ built' = Append(built, PayloadOf(b, NewReference, ForPayload(NewPayload),
                                      NoneListed, prepared))
  /\ builders' = [builders EXCEPT ![b] = Used(b)]

BuildWithItsReference(b, prepared) ==
  /\ builders[b].kind \in {"transfer", "standing"}
  /\ builders[b].ref # Nil
  /\ built' = Append(built, PayloadOf(b, builders[b].ref, builders[b].purpose,
                                      NoneListed, prepared))
  /\ builders' = [builders EXCEPT ![b] = Used(b)]
  /\ UNCHANGED issued

\* Mutant: a bulk transfer gets a reference id for each payload, too.
BuildBulkAfresh(b) ==
  /\ builders[b].kind = "bulk"
  /\ issued' = Append(issued, ForBuilder(b))
  /\ built' = Append(built, PayloadOf(b, NewReference, ForBuilder(b), NoneListed, TRUE))
  /\ builders' = [builders EXCEPT ![b] = [Used(b) EXCEPT !.ref = NewReference]]

\* The payload of a bulk transfer is the builder's own, with the reference id it was
\* given when it was first built, if none was set.
BuildBulk(b) ==
  /\ builders[b].kind = "bulk"
  /\ IF builders[b].ref \in {Nil, Empty}
       THEN /\ issued' = Append(issued, ForBuilder(b))
            /\ built' = Append(built,
                 PayloadOf(b, NewReference, ForBuilder(b), NoneListed, TRUE))
            /\ builders' = [builders EXCEPT ![b] =
                 [Used(b) EXCEPT !.ref = NewReference, !.purpose = ForBuilder(b)]]
       ELSE /\ built' = Append(built,
                 PayloadOf(b, builders[b].ref, builders[b].purpose, NoneListed, TRUE))
            /\ builders' = [builders EXCEPT ![b] = Used(b)]
            /\ UNCHANGED issued

\* So is that of an access token, to which each use adds all the resources.
Listing(b) ==
  [r \in Resources |->
     builders[b].listed[r] + IF r \in builders[b].asked THEN 1 ELSE 0]

BuildAccess(b) ==
  /\ builders[b].kind = "access"
  /\ built' = Append(built, PayloadOf(b, builders[b].ref, builders[b].purpose,
                                      Listing(b), FALSE))
  /\ builders' = [builders EXCEPT ![b] = [Used(b) EXCEPT !.listed = Listing(b)]]
  /\ UNCHANGED issued
-----------------------------------------------------------------------------
(* Requests *)

Request(p, authorized) ==
  [payload |-> p, answer |-> "none", token |-> 0, authorized |-> authorized]

\* prepareToken: for any but an access token.  The server gives the payload back,
\* resolved, unless it fails: then the application does without it.
Prepare(b) ==
  /\ Len(built) < MaxBuilt
  /\ BuildAfresh(b, TRUE) \/ BuildWithItsReference(b, TRUE) \/ BuildBulk(b)
  /\ UNCHANGED <<requested, sent, tokens>>

\* createToken: with a prepared payload, once or again.
CreateToken(p) ==
  /\ Len(sent) < MaxCalls
  /\ built[p].prepared
  /\ sent' = Append(sent, Request(p, FALSE))
  /\ UNCHANGED <<issued, requested, builders, built, tokens>>

\* createTransferToken: by way of executeAsync:, and createAccessToken: or
\* replaceAccessToken:, build the payload and send it.  (executeAsync: raises an exception
\* instead if the transfer has no source account; nothing has changed then.)
Execute(b) ==
  /\ Len(built) < MaxBuilt /\ Len(sent) < MaxCalls
  /\ \/ /\ builders[b].kind = "transfer"
        /\ BuildAfresh(b, FALSE) \/ BuildWithItsReference(b, FALSE)
     \/ BuildAccess(b)
  /\ sent' = Append(sent, Request(NewPayload, FALSE))
  /\ UNCHANGED <<requested, tokens>>

\* The bank wants the owner's authorization: executeAsync: gets it and sends the same
\* payload with it.
ExecuteAuthorized(c) ==
  /\ Len(sent) < MaxCalls
  /\ sent[c].answer = "authRequired"
  /\ ~\E d \in DOMAIN sent : sent[d].authorized /\ sent[d].payload = sent[c].payload
  /\ sent' = Append(sent, Request(sent[c].payload, TRUE))
  /\ UNCHANGED <<issued, requested, builders, built, tokens>>
-----------------------------------------------------------------------------
(* The server *)

Answer(c, answer, t) ==
  sent' = [sent EXCEPT ![c] = [@ EXCEPT !.answer = answer, !.token = t]]

RefOf(t) == built[tokens[t]].ref

\* token.proto: "Random string used to de-dupe tokens".  A request whose caller has
\* been told of a timeout is handled like any other; of one without a reference id,
\* the server may make what it will.
Handle(c) ==
  /\ sent[c].answer = "none"
  /\ LET ref == built[sent[c].payload].ref IN
       \/ \E t \in DOMAIN tokens :
            /\ RefOf(t) = ref
            /\ Answer(c, "token", t)
            /\ UNCHANGED tokens
       \/ /\ ref = Empty \/ \A t \in DOMAIN tokens : RefOf(t) # ref
          /\ tokens' = Append(tokens, sent[c].payload)
          /\ Answer(c, "token", Len(tokens) + 1)
  /\ UNCHANGED <<issued, requested, builders, built>>

\* Or lost on its way.
Refuse(c) ==
  /\ sent[c].answer = "none"
  /\ Answer(c, "error", 0)
  /\ UNCHANGED <<issued, requested, builders, built, tokens>>

AskForAuthorization(c) ==
  /\ sent[c].answer = "none"
  /\ builders[built[sent[c].payload].by].kind = "transfer"
  /\ ~built[sent[c].payload].prepared
  /\ Answer(c, IF sent[c].authorized THEN "error" ELSE "authRequired", 0)
  /\ UNCHANGED <<issued, requested, builders, built, tokens>>
-----------------------------------------------------------------------------

Next ==
  \/ \E kind \in Kinds, terms \in Offers \cup {NoTerms} : Create(kind, terms)
  \/ /\ "transfer" \in Kinds
     /\ \E terms \in Offers \cup {NoTerms} : TransferFromTokenRequest(terms)
  \/ "standing" \in Kinds /\ StandingFromTokenRequest
  \/ "bulk" \in Kinds /\ BulkFromTokenRequest
  \/ "access" \in Kinds /\ (CreateAccess \/ AccessFromTokenRequest)
  \/ \E p \in DOMAIN built : FromTransferPayload(p) \/ FromAccessPayload(p)
  \/ \E b \in DOMAIN builders :
       \/ SetRefId(b)
       \/ \E r \in Resources : For(b, r)
       \/ Prepare(b)
       \/ Execute(b)
  \/ \E p \in DOMAIN built : CreateToken(p)
  \/ \E c \in DOMAIN sent :
       ExecuteAuthorized(c) \/ Handle(c) \/ Refuse(c) \/ AskForAuthorization(c)

Spec == Init /\ [][Next]_vars
-----------------------------------------------------------------------------
(* Properties *)

\* A bulk transfer or an access token keeps its reference id, from the first use on;
\* the others if they were given one.
KeepsReference(b) ==
  builders[b].kind \in {"bulk", "access"} \/ builders[b].ref \notin {Nil, Empty}

\* However often a payload is sent, and whatever the server handles late, it makes one
\* token; so does a builder used again and again, if it keeps its reference id.
RetriesMakeOneToken ==
  \A t, u \in DOMAIN tokens : t # u /\ RefOf(t) # Empty =>
    /\ tokens[t] # tokens[u]
    /\ built[tokens[t]].by = built[tokens[u]].by => ~KeepsReference(built[tokens[t]].by)

\* token.proto: the reference id "must be unique per initiator".  No request is
\* answered with a token that was made of something else: another builder's, unless
\* both were made from the same token request, or one from the other's payload.
AnswersAreItsOwn ==
  \A c \in DOMAIN sent : sent[c].answer = "token" /\ built[sent[c].payload].ref # Empty =>
    built[tokens[sent[c].token]].purpose = built[sent[c].payload].purpose

\* An access token gives access to what was asked of its builder by the time it was
\* sent, and nothing else - not to what an earlier token did whose payload it was made
\* from - and names it at most as often as the builder was used.
ListsWhatWasAsked ==
  \A t \in DOMAIN tokens :
    LET p == built[tokens[t]] IN
      \A r \in Resources :
        p.listed[r] \in IF builders[p.by].kind = "access" /\ r \in p.asked
                          THEN 1 .. p.used ELSE {0}

\* A payload has the terms of the request or the payload that its builder was made
\* from.
SameTerms == \A p \in DOMAIN built : built[p].terms = built[p].meant
-----------------------------------------------------------------------------
(* The inductive invariant *)

\* A reference id is used for what it was given out for, and nothing else.
UsedAsIssued ==
  /\ requested # Empty => issued[requested] = ForRequest
  /\ \A b \in DOMAIN builders :
       builders[b].ref \notin {Nil, Empty} => issued[builders[b].ref] = builders[b].purpose
  /\ \A p \in DOMAIN built :
       built[p].ref # Empty => issued[built[p].ref] = built[p].purpose

\* A builder that keeps its reference id has used no other.
OneReference ==
  /\ \A b \in DOMAIN builders : builders[b].kind = "access" => builders[b].ref > Empty
  /\ \A p \in DOMAIN built :
       /\ builders[built[p].by].used > 0
       /\ KeepsReference(built[p].by) => built[p].ref = builders[built[p].by].ref
       /\ builders[built[p].by].kind = "bulk" => builders[built[p].by].ref > Empty

\* The server de-dupes.
OneTokenPerReference ==
  /\ \A t, u \in DOMAIN tokens : t # u /\ RefOf(t) # Empty => RefOf(t) # RefOf(u)
  /\ \A c \in DOMAIN sent : sent[c].answer = "token" =>
       sent[c].token \in DOMAIN tokens /\ RefOf(sent[c].token) = built[sent[c].payload].ref

\* Nothing gets into a builder's list but what was asked of it.
ListedAsAsked ==
  /\ \A b \in DOMAIN builders, r \in Resources :
       builders[b].listed[r] \in IF r \in builders[b].asked THEN 0 .. builders[b].used ELSE {0}
  /\ \A p \in DOMAIN built, r \in Resources :
       built[p].listed[r] \in IF builders[built[p].by].kind = "access" /\ r \in built[p].asked
                                THEN 1 .. built[p].used ELSE {0}

Inductive ==
  /\ TypeOK
  /\ UsedAsIssued
  /\ OneReference
  /\ OneTokenPerReference
  /\ ListedAsAsked
=============================================================================
