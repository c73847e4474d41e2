----------------------------- MODULE KeyEngine -----------------------------
(***************************************************************************)
(* The keys of one member on one device, in either crypto engine: the token *)
(* engine over the in-memory key store, which keeps every key until the     *)
(* process ends, and the secure enclave engine over the keychain, which     *)
(* keeps one private key of a level, and every public key, for ever.        *)
(*                                                                          *)
(* Key pairs are numbered in the order of their generation.                 *)
(***************************************************************************)
EXTENDS Naturals, Sequences

CONSTANTS
  Engines,  \* the engines to consider: "token", "enclave"
  Levels,   \* key levels
  MaxTime   \* bound: the last time the clock shows

ASSUME KeyEngineAssumption ==
  /\ Engines \subseteq {"token", "enclave"}
  /\ MaxTime \in Nat

VARIABLES
  engine,     \* the application's choice
  pairs,      \* the key pairs generated so far: levels and expirations
  stored,     \* the pairs whose private key a lookup by level can find,
  verifiable, \* and those whose public key a lookup by id can find
  now

engineVars == <<engine, pairs, stored, verifiable, now>>

\* The clock does not get past MaxTime.
Never == MaxTime
NoKey == 0

EngineTypeOK ==
  /\ engine \in Engines
  /\ pairs \in Seq([level : Levels, expires : 0 .. Never])
  /\ stored \subseteq 1 .. Len(pairs)
  /\ verifiable \subseteq 1 .. Len(pairs)
  /\ now \in 0 .. MaxTime

EngineInit ==
  /\ engine \in Engines
  /\ pairs = <<>>
  /\ stored = {}
  /\ verifiable = {}
  /\ now = 0

New == Len(pairs) + 1
OfLevel(l) == {k \in stored : pairs[k].level = l}
Expired(k) == pairs[k].expires < now

\* The keys a signature of level l may be made with.  The store's dictionary has
\* no order; the keychain does not look at the expiration of a private key.
Lookup(l) ==
  IF engine = "token" THEN {k \in OfLevel(l) : ~Expired(k)} ELSE OfLevel(l)

\* No other pair of its level was generated later.
Newest(k) == \A j \in 1 .. Len(pairs) : pairs[j].level = pairs[k].level => j <= k

\* What a generation gets to before it fails or the process ends: the old private
\* key is deleted, the new one created, and its public key saved under its id.
Progress == {"deleted", "created", "saved"}

\* Mutant: nothing is deleted, as with the in-memory key store.
KeepsAll(l) == stored

\* What is stored when a new pair of the level is about to be.
Kept(l) == IF engine = "token" THEN stored ELSE stored \ OfLevel(l)

\* Mutant: the public key goes with the private one.
GenerateForgetful(l, expires, reached) ==
  /\ engine = "token" => reached = "saved" /\ now <= expires
  /\ pairs' = Append(pairs, [level |-> l, expires |-> expires])
  /\ stored' = IF reached = "deleted" THEN Kept(l) ELSE Kept(l) \cup {New}
  /\ verifiable' = IF reached = "saved" THEN (verifiable \cap Kept(l)) \cup {New}
                   ELSE verifiable
  /\ UNCHANGED <<engine, now>>

\* generateKey:withExpiration: gives a key back only if it was saved.  The in-memory
\* store cannot fail, but raises for a key that has expired already.
Generate(l, expires, reached) ==
  /\ engine = "token" => reached = "saved" /\ now <= expires
  /\ pairs' = Append(pairs, [level |-> l, expires |-> expires])
  /\ stored' = IF reached = "deleted" THEN Kept(l) ELSE Kept(l) \cup {New}
  /\ verifiable' = IF reached = "saved" THEN verifiable \cup {New} ELSE verifiable
  /\ UNCHANGED <<engine, now>>

Given(reached) == IF reached = "saved" THEN New ELSE NoKey

\* The process ends: what is in memory is gone, the keychain stays.
Forget ==
  /\ stored' = IF engine = "token" THEN {} ELSE stored
  /\ verifiable' = IF engine = "token" THEN {} ELSE verifiable
  /\ UNCHANGED <<engine, pairs, now>>

Tick ==
  /\ now < MaxTime
  /\ now' = now + 1
  /\ UNCHANGED <<engine, pairs, stored, verifiable>>
=============================================================================
