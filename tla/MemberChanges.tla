--------------------------- MODULE MemberChanges ---------------------------
(***************************************************************************)
(* What TKMember promises of the operations that change a member, and       *)
(* nothing of how: the member's keys and aliases change only as an          *)
(* application asked, each change in one step, at most once and not after   *)
(* one that its device asked for later; success is told of what took        *)
(* effect.  What an error was told of may take effect all the same.         *)
(***************************************************************************)
EXTENDS Naturals

CONSTANTS
  Ops,      \* operations, numbered in the order in which they are asked for
  Jobs,     \* what there is to ask for
  Keys,
  Aliases,
  Hash,     \* what an alias is known by
  Foreign,  \* aliases that are refused
  Serial,   \* whether each application awaits an answer before it goes on
  Nothing

VARIABLES
  keys,   \* the member's keys
  names,  \* the hashes of its aliases
  asked,  \* what each operation was asked to do
  took,   \* those that took effect
  told    \* what the applications were told

vars == <<keys, names, asked, took, told>>

Init ==
  /\ keys \in SUBSET Keys
  /\ names \in SUBSET {Hash[a] : a \in Aliases}
  /\ asked = [o \in Ops |-> Nothing]
  /\ took = {}
  /\ told = [o \in Ops |-> "nothing"]

SameDevice(o, p) ==
  asked[o] # Nothing /\ asked[p] # Nothing /\ asked[o].device = asked[p].device

Refused(o) == asked[o].kind = "addAliases" /\ asked[o].aliases \cap Foreign # {}

Ask(o) ==
  /\ asked[o] = Nothing
  /\ \E j \in Jobs : asked' = [asked EXCEPT ![o] = j]
  /\ \A p \in Ops : SameDevice(o, p)' /\ p # o => p < o /\ (Serial => told[p] # "nothing")
  /\ told' = IF Refused(o)' THEN [told EXCEPT ![o] = "error"] ELSE told
  /\ UNCHANGED <<keys, names, took>>

\* The keys and aliases of a change are added or removed together; of the keys that
\* were not stored some are removed.
Changed(o) ==
  LET j == asked[o]
      hashes == {Hash[a] : a \in j.aliases}
  IN  \/ j.kind = "approveKeys" /\ keys' = keys \cup j.keys /\ UNCHANGED names
      \/ j.kind = "removeKeys" /\ keys' = keys \ j.keys /\ UNCHANGED names
      \/ /\ j.kind = "removeNonStoredKeys"
         /\ \E gone \in SUBSET Keys : gone \cap j.keys = {} /\ keys' = keys \ gone
         /\ UNCHANGED names
      \/ j.kind = "addAliases" /\ names' = names \cup hashes /\ UNCHANGED keys
      \/ j.kind = "removeAliases" /\ names' = names \ hashes /\ UNCHANGED keys

TakeEffect(o) ==
  /\ asked[o] # Nothing
  /\ ~Refused(o)
  /\ o \notin took
  /\ told[o] # "success"
  /\ Serial => \A p \in took : SameDevice(o, p) => p < o
  /\ took' = took \cup {o}
  /\ Changed(o)
  /\ UNCHANGED <<asked, told>>

\* There may be no key to remove that is not stored, and reading changes nothing.
NothingToDo(o) == asked[o].kind \in {"removeNonStoredKeys", "getKeys", "getAliases"}

Answer(o) ==
  /\ asked[o] # Nothing
  /\ told[o] = "nothing"
  /\ \/ told' = [told EXCEPT ![o] = "error"]
     \/ (o \in took \/ NothingToDo(o)) /\ told' = [told EXCEPT ![o] = "success"]
  /\ UNCHANGED <<keys, names, asked, took>>

Next == \E o \in Ops : Ask(o) \/ TakeEffect(o) \/ Answer(o)

Spec == Init /\ [][Next]_vars
=============================================================================
