--------------------------- MODULE MemberUpdateMC ---------------------------
(* MemberUpdate on small instances. *)
EXTENDS MemberUpdate

CONSTANTS d1, d2, k1, k2, k3, upper, lower, other, bank, none

SmallLevels == {"Privileged"}
AllPrivileged == [k \in Keys |-> "Privileged"]

\* A device and a second one that was provisioned but is not approved yet.
OneKeyEach == [d \in Devices |-> IF d = d1 THEN {k1} ELSE {k2}]
FirstApproved == {k1}

\* Every key but the first device's own.
NewKeys == {{k} : k \in Keys \ {k1}}
OwnKey == {{k1}}
EachKey == {{k} : k \in Keys}

\* Two spellings of one alias, and another alias.
Spelling == [v \in Spellings |-> IF v = upper THEN lower ELSE v]

Named(v, r) == [value |-> v, realm |-> r]

\* Given with and without a realm, in either spelling, or beside one of a foreign
\* realm.
OfAPartner ==
  {{Named(lower, none)}, {Named(upper, bank)}, {Named(lower, none), Named(upper, other)}}
\* Two spellings, together or not, and a realm.
OfNoPartner ==
  {{Named(lower, none)}, {Named(upper, none), Named(lower, none)}, {Named(lower, bank)}}
=============================================================================
