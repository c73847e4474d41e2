------------------------------ MODULE ValuesMC ------------------------------
(* TokenBuilders and Encodings on small instances: a behaviour makes tokens, or looks *)
(* at one input of the encodings.                                                     *)
EXTENDS TokenBuilders, Encodings

\* A charge that is less than the lifetime amount, and times that differ.
SomeOffers ==
  {[lifetime |-> 120, charge |-> 10, expires |-> Unset, effective |-> Unset],
   [lifetime |-> 120, charge |-> Unset, expires |-> 2, effective |-> 1]}

Texts(S, n) == UNION {[1 .. m -> S] : m \in 0 .. n}

\* Up to four bytes, the boundary ones; longer runs of one byte after some zeros, up to
\* a SHA-256 hash and one byte more; and up to four digits.
SomeInputs ==
  [kind : {"bytes"},
   text : Texts({0, 1, 57, 58, 255}, 4) \cup
            {[i \in 1 .. n |-> IF i <= z THEN 0 ELSE b] :
               n \in {8, 20, 33}, z \in {0, 5}, b \in {1, 255}}]
  \cup [kind : {"digits"}, text : Texts({0, 1, 5, 57, NotADigit}, 4)]

ValuesInit == Init /\ EncodingsInit

ValuesSpec ==
  /\ ValuesInit
  /\ [][input = NoInput /\ Next /\ UNCHANGED input]_<<vars, input>>
=============================================================================
