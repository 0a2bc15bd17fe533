-------------------------------- MODULE Lists --------------------------------
(***************************************************************************)
(* Lists that the code builds by appending under a condition, and the text *)
(* that is empty.                                                          *)
(***************************************************************************)
EXTENDS Naturals, Sequences

NoText == ""

When(condition, list) == IF condition THEN list ELSE <<>>

\* The elements of s at the positions I.
Kept(s, I) ==
  LET kept[n \in 0 .. Len(s)] == IF n = 0 THEN <<>> ELSE kept[n - 1] \o When(n \in I, <<s[n]>>)
  IN  kept[Len(s)]

Only(s, S) == Kept(s, {i \in DOMAIN s : s[i] \in S})

\* Each element once, where it came first.
Distinct(s) == Kept(s, {i \in DOMAIN s : \A j \in 1 .. i - 1 : s[j] # s[i]})
=============================================================================
