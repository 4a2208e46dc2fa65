--------------------------- MODULE MCAccessPolicy ---------------------------
(* Bounds for TLC: one configured administrator, a caller it may grant      *)
(* subtrees to, and two nested directories beside a sibling whose name is    *)
(* an extension of theirs.                                                   *)
EXTENDS AccessPolicy

Team == <<"team">>
Squad == <<"team", "squad">>
Legacy == <<"team-legacy">>

MCAddresses == {Team \o <<"x">>, Squad \o <<"y">>, Legacy \o <<"z">>}

Rule(prefix, who, write, admin) ==
  [prefix |-> prefix, principal |-> who, write |-> write, admin |-> admin]

MCOffered ==
  {Rule(Team, "ada", FALSE, TRUE), Rule(Squad, "ada", FALSE, TRUE),
   Rule(Squad, Everybody, TRUE, FALSE), Rule(Legacy, Everybody, FALSE, FALSE)}
=============================================================================
