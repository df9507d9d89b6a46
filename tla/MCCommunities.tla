--------------------------- MODULE MCCommunities ---------------------------
(***************************************************************************)
(* A small instance of Communities: a page holds two tags, so that the      *)
(* scroll of three takes two pages; the rebuild starts with one tag or with *)
(* three; 1 and 3 alone cannot be clustered.  The first account is noise.   *)
(***************************************************************************)
EXTENDS Communities

Tags == 1 .. 3
Accounts == 1 .. 2
TagSets == {{3}, {1, 2, 3}}
OneAccount == {2}
Themes == {<<1, 1, 2>>}
OneNoise == {<<0, 1>>}
=============================================================================
