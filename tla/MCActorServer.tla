--------------------------- MODULE MCActorServer ---------------------------
(* Two connections, one story, two cards.  AnyWinner is for clients that    *)
(* send what they like: two names, one of them the name of a session that   *)
(* has not entered.  CliWinner is for clients as winner_cli, with names of  *)
(* their own (OwnName) or one name for both (OneName).                      *)
EXTENDS ActorServer

CONSTANTS ann, bob, invalid, c1, c2, t

AnyWinner == {ann, invalid}
CliWinner == {ann, bob, invalid}
MCSession == {c1, c2}
MCStoryId == {1}
MCTitle == {t}
MCStory == {[id |-> 1, title |-> t]}
MCPoints == {1, 8}
NoSession == {}
OneName == [s \in MCSession |-> ann]
OwnName == [s \in MCSession |-> IF s = c1 THEN ann ELSE bob]
=============================================================================
