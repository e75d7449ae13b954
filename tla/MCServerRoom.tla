---------------------------- MODULE MCServerRoom ----------------------------
(* Four people, two stories and three cards.                                *)
EXTENDS ServerRoom

CONSTANTS ann, bob, cas, dee, login, search, nobody

MCWinner == {ann, bob, cas, dee}
MCStory == {login, search}
MCPoints == {1, 5, 8}
=============================================================================
