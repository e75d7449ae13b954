------------------------ MODULE MCServerConnections ------------------------
(* Two connections, of which one's client may break off or stop reading,    *)
(* two names, a story and two cards.                                        *)
EXTENDS ServerConnections

CONSTANTS ann, bob, c1, c2, login, nobody

MCWinner == {ann, bob}
MCConn == {c1, c2}
MCSteady == {c1}
MCStory == {login}
MCPoints == {1, 8}
=============================================================================
