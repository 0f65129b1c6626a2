------------------------------ MODULE MCSession ------------------------------
EXTENDS Session

CONSTANTS r1, r2, l1, l2, g1

(* Who meets whom: a login and a request refresh one token; a game's token  *)
(* is asked for while the account's is refreshed, or while a login ends.    *)
LoginCast == {r1, l1, LogOut}
GameCast == {r1, g1}
Meetings == {LoginCast, GameCast}
AllCasts == {Proc}
==============================================================================
