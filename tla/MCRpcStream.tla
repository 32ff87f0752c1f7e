---------------------------- MODULE MCRpcStream ----------------------------
(* Module RpcStream on short strings and greetings of several lengths, for TLC. *)
EXTENDS RpcStream

MCNames     == { << >>, <<7, 0, 19>> }
MCHello     == <<3, 1, 4>>
MCGreetings == { MCHello, <<3, 1, 5>>, <<3, 1>>, <<3, 1, 4, 1>>, << >> }
=============================================================================
