---------------------------- MODULE MCReversiGame -----------------------------
(* Instances of ReversiGame for TLC. *)
EXTENDS ReversiGame, TLC

CONSTANTS ann, bob

MCSize == <<3, 2>>
MCRequested == ann :> <<"p">> @@ bob :> <<"p">>

\* The first player leaves its turn to the bots.
MCMaxClicks == ann :> 0 @@ bob :> 1
=============================================================================
