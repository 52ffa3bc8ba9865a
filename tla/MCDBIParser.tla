---------------------------- MODULE MCDBIParser -----------------------------
(* DBIParser with what the clients of each configuration report. *)
EXTENDS DBIParser, TLC

CONSTANTS c1, c2

(* Two kernels that can meet, and a second client with an empty one. *)
TwoClients == (c1 :> <<2, 1>>) @@ (c2 :> <<0>>)
OneClient == c1 :> <<1, 1>>
=============================================================================
