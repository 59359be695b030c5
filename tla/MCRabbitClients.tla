---------------------------- MODULE MCRabbitClients -----------------------------
(* RabbitClients on a small instance.                                           *)
EXTENDS RabbitClients, TLC
==================================================================================
