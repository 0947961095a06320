--------------------------- MODULE MCRabbitQuery ---------------------------
(* A gateway without domains and two processes, one of which serves both   *)
(* domains and asks itself.                                                *)
EXTENDS RabbitQuery, TLC

CONSTANTS gateway, account, both, accounts, stock, balance, missing, item, own

MCServes == (gateway :> {}) @@ (account :> {accounts}) @@ (both :> {accounts, stock})
MCAsker == (balance :> gateway) @@ (missing :> gateway) @@ (item :> account) @@ (own :> both)
MCDomainOf ==
    (balance :> accounts) @@ (missing :> accounts) @@ (item :> stock) @@ (own :> stock)
=============================================================================
