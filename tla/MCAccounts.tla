----------------------------- MODULE MCAccounts -----------------------------
(* Instances of Accounts for TLC.                                          *)
EXTENDS Accounts

NoneOrAdmin == {<< >>, <<"ADMIN">>}
AdminLast == {<<"ADMIN">>, <<"OTHER", "ADMIN">>}
=============================================================================
