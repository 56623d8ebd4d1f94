---------------------------- MODULE MCPrivileges ----------------------------
(* Instances of Privileges for TLC: groups and tables of one document.     *)
EXTENDS Privileges
=============================================================================
