-------------------------- MODULE MCPackageContext --------------------------
(* The layers of run_scan that share a context: static analysis and Bandit *)
(* read the tree, scoring reads the project first; static analysis is the  *)
(* one that lets unexpected exceptions escape.                             *)
EXTENDS PackageContext

CONSTANTS static, bandit, scoring

MCReaders == {static, bandit}
MCScorers == {scoring}
MCGuarded == {bandit, scoring}
=============================================================================
