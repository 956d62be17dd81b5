---------------------------- MODULE Environment ----------------------------
(***************************************************************************)
(* The environment of the application (Environment.cpp).  It belongs to    *)
(* all of its threads, and every program inherits it that is not given one *)
(* of its own.                                                             *)
(***************************************************************************)
EXTENDS Naturals

CONSTANTS
    Keys,       \* the names of variables, as numbers: a map is in their order
    Values,     \* what variables are set to
    Unset       \* what a variable is that is not set

ASSUME KeysAssumption  == Keys \subseteq Nat
ASSUME UnsetAssumption == Unset \notin Values

VARIABLE environ    \* environ[k]: the value of k, or Unset

\* An environment, or the variables a call is given.
Environments == [Keys -> Values \cup {Unset}]

EnvironmentInit == environ = [k \in Keys |-> Unset]

\* set(key, value): setenv replaces a value that is there.
Set(k, v) == environ' = [environ EXCEPT ![k] = v]

\* The variable that set(values) comes to next, of those it has still to set.
IsNext(k, keys) == k \in keys /\ \A j \in keys : k <= j
=============================================================================
