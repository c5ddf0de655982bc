------------------------------ MODULE MCNotify ------------------------------
(***************************************************************************)
(* Small instances of Notify: three attempts for the four of the code, and *)
(* backoffs that are shorter and longer than a job may run.                *)
(***************************************************************************)
EXTENDS Notify, TLC

MCBackoff == <<1, 2>>
Symmetric == Permutations(Message) \cup Permutations(Dest)
=============================================================================
