---- MODULE MCController ----
(***************************************************************************)
(* A small instance of Controller.  States reached through a stale read    *)
(* that the code is known to commit are not explored further.              *)
(***************************************************************************)
EXTENDS Controller
====
