---- MODULE MCSession ----
(* One host, and two launchers that join or spectate in any order. *)
EXTENDS Session
====
