---- MODULE MCSelectServer ----
(* Two connections, one of each kind. *)
EXTENDS SelectServer
====
