---- MODULE MCClickwheel ----
(* One button, and a wheel of six positions that reports steps of two.      *)
EXTENDS Clickwheel
====
