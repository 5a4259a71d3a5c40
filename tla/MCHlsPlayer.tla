---- MODULE MCHlsPlayer ----
EXTENDS HlsPlayer
====
