---- MODULE MCWebSession ----
EXTENDS WebSession
====
