---- MODULE MCWatchPage ----
EXTENDS WatchPage
====
