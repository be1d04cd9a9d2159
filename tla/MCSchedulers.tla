---- MODULE MCSchedulers ----
EXTENDS Schedulers
====
