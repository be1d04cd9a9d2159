---- MODULE MCMulticast ----
EXTENDS Multicast
====
