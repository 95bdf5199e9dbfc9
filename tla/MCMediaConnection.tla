-------------------------- MODULE MCMediaConnection --------------------------
EXTENDS MediaConnection
====
