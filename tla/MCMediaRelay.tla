---------------------------- MODULE MCMediaRelay ----------------------------
EXTENDS MediaRelay
CONSTANTS a, b
====
