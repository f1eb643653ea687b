---------------------------- MODULE MC_BgpWire ----------------------------
EXTENDS BgpWire

\* a KEEPALIVE (Len 19, type 4) and an UPDATE with no withdrawn routes and
\* no attributes (Len 23, type 2: four zero body bytes)
MCKeepalive == [len |-> 19, type |-> 4, body |-> 0]
MCUpdate == [len |-> 23, type |-> 2, body |-> 4]
MCSent == << MCKeepalive, MCUpdate >>

\* a peer whose header claims Len 18, shorter than a header
MCSentShortLen == << [len |-> 18, type |-> 4, body |-> 0] >>
====
