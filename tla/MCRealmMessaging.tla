-------------------------- MODULE MCRealmMessaging --------------------------
EXTENDS RealmMessaging

\* The first namespace, or none.
OneSpaceOrNone == {CHOOSE s \in Spaces : TRUE, NoSpace}
=============================================================================
