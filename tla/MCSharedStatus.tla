---------------------------- MODULE MCSharedStatus ----------------------------
(* Two connections, one or two signals in flight at a time, and the records *)
(* a restored session may be seeded from.                                   *)
EXTENDS SharedStatus

FreshOnly  == {NoSeed}
\* A record restored while it was waiting for an answer.
FreshOrWaiting == {NoSeed, <<Permission, CHOOSE d \in Details : TRUE>>}
SeededOnly == {<<Working, NoDetail>>}
===============================================================================
