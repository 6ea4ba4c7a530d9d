--------------------------- MODULE CacheRegister ---------------------------
(***************************************************************************)
(* What the publisher promises: the cache of one author and channel is a   *)
(* register that holds an entry map, and a publish is one atomic           *)
(* read-modify-write of it that adds entries and keeps those it finds.     *)
(***************************************************************************)
EXTENDS CacheData

VARIABLE cache    \* the entry map a client sees

NewEntries(c) ==
  [n \in c.paths \cup {CacheInfoName} |->
     IF n = CacheInfoName THEN CacheInfo ELSE NarInfo(n, c)]

Init == cache = EmptyMap

Publish(c) ==
  /\ ~c.dry
  /\ cache' = Merge(cache, NewEntries(c))

Next == \E c \in Configs : Publish(c)

Spec == Init /\ [][Next]_cache
=============================================================================
