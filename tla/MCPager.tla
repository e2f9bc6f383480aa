------------------------------ MODULE MCPager ------------------------------
(* PagerSystem on small instances. *)
EXTENDS PagerSystem, TLC

Symmetry == Permutations(Client) \cup Permutations(Thread)

(* The translator's calls, for the whole object. *)
Calls(names, waits) == [name : names, range : {<<0, NPages>>}, wait : waits]

NoCalls == {}
SyncWait == Calls({"sync"}, {TRUE})
Returning == Calls({"sync", "return", "shutdown"}, {TRUE}) \cup Calls({"return"}, {FALSE})
EveryCall == Calls({"sync", "return", "flush"}, BOOLEAN) \cup Calls({"shutdown"}, {TRUE})

(* pager_sync of everything, pager_return_some of the second page, or the  *)
(* end of the pager.                                                       *)
SomeCalls == Calls({"sync", "shutdown"}, {TRUE})
               \cup [name : {"return"}, range : {<<1, 1>>}, wait : {TRUE}]

AnyLock == BOOLEAN
ReadWrite == {FALSE}
=============================================================================
