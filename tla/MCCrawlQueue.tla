---------------------------- MODULE MCCrawlQueue ----------------------------
(***************************************************************************)
(* Instances of CrawlQueue for TLC.                                        *)
(*                                                                         *)
(* Questions about different kinds of jobs are put to one run: each world  *)
(* is a set of jobs, and in a behaviour the jobs of the other worlds are   *)
(* deleted from the start.                                                 *)
(***************************************************************************)
EXTENDS CrawlQueueProps, TLC

CONSTANTS Worlds, MCPagesOf, w1, w2

PageOwner == [p \in Pages |-> CHOOSE j \in Jobs : p \in MCPagesOf[j]]

(* Two pages of a crawl have one dedup key.                                *)
AliasKeys == [p \in Pages |-> IF p = "c3" THEN "c2" ELSE p]

(* A crawl with a webhook, one with a delay, and a batch.                  *)
JobPages ==
    [j \in Jobs |-> CASE j = "hooked" -> {"h1", "h2"}
                      [] j = "delayed" -> {"d1", "d2", "d3"}
                      [] j = "batch" -> {"b1", "b2", "b3"}]
JobLimit == [j \in Jobs |-> Cardinality(MCPagesOf[j])]
JobDepth == [j \in Jobs |-> IF j \in {"hooked", "delayed"} THEN 1 ELSE 0]
JobCap == [j \in Jobs |-> IF j = "hooked" THEN 2 ELSE 1]

(* One job of its own pages.                                               *)
AllPages == [j \in Jobs |-> Pages]
OwnKeys == [p \in Pages |-> p]
Zero == [j \in Jobs |-> 0]
One == [j \in Jobs |-> 1]
Two == [j \in Jobs |-> 2]
Three == [j \in Jobs |-> 3]

WorkerSymmetry == Permutations(Workers)

MCInit ==
    /\ \E world \in Worlds :
          status = [j \in Jobs |-> IF j \in world THEN "absent" ELSE "deleted"]
    /\ Untouched

MCSpec == MCInit /\ [][Next]_vars
=============================================================================
