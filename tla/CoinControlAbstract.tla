------------------------- MODULE CoinControlAbstract -------------------------
(***************************************************************************)
(* What coin control promises (spec sections 3 and 7): tags and            *)
(* collections are groups with an integer id and a unique name, coins are  *)
(* linked to groups through join tables, deleting a group removes its      *)
(* links and never a coin, a coin carries a memo and a lock flag, and an   *)
(* import replaces the whole coin-control state by a bundle at once.       *)
(***************************************************************************)
EXTENDS Naturals, FiniteSets, TLC

CONSTANTS Kinds, Coins, Names, Memos, Ids, Bundles

\* "" is the empty memo a new COININFO row gets.
ASSUME "" \in Memos

VARIABLES group,   \* group[k]: id -> name of the groups of kind k
          member,  \* member[k]: set of <<coin, id>> links to live groups
          info     \* coin -> [memo, locked]

avars == <<group, member, info>>

NameFree(k, n) == \A id \in DOMAIN group[k] : group[k][id] # n

AInit ==
  /\ group = [k \in Kinds |-> [id \in {} |-> CHOOSE n \in Names : TRUE]]
  /\ member = [k \in Kinds |-> {}]
  /\ info = [c \in {} |-> [memo |-> "", locked |-> FALSE]]

\* A new group takes an unused id and starts with no coins.
ACreate(k, n) ==
  /\ NameFree(k, n)
  /\ \E id \in Ids \ DOMAIN group[k] :
       group' = [group EXCEPT ![k] = @ @@ (id :> n)]
  /\ UNCHANGED <<member, info>>

ARename(k, id, n) ==
  /\ id \in DOMAIN group[k] /\ NameFree(k, n)
  /\ group' = [group EXCEPT ![k][id] = n]
  /\ UNCHANGED <<member, info>>

\* Deletion cascades to the join table only.
ADelete(k, id) ==
  /\ id \in DOMAIN group[k]
  /\ group' = [group EXCEPT ![k] = [i \in DOMAIN @ \ {id} |-> @[i]]]
  /\ member' = [member EXCEPT ![k] = {l \in @ : l[2] # id}]
  /\ UNCHANGED info

AAdd(k, id, c) ==
  /\ id \in DOMAIN group[k]
  /\ member' = [member EXCEPT ![k] = @ \cup {<<c, id>>}]
  /\ UNCHANGED <<group, info>>

ARemove(k, id, c) ==
  /\ member' = [member EXCEPT ![k] = @ \ {<<c, id>>}]
  /\ UNCHANGED <<group, info>>

\* Memo and lock of a coin are set independently of each other.
ASetInfo(c, field, v) ==
  /\ info' = IF c \in DOMAIN info
             THEN [info EXCEPT ![c][field] = v]
             ELSE info @@ (c :> [[memo |-> "", locked |-> FALSE] EXCEPT ![field] = v])
  /\ UNCHANGED <<group, member>>

\* A bundle: b.group[k] an id -> name function, b.member[k] its links,
\* b.info the coin annotations.  Import replaces everything at once.
AImport(b) ==
  /\ group' = b.group
  /\ member' = b.member
  /\ info' = b.info

ANext ==
  \/ \E k \in Kinds, n \in Names : ACreate(k, n)
  \/ \E k \in Kinds, id \in Ids, n \in Names : ARename(k, id, n)
  \/ \E k \in Kinds, id \in Ids : ADelete(k, id)
  \/ \E k \in Kinds, id \in Ids, c \in Coins : AAdd(k, id, c) \/ ARemove(k, id, c)
  \/ \E c \in Coins, m \in Memos : ASetInfo(c, "memo", m)
  \/ \E c \in Coins, b \in BOOLEAN : ASetInfo(c, "locked", b)
  \/ \E b \in Bundles : AImport(b)

ASpec == AInit /\ [][ANext]_avars
====
