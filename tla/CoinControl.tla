----------------------------- MODULE CoinControl -----------------------------
(***************************************************************************)
(* Coin control in NunchukWalletDb (src/unnamed/part_001 1308-1852): the   *)
(* TAGS and COLLECTIONS tables, their join tables COINTAGS and             *)
(* COINCOLLECTIONS, COININFO, and the export/import bundle.                *)
(*                                                                         *)
(* A coin id ("txid:vout") is a model value; colours and collection        *)
(* settings are left out (no statement reads them back into a decision).   *)
(* Each function runs as one step: the caller holds the storage lock and   *)
(* statements of one call are not interleaved with another's.  A call that *)
(* changes no row (duplicate name, unknown id) is a stuttering step.       *)
(* The module is shown to implement CoinControlAbstract.                   *)
(***************************************************************************)
EXTENDS Naturals, FiniteSets, FiniteSetsExt, TLC

CONSTANTS
  Coins,      \* coin ids
  Names,      \* tag and collection names
  Memos,      \* memo values, "" the empty one
  MaxId,      \* highest row id the model lets SQLite hand out
  Bundles,    \* coin-control bundles another device may have exported
  StaleIds    \* whether the app may pass an id it read before a delete

ASSUME "" \in Memos /\ MaxId \in Nat /\ StaleIds \in BOOLEAN

VARIABLES tags, cointags, colls, coincolls, coininfo

vars == <<tags, cointags, colls, coincolls, coininfo>>

Ids == 1..MaxId

(***************************************************************************)
(* Helpers.                                                                *)
(***************************************************************************)
\* INTEGER PRIMARY KEY without AUTOINCREMENT: one more than the largest
\* rowid in the table, so the id of a deleted last row is handed out again.
NextRowId(t) == IF DOMAIN t = {} THEN 1 ELSE Max(DOMAIN t) + 1

\* NAME is UNIQUE.
NameTaken(t, n) == \E id \in DOMAIN t : t[id] = n

\* GetCoinTags / GetCoinCollections: the ids of the live rows.
GetCoinTags == DOMAIN tags
GetCoinCollections == DOMAIN colls

\* The ids the app passes: those a getter returned, which are still live
\* unless the app kept one across a delete.
CallerIds(live) == IF StaleIds THEN Ids ELSE live

\* GetCoinByTag: the COIN of every COINTAGS row with that TAGID.
GetCoinByTag(id) == {c \in Coins : <<c, id>> \in cointags}

\* GetCoinInCollection: the COIN of every COINCOLLECTIONS row with that
\* COLLECTIONID.
GetCoinInCollection(id) == {c \in Coins : <<c, id>> \in coincolls}

Without(t, id) == [i \in DOMAIN t \ {id} |-> t[i]]

(***************************************************************************)
(* Tags.                                                                   *)
(***************************************************************************)
\* CreateCoinTag: INSERT INTO TAGS; a taken name throws TAG_EXISTS.
CreateCoinTag(n) ==
  /\ ~NameTaken(tags, n)
  /\ NextRowId(tags) <= MaxId
  /\ tags' = tags @@ (NextRowId(tags) :> n)
  /\ UNCHANGED <<cointags, colls, coincolls, coininfo>>

\* UpdateCoinTag: UPDATE TAGS SET NAME WHERE ID.
UpdateCoinTag(id, n) ==
  /\ id \in DOMAIN tags /\ ~NameTaken(tags, n)
  /\ tags' = [tags EXCEPT ![id] = n]
  /\ UNCHANGED <<cointags, colls, coincolls, coininfo>>

\* Mutant of DeleteCoinTag: the COINTAGS rows are left behind.
DeleteCoinTagKeepLinks(id) ==
  /\ id \in DOMAIN tags
  /\ tags' = Without(tags, id)
  /\ UNCHANGED <<cointags, colls, coincolls, coininfo>>

\* DeleteCoinTag: DELETE FROM TAGS, then DELETE FROM COINTAGS WHERE TAGID.
DeleteCoinTag(id) ==
  /\ id \in DOMAIN tags
  /\ tags' = Without(tags, id)
  /\ cointags' = {l \in cointags : l[2] # id}
  /\ UNCHANGED <<colls, coincolls, coininfo>>

\* AddToCoinTag: INSERT OR IGNORE INTO COINTAGS; TAGID is not checked
\* against TAGS.
AddToCoinTag(id, c) ==
  /\ <<c, id>> \notin cointags
  /\ cointags' = cointags \cup {<<c, id>>}
  /\ UNCHANGED <<tags, colls, coincolls, coininfo>>

RemoveFromCoinTag(id, c) ==
  /\ <<c, id>> \in cointags
  /\ cointags' = cointags \ {<<c, id>>}
  /\ UNCHANGED <<tags, colls, coincolls, coininfo>>

(***************************************************************************)
(* Collections: the same statements over COLLECTIONS/COINCOLLECTIONS.      *)
(***************************************************************************)
CreateCoinCollection(n) ==
  /\ ~NameTaken(colls, n)
  /\ NextRowId(colls) <= MaxId
  /\ colls' = colls @@ (NextRowId(colls) :> n)
  /\ UNCHANGED <<tags, cointags, coincolls, coininfo>>

UpdateCoinCollection(id, n) ==
  /\ id \in DOMAIN colls /\ ~NameTaken(colls, n)
  /\ colls' = [colls EXCEPT ![id] = n]
  /\ UNCHANGED <<tags, cointags, coincolls, coininfo>>

DeleteCoinCollection(id) ==
  /\ id \in DOMAIN colls
  /\ colls' = Without(colls, id)
  /\ coincolls' = {l \in coincolls : l[2] # id}
  /\ UNCHANGED <<tags, cointags, coininfo>>

AddToCoinCollection(id, c) ==
  /\ <<c, id>> \notin coincolls
  /\ coincolls' = coincolls \cup {<<c, id>>}
  /\ UNCHANGED <<tags, cointags, colls, coininfo>>

RemoveFromCoinCollection(id, c) ==
  /\ <<c, id>> \in coincolls
  /\ coincolls' = coincolls \ {<<c, id>>}
  /\ UNCHANGED <<tags, cointags, colls, coininfo>>

(***************************************************************************)
(* COININFO.                                                               *)
(***************************************************************************)
\* INSERT (memo, locked) ON CONFLICT(COIN) DO UPDATE SET field: a new row
\* takes the defaults for the other column.
SetCoinInfo(c, field, v) ==
  /\ coininfo' = IF c \in DOMAIN coininfo
                 THEN [coininfo EXCEPT ![c][field] = v]
                 ELSE coininfo @@ (c :> [[memo |-> "", locked |-> FALSE]
                                           EXCEPT ![field] = v])
  /\ UNCHANGED <<tags, cointags, colls, coincolls>>

UpdateCoinMemo(c, m) == SetCoinInfo(c, "memo", m)
LockCoin(c) == SetCoinInfo(c, "locked", TRUE)
UnlockCoin(c) == SetCoinInfo(c, "locked", FALSE)

(***************************************************************************)
(* Export and import.                                                      *)
(***************************************************************************)
\* ExportCoinControlData: every tag with GetCoinByTag, every collection
\* with GetCoinInCollection, and every COININFO row.
ExportCoinControlData ==
  [tags |-> [id \in GetCoinTags |-> [name |-> tags[id], coins |-> GetCoinByTag(id)]],
   collections |-> [id \in GetCoinCollections |->
                      [name |-> colls[id], coins |-> GetCoinInCollection(id)]],
   coininfo |-> coininfo]

\* The join rows a bundle's groups list.
BundleLinks(g) == UNION {{<<c, id>> : c \in g[id].coins} : id \in DOMAIN g}

\* ImportCoinControlData: ClearCoinControlData, then the bundle's tags with
\* their ids and coins, collections likewise, and its COININFO rows.
ImportCoinControlData(b) ==
  /\ tags' = [id \in DOMAIN b.tags |-> b.tags[id].name]
  /\ cointags' = BundleLinks(b.tags)
  /\ colls' = [id \in DOMAIN b.collections |-> b.collections[id].name]
  /\ coincolls' = BundleLinks(b.collections)
  /\ coininfo' = b.coininfo

(***************************************************************************)
(* Specification.                                                          *)
(***************************************************************************)
Init ==
  /\ tags = [id \in {} |-> ""]
  /\ cointags = {}
  /\ colls = [id \in {} |-> ""]
  /\ coincolls = {}
  /\ coininfo = [c \in {} |-> [memo |-> "", locked |-> FALSE]]

\* Import takes a bundle exported elsewhere or this wallet's own export.
Next ==
  \/ \E n \in Names : CreateCoinTag(n) \/ CreateCoinCollection(n)
  \/ \E id \in DOMAIN tags, n \in Names : UpdateCoinTag(id, n)
  \/ \E id \in DOMAIN colls, n \in Names : UpdateCoinCollection(id, n)
  \/ \E id \in DOMAIN tags : DeleteCoinTag(id)
  \/ \E id \in DOMAIN colls : DeleteCoinCollection(id)
  \/ \E c \in Coins :
       \/ \E id \in CallerIds(GetCoinTags) : AddToCoinTag(id, c) \/ RemoveFromCoinTag(id, c)
       \/ \E id \in CallerIds(GetCoinCollections) :
            AddToCoinCollection(id, c) \/ RemoveFromCoinCollection(id, c)
       \/ \E m \in Memos : UpdateCoinMemo(c, m)
       \/ LockCoin(c) \/ UnlockCoin(c)
  \/ \E b \in Bundles \cup {ExportCoinControlData} : ImportCoinControlData(b)

Spec == Init /\ [][Next]_vars

(***************************************************************************)
(* Refinement.                                                             *)
(***************************************************************************)
\* A join row whose group is gone is invisible: GetCoinByTag of a live id
\* is all the API shows.
LiveLinks(links, t) == {l \in links : l[2] \in DOMAIN t}

BundleView(b) ==
  [group |-> [k \in {"tag", "collection"} |->
                LET g == IF k = "tag" THEN b.tags ELSE b.collections
                IN [id \in DOMAIN g |-> g[id].name]],
   member |-> [k \in {"tag", "collection"} |->
                 IF k = "tag" THEN BundleLinks(b.tags) ELSE BundleLinks(b.collections)],
   info |-> b.coininfo]

Abs == INSTANCE CoinControlAbstract WITH
  Kinds <- {"tag", "collection"},
  Ids <- Ids,
  Bundles <- {BundleView(b) : b \in Bundles},
  group <- [k \in {"tag", "collection"} |-> IF k = "tag" THEN tags ELSE colls],
  member <- [k \in {"tag", "collection"} |->
               IF k = "tag" THEN LiveLinks(cointags, tags)
                            ELSE LiveLinks(coincolls, colls)],
  info <- coininfo

\* The coin-control tables implement what coin control promises: a new
\* tag or collection has no coins, a delete takes its links with it, an
\* import of this wallet's own export changes nothing, and every call is
\* one of the abstract operations or invisible.
CoinControlRefines == Abs!ASpec
====
