----------------------------- MODULE Descriptor -----------------------------
(***************************************************************************)
(* Output descriptors of src/src/dto/sandboxgroup.cpp: the descriptor      *)
(* GetDescriptorForSigners writes for a wallet (with GetMusigDescriptor    *)
(* and GetScriptpathDescriptor for taproot multisig), and the wallet       *)
(* ParseDescriptors and ParseSignerString read back from it.               *)
(*                                                                         *)
(* A descriptor is a sequence of tokens: the words and punctuation the     *)
(* code writes ("wsh", "(", ",", ...), one token per character of a        *)
(* derivation path ("m", "/", "4", "8", "h", "'"), and one token for each  *)
(* fingerprint, xpub, public key, key path "/0/*" and checksum.  Prefixes, *)
(* find(")"), boost::split and the signer regex work on tokens exactly as  *)
(* they do on the characters.  Signer i has fingerprint FPS[i], xpub       *)
(* XPUBS[i] and public key PUBS[i]; a key is the only part of a descriptor *)
(* of 20 characters or more.  The key path is the EXTERNAL_ALL one that    *)
(* GetWalletId and the descriptor import and export strings use.           *)
(*                                                                         *)
(* The state is the last wallet the application exported (GetWalletId),   *)
(* its descriptor, and the wallet ParseJSONDescriptors read back from it.  *)
(***************************************************************************)
EXTENDS Integers, Sequences, SequencesExt, FiniteSets

CONSTANT MaxSigners   \* signers of the largest wallet checked (at most 6)

ASSUME MaxSigners \in 1..6

VARIABLES
  exported,    \* the wallet whose descriptor the application wrote
  descriptor,  \* that descriptor
  imported     \* [done]: whether it was read back, [r]: what was read

dvars == <<exported, descriptor, imported>>

FPS == <<"f1", "f2", "f3", "f4", "f5", "f6">>
XPUBS == <<"xpub1", "xpub2", "xpub3", "xpub4", "xpub5", "xpub6">>
PUBS == <<"02pk1", "02pk2", "02pk3", "02pk4", "02pk5", "02pk6">>
KeyToks == {XPUBS[i] : i \in 1..6} \cup {PUBS[i] : i \in 1..6}
NUMBERS == <<"1", "2", "3", "4", "5", "6">>

AddressTypes == {"LEGACY", "NESTED_SEGWIT", "NATIVE_SEGWIT", "TAPROOT"}
WalletTypes == {"SINGLE_SIG", "MULTI_SIG", "ESCROW"}

(***************************************************************************)
(* Writing.                                                                *)
(***************************************************************************)
\* FormalizePath: drop a leading "m", write hardened steps with ', and
\* start with "/" unless empty.
FormalizePath(p) ==
  LET noM == IF p # <<>> /\ Head(p) = "m" THEN Tail(p) ELSE p
      rs == [i \in DOMAIN noM |-> IF noM[i] = "h" THEN "'" ELSE noM[i]]
  IN IF rs # <<>> /\ Head(rs) # "/" THEN <<"/">> \o rs ELSE rs

\* GetKeyPath(EXTERNAL_ALL, _).
KeyPath == <<"/0/*">>

\* AddChecksum: "#" and the checksum of the text.
AddChecksum(d) == d \o <<"#chk">>

\* The key expression of a signer in GetDescriptorForSigners' loop: an
\* escrow key is its public key without key path, others the xpub.
KeyExpr(s, wt) ==
  <<"[", FPS[s.id]>> \o FormalizePath(s.path) \o <<"]">>
    \o IF wt = "ESCROW" THEN <<PUBS[s.id]>> ELSE <<XPUBS[s.id]>> \o KeyPath

\* The items of a list joined with commas.
Joined(items) ==
  FlattenSeq([i \in DOMAIN items |-> IF i = 1 THEN items[i]
                                     ELSE <<",">> \o items[i]])

Call(f, args) == <<f, "(">> \o Joined(args) \o <<")">>

\* GetScriptpathDescriptor: pair the nodes into {a,b} branches, an odd last
\* node passing up alone, until one node is left.
RECURSIVE GetScriptpathDescriptor(_)
GetScriptpathDescriptor(nodes) ==
  IF Len(nodes) = 1 THEN nodes[1]
  ELSE GetScriptpathDescriptor(
         [j \in 1..((Len(nodes) + 1) \div 2) |->
            IF 2 * j > Len(nodes) THEN nodes[2 * j - 1]
            ELSE <<"{">> \o nodes[2 * j - 1] \o <<",">> \o nodes[2 * j] \o <<"}">>])

\* std::prev_permutation on a vector<bool> (false < true): the previous
\* arrangement in lexicographic order, or ok = FALSE when v is the first.
PrevPermutation(v) ==
  LET n == Len(v)
      Is == {i \in 1..(n - 1) : v[i] /\ ~v[i + 1]}
  IN IF Is = {} THEN [ok |-> FALSE, v |-> Reverse(v)]
     ELSE LET i == Max(Is)
              j == Max({x \in (i + 1)..n : ~v[x]})
              w == [v EXCEPT ![i] = v[j], ![j] = v[i]]
          IN [ok |-> TRUE,
              v |-> SubSeq(w, 1, i) \o Reverse(SubSeq(w, i + 1, n))]

\* The musig() lambda: the keys v selects, in key order.
Musig(keys, v) ==
  Call("musig", [k \in 1..Cardinality({i \in DOMAIN v : v[i]}) |->
                   keys[CHOOSE i \in DOMAIN v :
                          v[i] /\ Cardinality({x \in 1..i : v[x]}) = k]])

\* The while (prev_permutation) loop: one pk(musig()) leaf per remaining
\* arrangement.
RECURSIVE MusigLeaves(_, _)
MusigLeaves(keys, v) ==
  LET p == PrevPermutation(v)
  IN IF ~p.ok THEN <<>>
     ELSE <<Call("pk", <<Musig(keys, p.v)>>)>> \o MusigLeaves(keys, p.v)

\* Mutant: the leaves are collected in a do-while loop, so the key-path
\* arrangement is also a leaf.
GetMusigDescriptorDoWhile(keys, m) ==
  LET n == Len(keys)
      v0 == [i \in 1..n |-> i <= m]
  IN IF n = m THEN <<"tr", "(">> \o Musig(keys, v0) \o <<")">>
     ELSE <<"tr", "(">> \o Musig(keys, v0) \o <<",">>
            \o GetScriptpathDescriptor(<<Call("pk", <<Musig(keys, v0)>>)>>
                                       \o MusigLeaves(keys, v0)) \o <<")">>

\* GetMusigDescriptor: the first m keys on the key path; with m < n every
\* other m-of-n combination as a script leaf.
GetMusigDescriptor(keys, m) ==
  LET n == Len(keys)
      v0 == [i \in 1..n |-> i <= m]
  IN IF n = m THEN <<"tr", "(">> \o Musig(keys, v0) \o <<")">>
     ELSE <<"tr", "(">> \o Musig(keys, v0) \o <<",">>
            \o GetScriptpathDescriptor(MusigLeaves(keys, v0)) \o <<")">>

\* GetDescriptorForSigners(signers, m, EXTERNAL_ALL, a, w, -1, sorted).
GetDescriptorForSigners(x) ==
  LET keys == [i \in DOMAIN x.signers |-> KeyExpr(x.signers[i], x.wt)]
      a == x.at
      n == Len(keys)
      single == CASE a = "NESTED_SEGWIT" -> <<"sh", "(", "wpkh", "(">> \o keys[1] \o <<")", ")">>
                  [] a = "LEGACY" -> Call("pkh", <<keys[1]>>)
                  [] a = "TAPROOT" -> Call("tr", <<keys[1]>>)
                  [] OTHER -> Call("wpkh", <<keys[1]>>)
      multi == Call(IF x.sorted THEN "sortedmulti" ELSE "multi",
                    <<<<NUMBERS[x.m]>>>> \o keys)
      multiA == Call("tr", <<Call("musig", SubSeq(keys, 1, x.m)),
                             Call(IF x.sorted THEN "sortedmulti_a" ELSE "multi_a",
                                  <<<<NUMBERS[x.m]>>>> \o keys)>>)
      desc == CASE x.wt = "SINGLE_SIG" -> single
                [] a = "TAPROOT" -> IF n <= 5 \/ n = x.m
                                    THEN GetMusigDescriptor(keys, x.m) ELSE multiA
                [] a = "NESTED_SEGWIT" -> Call("sh", <<Call("wsh", <<multi>>)>>)
                [] a = "LEGACY" -> Call("sh", <<multi>>)
                [] OTHER -> Call("wsh", <<multi>>)
  IN AddChecksum(desc)

(***************************************************************************)
(* Reading.                                                                *)
(***************************************************************************)
\* PREFIX_MATCHER, in std::map (key) order.  "tr(50929b" starts with the
\* unspendable key of miniscript wallets, which no key here begins with.
PREFIX_MATCHER == <<
  [p |-> <<"pkh", "(">>, a |-> "LEGACY", w |-> "SINGLE_SIG"],
  [p |-> <<"sh", "(", "sortedmulti", "(">>, a |-> "LEGACY", w |-> "MULTI_SIG"],
  [p |-> <<"sh", "(", "wpkh", "(">>, a |-> "NESTED_SEGWIT", w |-> "SINGLE_SIG"],
  [p |-> <<"sh", "(", "wsh", "(", "sortedmulti", "(">>, a |-> "NESTED_SEGWIT",
   w |-> "MULTI_SIG"],
  [p |-> <<"tr", "(", "50929b">>, a |-> "TAPROOT", w |-> "MULTI_SIG"],
  [p |-> <<"tr", "(", "[">>, a |-> "TAPROOT", w |-> "SINGLE_SIG"],
  [p |-> <<"tr", "(", "musig", "(">>, a |-> "TAPROOT", w |-> "MULTI_SIG"],
  [p |-> <<"wpkh", "(">>, a |-> "NATIVE_SEGWIT", w |-> "SINGLE_SIG"],
  [p |-> <<"wsh", "(", "sortedmulti", "(">>, a |-> "NATIVE_SEGWIT",
   w |-> "MULTI_SIG"]>>

\* boost::split with token_compress_off: the parts between consecutive
\* delimiters, empty ones kept.
Split(s, delims) ==
  LET ds == <<0>> \o SelectSeq([i \in DOMAIN s |-> i], LAMBDA i : s[i] \in delims)
              \o <<Len(s) + 1>>
  IN [k \in 1..(Len(ds) - 1) |-> SubSeq(s, ds[k] + 1, ds[k + 1] - 1)]

\* parts[i].size() < 20: only a key is that long.
IsLong(part) == \E i \in DOMAIN part : part[i] \in KeyToks

\* SIGNER_REGEX "\\[([0-9a-fA-F]{8})(.+)\\](.+?)(/.*\\*)?": "[", the
\* fingerprint, a non-empty path, "]", the key and an optional key path.
SignerMatch(s) ==
  /\ Len(s) >= 5 /\ s[1] = "[" /\ s[2] \in {FPS[i] : i \in 1..6}
  /\ \E i \in 4..Len(s) : s[i] = "]"
  /\ LET c == SelectInSeq(s, LAMBDA t : t = "]")
         rest == SubSeq(s, c + 1, Len(s))
     IN c >= 4 /\ rest # <<>> /\ (Len(rest) = 1 \/ rest = <<rest[1]>> \o KeyPath)

\* ParseSignerString: ok = FALSE where it throws.
ParseSignerString(s) ==
  IF ~SignerMatch(s) THEN [ok |-> FALSE]
  ELSE LET c == SelectInSeq(s, LAMBDA t : t = "]")
       IN [ok |-> TRUE,
           signer |-> [fp |-> s[2], key |-> s[c + 1],
                       path |-> <<"m">> \o SubSeq(s, 3, c - 1)]]

IsXpub(key) == key \in {XPUBS[i] : i \in 1..6}

\* Mutant: without the signerStr check.
DistinctKeepAll(ps) == ps

\* The parts not seen before, in order (signerStr).
Distinct(ps) ==
  LET firsts == SelectSeq([i \in DOMAIN ps |-> i],
                          LAMBDA i : \A j \in 1..(i - 1) : ps[j] # ps[i])
  IN [k \in DOMAIN firsts |-> ps[firsts[k]]]

Failed == [ok |-> FALSE]

\* ParseDescriptors on the external descriptor: the first prefix that
\* matches decides; signer_info runs from the prefix to the first ")".
\* ok = FALSE where it returns false (a throw is caught).
ParseDescriptors(ext) ==
  LET ms == SelectSeq(PREFIX_MATCHER, LAMBDA r : IsPrefix(r.p, ext))
  IN IF ms = <<>> THEN Failed
     ELSE LET pr == ms[1]
              close == SelectInSeq(ext, LAMBDA t : t = ")")
              info == SubSeq(ext, Len(pr.p) + 1,
                             IF close = 0 THEN Len(ext) ELSE close - 1)
          IN CASE pr.w = "SINGLE_SIG" ->
                    LET s == ParseSignerString(info)
                    IN IF ~s.ok THEN Failed
                       ELSE [ok |-> TRUE, a |-> pr.a, w |-> pr.w, m |-> 1,
                             n |-> 1, signers |-> <<s.signer>>]
               [] pr.a = "TAPROOT" ->
                    LET keys == Distinct(SelectSeq(Split(ext, {",", "{", "}", "(", ")"}),
                                                   IsLong))
                        ss == [i \in DOMAIN keys |-> ParseSignerString(keys[i])]
                    IN IF \E i \in DOMAIN ss : ~ss[i].ok THEN Failed
                       ELSE [ok |-> TRUE, a |-> pr.a, w |-> pr.w,
                             m |-> Len(Split(info, {","})), n |-> Len(ss),
                             signers |-> [i \in DOMAIN ss |-> ss[i].signer]]
               [] OTHER ->
                    LET parts == Split(info, {","})
                        ss == [i \in 1..(Len(parts) - 1) |-> ParseSignerString(parts[i + 1])]
                    IN IF \E i \in DOMAIN ss : ~ss[i].ok THEN Failed
                       ELSE [ok |-> TRUE, a |-> pr.a,
                             w |-> IF \E i \in DOMAIN ss : ~IsXpub(ss[i].signer.key)
                                   THEN "ESCROW" ELSE pr.w,
                             m |-> CHOOSE k \in 1..6 : parts[1] = <<NUMBERS[k]>>,
                             n |-> Len(ss),
                             signers |-> [i \in DOMAIN ss |-> ss[i].signer]]

(***************************************************************************)
(* Wallets, and the wallet a descriptor should read back as.               *)
(***************************************************************************)
\* Derivation paths as a SingleSigner holds them: its constructor rewrites
\* every path with GetDerivationPathView (WriteHDKeypath, hardened steps
\* with "h"), so "m/48'" and "48h" arrive as "m/48h"; the master path is "m".
Paths == {<<"m", "/", "4", "8", "h">>, <<"m">>}
StdPath == <<"m", "/", "4", "8", "h">>

WalletOf(ss, m, at, wt, sorted) ==
  [signers |-> ss, m |-> m, at |-> at, wt |-> wt, sorted |-> sorted]

\* Single-sig wallets of one signer; m-of-n wallets of signers 1..n on the
\* standard path; 2-signer wallets with every pair of paths.
Wallets ==
  LET sig(i, p) == [id |-> i, path |-> p]
  IN {WalletOf(<<sig(1, p)>>, 1, at, "SINGLE_SIG", so) :
        p \in Paths, at \in AddressTypes, so \in BOOLEAN}
     \cup {WalletOf([i \in 1..n |-> sig(i, StdPath)], m, at, wt, so) :
           n \in 1..MaxSigners, m \in 1..MaxSigners, at \in AddressTypes,
           wt \in {"MULTI_SIG", "ESCROW"}, so \in BOOLEAN}
     \cup {WalletOf(<<sig(1, p1), sig(2, p2)>>, m, at, wt, so) :
           p1 \in Paths, p2 \in Paths, m \in 1..2, at \in AddressTypes,
           wt \in {"MULTI_SIG", "ESCROW"}, so \in BOOLEAN}

ValidWallets == {x \in Wallets : x.m <= Len(x.signers)}

Expected(x) ==
  [ok |-> TRUE, a |-> x.at, w |-> x.wt,
   m |-> x.m, n |-> Len(x.signers),
   signers |-> [i \in DOMAIN x.signers |->
                  [fp |-> FPS[x.signers[i].id],
                   key |-> IF x.wt = "ESCROW" THEN PUBS[x.signers[i].id]
                           ELSE XPUBS[x.signers[i].id],
                   path |-> <<"m">> \o FormalizePath(x.signers[i].path)]]]

\* The wallets ParseDescriptors rejects: a signer on the master path (the
\* regex wants a non-empty path), taproot single-sig (the "tr([" prefix
\* takes the "[" the regex needs) and unsorted multi() (no prefix matches).
Unreadable(x) ==
  \/ \E i \in DOMAIN x.signers : x.signers[i].path = <<"m">>
  \/ x.wt = "SINGLE_SIG" /\ x.at = "TAPROOT"
  \/ x.wt # "SINGLE_SIG" /\ x.at # "TAPROOT" /\ ~x.sorted

\* The wallets ParseDescriptors reads back as MULTI_SIG: its taproot branch
\* never sets ESCROW.
TypeLost(x) == x.wt = "ESCROW" /\ x.at = "TAPROOT"

\* The fingerprints in d[i..j].
FpsIn(d, i, j) == {d[k] : k \in {k \in i..j : d[k] \in {FPS[x] : x \in 1..6}}}

\* The first ")" at or after d[i].
CloseOf(d, i) ==
  CHOOSE c \in i..Len(d) : d[c] = ")" /\ \A k \in i..(c - 1) : d[k] # ")"

\* The nesting depth of {} branches at d[i].
Depth(d, i) ==
  Cardinality({k \in 1..i : d[k] = "{"}) - Cardinality({k \in 1..i : d[k] = "}"})

(***************************************************************************)
(* Export and import.                                                      *)
(***************************************************************************)
NoWallet == [signers |-> <<>>, m |-> 0, at |-> "NONE", wt |-> "NONE",
             sorted |-> FALSE]

DInit ==
  /\ exported = NoWallet
  /\ descriptor = <<>>
  /\ imported = [done |-> FALSE]

\* The EXTERNAL_ALL descriptor GetDescriptorsImportString(wallet) exports:
\* Wallet::get_descriptor passes the wallet's own sorted flag to
\* GetDescriptorForSigners, so x.sorted = FALSE is an unsorted wallet.
Export(x) ==
  /\ exported' = x
  /\ descriptor' = GetDescriptorForSigners(x)
  /\ imported' = [done |-> FALSE]

\* ParseJSONDescriptors of a JSON whose "descriptor" is the exported one.
Import ==
  /\ descriptor # <<>> /\ ~imported.done
  /\ imported' = [done |-> TRUE, r |-> ParseDescriptors(descriptor)]
  /\ UNCHANGED <<exported, descriptor>>

(***************************************************************************)
(* Properties.                                                             *)
(***************************************************************************)
\* ParseDescriptors of the descriptor GetDescriptorForSigners writes gives
\* back the wallet: address type, wallet type, m, n, and every signer's
\* fingerprint, key and path in the wallet's order (which GetWalletId's
\* checksum depends on).  The only exceptions are these: it returns false
\* for exactly the wallets Unreadable lists, and it loses the escrow type of
\* a taproot wallet.
DescriptorRoundTrip ==
  imported.done =>
    LET x == exported
        r == imported.r
    IN CASE Unreadable(x) -> ~r.ok
         [] TypeLost(x) -> r = [Expected(x) EXCEPT !.w = "MULTI_SIG"]
         [] OTHER -> r = Expected(x)

\* Any m of the n keys of a taproot m-of-n wallet with n <= 5 can spend:
\* the key path is musig() of the first m keys, and the script tree
\* GetMusigDescriptor builds holds one pk(musig()) leaf for each other
\* m-subset, each exactly once.  GetScriptpathDescriptor pairs the leaves
\* into a tree no deeper than their number requires.
MusigCoversCombinations ==
  LET x == exported IN
  x.at = "TAPROOT" /\ x.wt = "MULTI_SIG" /\ Len(x.signers) <= 5 =>
    LET d == descriptor
        fps == {FPS[x.signers[i].id] : i \in DOMAIN x.signers}
        pks == SelectSeq([i \in DOMAIN d |-> i], LAMBDA i : d[i] = "pk")
        leaves == [k \in DOMAIN pks |-> FpsIn(d, pks[k], CloseOf(d, pks[k]))]
        subsets == {S \in SUBSET fps : Cardinality(S) = x.m}
        keyPath == FpsIn(d, 1, CloseOf(d, 1))
        depth == IF Len(leaves) <= 1 THEN 0
                 ELSE CHOOSE e \in 1..4 : 2^(e - 1) < Len(leaves) /\ Len(leaves) <= 2^e
    IN /\ keyPath = {FPS[x.signers[i].id] : i \in 1..x.m}
       /\ Len(leaves) = Cardinality(subsets) - 1
       /\ ToSet(leaves) = subsets \ {keyPath}
       /\ \A i \in DOMAIN d : Depth(d, i) <= depth
====
