-------------------------------- MODULE Names --------------------------------
(***************************************************************************)
(* The names the library converts: enumeration keys and the names the      *)
(* daemon uses for them (daemon.cpp), sets of groups (bitfield.cpp), and   *)
(* the parts of a package id (transaction.cpp).                            *)
(*                                                                         *)
(* A key or a name is a sequence of words and separators.  A word is       *)
(* capitalised or not; the prefix of a key ("Group") is left out.          *)
(***************************************************************************)
EXTENDS Naturals, Sequences, FiniteSets, SequencesExt

Capital(w) == [text |-> w, upper |-> TRUE]
Lower(c) == [c EXCEPT !.upper = FALSE]
Dash == [text |-> "-", upper |-> FALSE]
Tilde == [text |-> "~", upper |-> FALSE]

(* The words of Transaction::Group, from value 0.                          *)
GroupWords ==
  <<<<"unknown">>, <<"accessibility">>, <<"accessories">>, <<"admin", "tools">>,
    <<"communication">>, <<"desktop", "gnome">>, <<"desktop", "kde">>,
    <<"desktop", "other">>, <<"desktop", "xfce">>, <<"education">>, <<"fonts">>,
    <<"games">>, <<"graphics">>, <<"internet">>, <<"legacy">>, <<"localization">>,
    <<"maps">>, <<"multimedia">>, <<"network">>, <<"office">>, <<"other">>,
    <<"power", "management">>, <<"programming">>, <<"publishing">>, <<"repos">>,
    <<"security">>, <<"servers">>, <<"system">>, <<"virtualization">>, <<"science">>,
    <<"documentation">>, <<"electronics">>, <<"collections">>, <<"vendor">>, <<"newest">>>>

Group == 0..(Len(GroupWords) - 1)
GroupUnknown == 0

GroupKey(g) == [i \in DOMAIN GroupWords[g + 1] |-> Capital(GroupWords[g + 1][i])]

(***************************************************************************)
(* Enumerations and names                                                  *)
(***************************************************************************)
(* Mutant of hyphenated: words are run together.                           *)
joined(key) == [i \in DOMAIN key |-> Lower(key[i])]

(* Lower case, with a dash before every capital but the first.             *)
hyphenated(key) ==
  FlattenSeq([i \in DOMAIN key |->
                (IF i > 1 /\ key[i].upper THEN <<Dash>> ELSE <<>>) \o <<Lower(key[i])>>])

(* enumToString(): a value without a key has an empty name.                *)
enumToString(g) == IF g \in Group THEN hyphenated(GroupKey(g)) ELSE <<>>

(* A word is capitalised at the start and after a separator; "~" is "Not". *)
Camel(acc, c) ==
  CASE c = Dash -> [acc EXCEPT !.capital = TRUE]
    [] c = Tilde -> [key |-> Append(acc.key, Capital("not")), capital |-> TRUE]
    [] OTHER -> [key |-> Append(acc.key, [c EXCEPT !.upper = acc.capital]), capital |-> FALSE]

camelCased(name) == FoldLeft(Camel, [key |-> <<>>, capital |-> TRUE], name).key

(* enumFromString(): what is no key is the Unknown of the enumeration.     *)
enumFromString(name) ==
  LET known == {g \in Group : GroupKey(g) = camelCased(name)}
  IN IF known = {} THEN GroupUnknown ELSE CHOOSE g \in known : TRUE

(***************************************************************************)
(* Sets of groups: the bits of a Bitfield that are set, 0..63              *)
(***************************************************************************)
(* operator& and operator|= with the number of a bit.                      *)
TestBit(mask, i) == mask \cap {i}
SetBit(mask, i) == mask \cup {i}

(* Daemon::searchGroups(Groups): the names that are sent.                  *)
searchGroups(mask) ==
  FlattenSeq([i \in 1..63 |-> IF TestBit(mask, i) # {} /\ i # GroupUnknown
                                THEN <<enumToString(i)>> ELSE <<>>])

(***************************************************************************)
(* Package ids: name;version;arch;data                                     *)
(***************************************************************************)
Separator == ";"

(* indexOf(";", from), 0 if there is none: positions count from 1.         *)
indexOf(pid, from) == SelectInSubSeq(pid, from, Len(pid), LAMBDA c : c = Separator)

(* The n-th separator, 0 if there are fewer.                               *)
nth(pid) ==
  LET first == indexOf(pid, 1)
      second == IF first = 0 THEN 0 ELSE indexOf(pid, first + 1)
  IN <<first, second, IF second = 0 THEN 0 ELSE indexOf(pid, second + 1)>>

(* From position start to the next separator, or to the end.               *)
mid(pid, start) ==
  LET end == indexOf(pid, start)
  IN SubSeq(pid, start, IF end = 0 THEN Len(pid) ELSE end - 1)

packageName(pid) == mid(pid, 1)

packageVersion(pid) == IF nth(pid)[1] = 0 THEN <<>> ELSE mid(pid, nth(pid)[1] + 1)

packageArch(pid) == IF nth(pid)[2] = 0 THEN <<>> ELSE mid(pid, nth(pid)[2] + 1)

(* Mutant of packageData: like the other parts, it ends at a separator.    *)
packageDataField(pid) == IF nth(pid)[3] = 0 THEN <<>> ELSE mid(pid, nth(pid)[3] + 1)

(* The data is the rest, separators included.                              *)
packageData(pid) ==
  IF nth(pid)[3] = 0 THEN <<>> ELSE SubSeq(pid, nth(pid)[3] + 1, Len(pid))

(* The four parts of an id, put together again, give the id: no character  *)
(* is lost, moved to another part or counted twice, whether the id is      *)
(* complete, too short or has separators in its data.  Parts that are      *)
(* missing are empty.                                                      *)
Parts(pid) == <<packageName(pid), packageVersion(pid), packageArch(pid), packageData(pid)>>
Separators(pid) == Cardinality({i \in DOMAIN pid : pid[i] = Separator})
Present(pid) == IF Separators(pid) >= 3 THEN 4 ELSE Separators(pid) + 1
Cut(pid) == [i \in 1..Present(pid) |-> (IF i = 1 THEN <<>> ELSE <<Separator>>) \o Parts(pid)[i]]
Reassembled(pid) ==
  /\ pid = FlattenSeq(Cut(pid))
  /\ \A i \in (Present(pid) + 1)..4 : Parts(pid)[i] = <<>>
  /\ \A i \in 1..3 : Separator \notin ToSet(Parts(pid)[i])
=============================================================================
